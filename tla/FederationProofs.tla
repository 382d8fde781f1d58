-------------------------- MODULE FederationProofs --------------------------
(***************************************************************************)
(* Theorems about Federation, for every number of objects, workers,        *)
(* instances, configurations and faults.                                   *)
(*                                                                         *)
(* The argument goes in layers.  TypeInv fixes the types and says that     *)
(* everything outstanding is about a committed event.  Arrival adds that   *)
(* the inbox is a prefix of each history and that decisions and delivered  *)
(* rows agree with it.  Tries counts attempts against faults.  Policy says *)
(* that what is under way, late or arrived was allowed by the peer's       *)
(* configuration.  Ordered says that what is under way or late has all its *)
(* predecessors in the inbox, and that nothing is quarantined; it holds    *)
(* while the history stays gap free and the receiver admits every event.   *)
(***************************************************************************)
EXTENDS Federation, TLAPS

TypeInv == TypeOK /\ EventsArePublished /\ ReconcilerIsBooting

Arrival == ReplicaIsPrefix /\ DeliveredIsApplied /\ DecisionsAreSound

Tries == InFlightIsOwned /\ ClaimsAreCurrent /\ ExcessIsCharged

-----------------------------------------------------------------------------
(* Types *)

LEMMA NewRows == Absent \in RowType /\ Pending \in RowType /\ Pending.state = "pending"
  BY DEF Absent, Pending, RowType, Errors

LEMMA InitTypeInv == Init => TypeInv
<1> SUFFICES ASSUME Init PROVE TypeInv
  OBVIOUS
<1> USE EventsAssumption, DeliveryAssumption DEF Init, DeliveryInit, InboxInit
<1>1. rows \in [Events -> RowType] /\ peer \in PeerType
  BY NewRows DEF PeerType
<1>2. DeliveryTypeOK
  BY <1>1 DEF DeliveryTypeOK
<1>3. InboxTypeOK
  BY InPoliciesAssumption DEF InboxTypeOK
<1>4. EventsArePublished /\ ReconcilerIsBooting
  BY DEF EventsArePublished, ReconcilerIsBooting, Absent, Idle
<1> QED
  BY <1>2, <1>3, <1>4 DEF TypeInv, TypeOK

LEMMA PublishTypeInv ==
  ASSUME TypeInv, PublishStep, UNCHANGED inboxVars
  PROVE  TypeInv'
<1> USE EventsAssumption, DeliveryAssumption
    DEF TypeInv, TypeOK, EventsArePublished, ReconcilerIsBooting, inboxVars, bootVars,
        workerVars, publishVars, Events, Outbox
<1>1. ASSUME NEW o \in Objects, enqueue_delivery_targets(o)
      PROVE  TypeInv'
  BY <1>1 DEF enqueue_delivery_targets, DeliveryTypeOK, InboxTypeOK
<1>2. ASSUME NEW o \in Objects, persist_local(o)
      PROVE  TypeInv'
  <2>1. version' \in [Objects -> 0..MaxVersion] /\ version'[o] = version[o] + 1
        /\ \A p \in Objects : version[p] <= version'[p]
    BY <1>2 DEF persist_local, DeliveryTypeOK
  <2>2. rows' \in [Events -> RowType]
    BY <1>2, NewRows DEF persist_local, DeliveryTypeOK
  <2>3. TypeOK'
    BY <1>2, <2>1, <2>2 DEF persist_local, DeliveryTypeOK, InboxTypeOK
  <2>4. \A e \in Events : rows'[e].state # "absent" => e \in Outbox'
    BY <1>2, <2>1 DEF persist_local, DeliveryTypeOK
  <2>5. EventsArePublished'
    BY <1>2, <2>1, <2>4 DEF persist_local, DeliveryTypeOK
  <2>6. ReconcilerIsBooting'
    BY <1>2, <2>1 DEF persist_local, DeliveryTypeOK
  <2> QED
    BY <2>3, <2>5, <2>6
<1>3. ASSUME NEW o \in Objects, PublishAbort(o)
      PROVE  TypeInv'
  BY <1>3 DEF PublishAbort, Fault, DeliveryTypeOK, InboxTypeOK
<1> QED
  BY <1>1, <1>2, <1>3 DEF PublishStep

LEMMA RefillRow ==
  ASSUME NEW r \in RowType
  PROVE  Refill(r) \in RowType /\ (Refill(r) = r \/ Refill(r) = Pending)
  BY NewRows DEF Refill

LEMMA BootTypeInv ==
  ASSUME TypeInv, runtime_router, UNCHANGED inboxVars
  PROVE  TypeInv'
<1> USE DeliveryAssumption
    DEF TypeInv, TypeOK, EventsArePublished, ReconcilerIsBooting, inboxVars, bootVars,
        workerVars, publishVars, Outbox
<1>1. ASSUME NEW i \in Instances, NEW c \in Configs, install_peer(i, c)
      PROVE  TypeInv'
  <2>1. peer' \in PeerType
    BY <1>1 DEF install_peer, DeliveryTypeOK, PeerType, ConfigType
  <2> QED
    BY <1>1, <2>1 DEF install_peer, DeliveryTypeOK, InboxTypeOK
<1>2. ASSUME NEW i \in Instances, ReconcileBegin(i)
      PROVE  TypeInv'
  BY <1>2 DEF ReconcileBegin, DeliveryTypeOK, InboxTypeOK
<1>3. ASSUME NEW i \in Instances, reconcile_delivery_endpoints(i)
      PROVE  TypeInv'
  <2>1. recon # NoOne /\ recon.inst = i /\ boot[i] \in Configs /\ recon.seen \subseteq Outbox
    BY <1>3 DEF reconcile_delivery_endpoints, DeliveryTypeOK
  <2>2. peer' \in PeerType
    BY <1>3, <2>1 DEF reconcile_delivery_endpoints, delivery_policy_sha256, DeliveryTypeOK,
                      PeerType, ConfigType
  <2>3. /\ rows' \in [Events -> RowType]
        /\ \A e \in Events : rows'[e] = rows[e] \/ e \in recon.seen
    BY <1>3, <2>1, RefillRow DEF reconcile_delivery_endpoints, DeliveryTypeOK
  <2>4. TypeOK'
    BY <1>3, <2>2, <2>3 DEF reconcile_delivery_endpoints, DeliveryTypeOK, InboxTypeOK
  <2> QED
    BY <1>3, <2>1, <2>3, <2>4 DEF reconcile_delivery_endpoints
<1>4. ASSUME NEW i \in Instances, BootCrash(i)
      PROVE  TypeInv'
  BY <1>4 DEF BootCrash, Fault, DeliveryTypeOK, InboxTypeOK
<1> QED
  BY <1>1, <1>2, <1>3, <1>4 DEF runtime_router

LEMMA ReleaseRow ==
  ASSUME NEW r \in RowType, NEW state \in {"delivered", "retry", "dead"}, NEW error \in Errors
  PROVE  /\ Release(r, state, error) \in RowType
         /\ Release(r, state, error).state = state
         /\ Release(r, state, error).attempts = r.attempts
         /\ Release(r, state, error).owner = NoOne
  BY DEF Release, RowType

\* What a step may do to rows and workers for TypeInv to survive it.
LEMMA WorkTypeInv ==
  ASSUME TypeInv,
         UNCHANGED <<publishVars, bootVars>>,
         rows' \in [Events -> RowType],
         \A e \in Events : rows'[e].state # "absent" => rows[e].state # "absent",
         worker' \in [Workers -> {Idle} \cup ClaimType \cup DecisionType],
         \A w \in Workers : worker'[w] # Idle => worker'[w].ev \in Outbox,
         left' \in [Workers -> 0..BatchSize],
         late' \subseteq Outbox,
         faults' \in 0..MaxFaults,
         UNCHANGED inboxVars
  PROVE  TypeInv'
<1> USE DEF publishVars, bootVars, inboxVars
<1>1. Outbox' = Outbox
  BY DEF Outbox
<1>2. TypeOK'
  BY DEF TypeInv, TypeOK, DeliveryTypeOK, InboxTypeOK, Outbox
<1>3. EventsArePublished'
  BY <1>1 DEF TypeInv, EventsArePublished
<1>4. ReconcilerIsBooting'
  BY <1>1 DEF TypeInv, ReconcilerIsBooting
<1> QED
  BY <1>2, <1>3, <1>4 DEF TypeInv

LEMMA DecideType ==
  ASSUME TypeInv, NEW w \in Workers, NEW to \in {"delivered", "retry", "dead"},
         NEW error \in Errors, worker[w] # Idle, Decide(w, to, error)
  PROVE  /\ worker' \in [Workers -> {Idle} \cup ClaimType \cup DecisionType]
         /\ \A v \in Workers : worker'[v] # Idle => worker'[v].ev \in Outbox
<1>1. worker[w] \in ClaimType \cup DecisionType /\ worker[w].ev \in Outbox
      /\ worker \in [Workers -> {Idle} \cup ClaimType \cup DecisionType]
  BY DEF TypeInv, TypeOK, DeliveryTypeOK, EventsArePublished
<1>2. worker[w].ev \in Events /\ worker[w].attempt \in Nat
  BY <1>1 DEF ClaimType, DecisionType
<1>3. worker'[w] \in DecisionType /\ worker'[w].ev = worker[w].ev
  BY <1>1, <1>2 DEF Decide, DecisionType
<1> QED
  BY <1>1, <1>3 DEF Decide, TypeInv, EventsArePublished

LEMMA BatchTypeInv ==
  ASSUME TypeInv, NEW w \in Workers, run_delivery_batch(w) \/ WorkerFault(w),
         UNCHANGED inboxVars
  PROVE  TypeInv'
<1>0. /\ rows \in [Events -> RowType]
      /\ worker \in [Workers -> {Idle} \cup ClaimType \cup DecisionType]
      /\ left \in [Workers -> 0..BatchSize] /\ BatchSize \in Nat
      /\ late \subseteq Outbox /\ faults \in 0..MaxFaults /\ MaxFaults \in Nat
      /\ \A v \in Workers : worker[v] # Idle => worker[v].ev \in Outbox
      /\ \A e \in Events : rows[e].state # "absent" => e \in Outbox
      /\ NoOne \notin Workers
  BY DeliveryAssumption DEF TypeInv, TypeOK, DeliveryTypeOK, EventsArePublished
<1>1. CASE expire_exhausted_deliveries(w)
  <2>1. rows' \in [Events -> RowType]
        /\ \A e \in Events : rows'[e].state # "absent" => rows[e].state # "absent"
    BY <1>0, <1>1, ReleaseRow DEF expire_exhausted_deliveries, Errors
  <2>2. left' \in [Workers -> 0..BatchSize]
    BY <1>0, <1>1 DEF expire_exhausted_deliveries
  <2> QED
    BY <1>0, <1>1, <2>1, <2>2, WorkTypeInv DEF expire_exhausted_deliveries
<1>2. CASE claim_due_delivery(w)
  <2>1. PICK e \in Candidates :
          /\ rows' = [rows EXCEPT ![e].state = "in_flight", ![e].owner = w,
                                  ![e].attempts = @ + 1, ![e].ready = FALSE]
          /\ worker' = [worker EXCEPT ![w] = [pc |-> "claimed", ev |-> e,
                                              attempt |-> rows[e].attempts + 1]]
    BY <1>2 DEF claim_due_delivery
  <2>2. e \in Events /\ rows[e].state # "absent" /\ rows[e] \in RowType /\ e \in Outbox
    BY <1>0 DEF Candidates, Events
  <2>3. rows' \in [Events -> RowType]
        /\ \A f \in Events : rows'[f].state # "absent" => rows[f].state # "absent"
    BY <1>0, <2>1, <2>2 DEF RowType
  <2>4. worker' \in [Workers -> {Idle} \cup ClaimType \cup DecisionType]
        /\ \A v \in Workers : worker'[v] # Idle => worker'[v].ev \in Outbox
    BY <1>0, <2>1, <2>2 DEF RowType, ClaimType
  <2> QED
    BY <1>0, <1>2, <2>3, <2>4, WorkTypeInv DEF claim_due_delivery
<1>3. CASE EndBatch(w)
  BY <1>0, <1>3, WorkTypeInv DEF EndBatch
<1>4. CASE load_delivery_context(w)
  <2>1. worker' \in [Workers -> {Idle} \cup ClaimType \cup DecisionType]
        /\ \A v \in Workers : worker'[v] # Idle => worker'[v].ev \in Outbox
    <3>1. CASE worker' = [worker EXCEPT ![w] = Idle]
      BY <1>0, <3>1
    <3>2. CASE Decide(w, "dead", "policy")
      BY <1>4, <3>2, DecideType DEF load_delivery_context, Errors
    <3>3. CASE worker' = [worker EXCEPT ![w].pc = "posting"]
      BY <1>0, <1>4, <3>3 DEF load_delivery_context, ClaimType, DecisionType, Idle
    <3> QED
      BY <1>4, <3>1, <3>2, <3>3 DEF load_delivery_context
  <2> QED
    BY <1>0, <1>4, <2>1, WorkTypeInv DEF load_delivery_context
<1>5. CASE post_event_fails(w)
  <2>1. worker' \in [Workers -> {Idle} \cup ClaimType \cup DecisionType]
        /\ \A v \in Workers : worker'[v] # Idle => worker'[v].ev \in Outbox
    BY <1>5, DecideType DEF post_event_fails, Retry, Errors
  <2>2. late' \subseteq Outbox
    BY <1>0, <1>5 DEF post_event_fails, UnderWay
  <2> QED
    BY <1>0, <1>5, <2>1, <2>2, WorkTypeInv DEF post_event_fails
<1>6. CASE finalize_decision(w)
  <2>1. worker[w] \in DecisionType
    BY <1>0, <1>6 DEF finalize_decision, Idle, ClaimType
  <2>2. rows' \in [Events -> RowType]
        /\ \A e \in Events : rows'[e].state # "absent" => rows[e].state # "absent"
    <3>1. PICK e \in Events : e = worker[w].ev
      BY <2>1 DEF DecisionType
    <3>2. rows' = [rows EXCEPT ![e] = IF Holds(w, e)
                     THEN Release(rows[e], worker[w].to, worker[w].error) ELSE rows[e]]
      BY <1>6, <3>1 DEF finalize_decision
    <3>3. Release(rows[e], worker[w].to, worker[w].error) \in RowType
      BY <1>0, <2>1, ReleaseRow DEF DecisionType
    <3> QED
      BY <1>0, <3>2, <3>3 DEF Holds
  <2> QED
    BY <1>0, <1>6, <2>2, WorkTypeInv DEF finalize_decision
<1>7. CASE WorkerFault(w)
  <2>1. late' \subseteq Outbox
    BY <1>0, <1>7 DEF WorkerFault, UnderWay
  <2>2. left' \in [Workers -> 0..BatchSize] /\ faults' \in 0..MaxFaults
    BY <1>0, <1>7 DEF WorkerFault, Fault
  <2>3. worker' \in [Workers -> {Idle} \cup ClaimType \cup DecisionType]
        /\ \A v \in Workers : worker'[v] # Idle => worker'[v].ev \in Outbox
    BY <1>0, <1>7 DEF WorkerFault
  <2> QED
    BY <1>0, <1>7, <2>1, <2>2, <2>3, WorkTypeInv DEF WorkerFault
<1> QED
  BY <1>1, <1>2, <1>3, <1>4, <1>5, <1>6, <1>7 DEF run_delivery_batch

LEMMA TimeTypeInv ==
  ASSUME TypeInv, TimePasses, UNCHANGED inboxVars
  PROVE  TypeInv'
<1>0. /\ rows \in [Events -> RowType] /\ faults \in 0..MaxFaults /\ MaxFaults \in Nat
      /\ worker \in [Workers -> {Idle} \cup ClaimType \cup DecisionType]
      /\ left \in [Workers -> 0..BatchSize] /\ late \subseteq Outbox
      /\ \A v \in Workers : worker[v] # Idle => worker[v].ev \in Outbox
  BY DeliveryAssumption DEF TypeInv, TypeOK, DeliveryTypeOK, EventsArePublished
<1>1. PICK e \in Events : BackoffEnds(e) \/ LeaseEnds(e) \/ LeaseOverrun(e)
  BY DEF TimePasses
<1>2. rows' = [rows EXCEPT ![e].ready = TRUE] /\ UNCHANGED <<publishVars, bootVars, workerVars>>
      /\ faults' \in 0..MaxFaults
  BY <1>0, <1>1 DEF BackoffEnds, LeaseEnds, LeaseOverrun, Fault
<1>3. rows' \in [Events -> RowType]
      /\ \A f \in Events : rows'[f].state # "absent" => rows[f].state # "absent"
  BY <1>0, <1>2 DEF RowType
<1> QED
  BY <1>0, <1>2, <1>3, WorkTypeInv DEF workerVars

\* accept_verified keeps the receiver's types.
LEMMA AcceptType ==
  ASSUME InboxTypeOK, NEW e \in Events, NEW outcome \in Outcomes, accept_verified(e, outcome)
  PROVE  InboxTypeOK'
<1>1. MaxVersion \in Nat /\ e[1] \in Objects /\ e[2] \in 1..MaxVersion
  BY EventsAssumption DEF Events
<1> QED
  BY <1>1 DEF InboxTypeOK, accept_verified, quarantine_verified_in_tx, transition_allowed

\* A step of the worker that only reaches a decision, for any new inbox.
LEMMA AnswerTypeInv ==
  ASSUME TypeInv, NEW w \in Workers, NEW outcome \in Outcomes \cup {"malformed"},
         Answer(w, outcome), InboxTypeOK'
  PROVE  TypeInv'
<1> USE DEF publishVars, bootVars
<1>1. /\ worker' \in [Workers -> {Idle} \cup ClaimType \cup DecisionType]
      /\ \A v \in Workers : worker'[v] # Idle => worker'[v].ev \in Outbox
  BY DecideType DEF Answer, classify_response, Retry, Errors
<1>2. UNCHANGED <<version, open, rows, peer, boot, recon, boots, left, late, faults>>
  BY DEF Answer
<1>3. Outbox' = Outbox
  BY <1>2 DEF Outbox
<1>4. TypeOK'
  BY <1>1, <1>2 DEF TypeInv, TypeOK, DeliveryTypeOK
<1>5. EventsArePublished' /\ ReconcilerIsBooting'
  BY <1>1, <1>2, <1>3 DEF TypeInv, EventsArePublished, ReconcilerIsBooting
<1> QED
  BY <1>4, <1>5 DEF TypeInv

\* A step of the receiver alone.
LEMMA ReceiverTypeInv ==
  ASSUME TypeInv, InboxTypeOK', boots' \in 0..MaxBoots,
         UNCHANGED <<publishVars, rows, peer, boot, recon, workerVars, faults>>
  PROVE  TypeInv'
<1>1. Outbox' = Outbox
  BY DEF Outbox, publishVars
<1> QED
  BY <1>1 DEF TypeInv, TypeOK, DeliveryTypeOK, EventsArePublished, ReconcilerIsBooting,
              publishVars, workerVars

LEMMA NextTypeInv == TypeInv /\ [Next]_vars => TypeInv'
<1> SUFFICES ASSUME TypeInv, [Next]_vars PROVE TypeInv'
  OBVIOUS
<1>1. CASE (PublishStep \/ runtime_router \/ TimePasses) /\ UNCHANGED inboxVars
  BY <1>1, PublishTypeInv, BootTypeInv, TimeTypeInv
<1>2. ASSUME NEW w \in Workers,
             (run_delivery_batch(w) \/ WorkerFault(w)) /\ UNCHANGED inboxVars
      PROVE  TypeInv'
  BY <1>2, BatchTypeInv
<1>3. ASSUME NEW w \in Workers, receive_event(w)
      PROVE  TypeInv'
  <2>1. PICK outcome \in Outcomes, e \in Events : accept_verified(e, outcome) /\ Answer(w, outcome)
    BY <1>3 DEF receive_event, UnderWay
  <2>2. InboxTypeOK'
    BY <2>1, AcceptType DEF TypeInv, TypeOK
  <2> QED
    BY <2>1, <2>2, AnswerTypeInv
<1>4. ASSUME NEW w \in Workers, ForeignAnswer(w)
      PROVE  TypeInv'
  <2>1. InboxTypeOK'
    BY <1>4 DEF ForeignAnswer, inboxVars, InboxTypeOK, TypeInv, TypeOK
  <2> QED
    BY <1>4, <2>1, AnswerTypeInv DEF ForeignAnswer
<1>5. ASSUME NEW e \in Events, receive_late(e)
      PROVE  TypeInv'
  <2>1. InboxTypeOK'
    BY <1>5, AcceptType DEF receive_late, TypeInv, TypeOK
  <2>2. boots' \in 0..MaxBoots
        /\ UNCHANGED <<publishVars, rows, peer, boot, recon, workerVars, faults>>
    BY <1>5 DEF receive_late, deliveryVars, bootVars, TypeInv, TypeOK, DeliveryTypeOK
  <2> QED
    BY <2>1, <2>2, ReceiverTypeInv
<1>6. CASE InstallAtReceiver
  <2>1. InboxTypeOK'
    BY <1>6 DEF InstallAtReceiver, install_peer_in, InboxTypeOK, TypeInv, TypeOK
  <2>2. boots' \in 0..MaxBoots
        /\ UNCHANGED <<publishVars, rows, peer, boot, recon, workerVars, faults>>
    BY <1>6, DeliveryAssumption DEF InstallAtReceiver, TypeInv, TypeOK, DeliveryTypeOK
  <2> QED
    BY <2>1, <2>2, ReceiverTypeInv
<1>7. CASE UNCHANGED vars
  <2>1. InboxTypeOK'
    BY <1>7 DEF vars, inboxVars, InboxTypeOK, TypeInv, TypeOK
  <2>2. boots' \in 0..MaxBoots
        /\ UNCHANGED <<publishVars, rows, peer, boot, recon, workerVars, faults>>
    BY <1>7 DEF vars, deliveryVars, bootVars, TypeInv, TypeOK, DeliveryTypeOK
  <2> QED
    BY <2>1, <2>2, ReceiverTypeInv
<1> QED
  BY <1>1, <1>2, <1>3, <1>4, <1>5, <1>6, <1>7 DEF Next

\* Every variable of the two cells keeps its type.
THEOREM FederationTypeCorrect == Spec => []TypeOK
<1>1. TypeInv => TypeOK
  BY DEF TypeInv
<1> QED
  BY InitTypeInv, NextTypeInv, <1>1, PTL DEF Spec

-----------------------------------------------------------------------------
(* Arrival *)

LEMMA InitArrival == Init => Arrival
<1> SUFFICES ASSUME Init PROVE Arrival
  OBVIOUS
<1> USE EventsAssumption DEF Init, DeliveryInit, InboxInit
<1>1. ReplicaIsPrefix
  <2>1. /\ \A o \in Objects : replica[o] = 0 /\ version[o] = 0
        /\ inbox = {} /\ MaxVersion \in Nat
    OBVIOUS
  <2>2. ASSUME NEW o \in Objects, NEW v \in 1..MaxVersion
        PROVE  <<o, v>> \notin inbox /\ ~(v <= replica[o])
    BY <2>1
  <2>3. ASSUME NEW o \in Objects
        PROVE  replica[o] <= version[o]
    BY <2>1
  <2> QED
    BY <2>2, <2>3, Zenon DEF ReplicaIsPrefix
<1>2. DeliveredIsApplied /\ DecisionsAreSound
  BY DEF DeliveredIsApplied, DecisionsAreSound, Absent, Idle
<1> QED
  BY <1>1, <1>2 DEF Arrival

\* What one request does to the receiver.
LEMMA AcceptArrival ==
  ASSUME TypeInv, ReplicaIsPrefix, NEW e \in Outbox, NEW outcome \in Outcomes,
         accept_verified(e, outcome), UNCHANGED version
  PROVE  /\ ReplicaIsPrefix'
         /\ inbox \subseteq inbox'
         /\ outcome \in {"applied", "duplicate"} => e \in inbox'
<1>0. MaxVersion \in Nat /\ replica \in [Objects -> 0..MaxVersion] /\ inbox \subseteq Events
      /\ version \in [Objects -> 0..MaxVersion]
  BY EventsAssumption DEF TypeInv, TypeOK, InboxTypeOK, DeliveryTypeOK
<1>1. PICK o \in Objects, v \in 1..MaxVersion : e = <<o, v>> /\ v <= version[o]
  BY DEF Outbox, Events
<1>2. CASE UNCHANGED <<replica, inbox>>
  BY <1>2, <1>1 DEF ReplicaIsPrefix, accept_verified
<1>3. CASE /\ outcome = "applied" /\ v = replica[o] + 1
           /\ replica' = [replica EXCEPT ![o] = v] /\ inbox' = inbox \cup {<<o, v>>}
  <2>1. \A p \in Objects : replica'[p] <= version[p]
    BY <1>0, <1>1, <1>3 DEF ReplicaIsPrefix
  <2>2. ASSUME NEW p \in Objects, NEW u \in 1..MaxVersion
        PROVE  <<p, u>> \in inbox' <=> u <= replica'[p]
    <3>1. <<p, u>> \in inbox <=> u <= replica[p]
      BY DEF ReplicaIsPrefix
    <3>2. <<p, u>> = <<o, v>> <=> p = o /\ u = v
      OBVIOUS
    <3>3. CASE p = o
      BY <1>0, <1>3, <3>1, <3>2, <3>3
    <3>4. CASE p # o
      BY <1>0, <1>3, <3>1, <3>2, <3>4
    <3> QED
      BY <3>3, <3>4
  <2> QED
    BY <1>1, <1>3, <2>1, <2>2 DEF ReplicaIsPrefix
<1> QED
  BY <1>1, <1>2, <1>3 DEF accept_verified, transition_allowed

\* A step of the sender on which the receiver's state does not depend.
LEMMA SenderArrival ==
  ASSUME TypeInv, TypeInv', Arrival, UNCHANGED inboxVars,
         \A o \in Objects : version[o] <= version'[o],
         \A e \in Events : rows'[e].state = "delivered" => e \in inbox,
         DecisionsAreSound'
  PROVE  Arrival'
<1>1. ReplicaIsPrefix'
  BY EventsAssumption DEF Arrival, ReplicaIsPrefix, inboxVars, TypeInv, TypeOK, DeliveryTypeOK, InboxTypeOK
<1>2. DeliveredIsApplied'
  BY DEF DeliveredIsApplied, inboxVars
<1> QED
  BY <1>1, <1>2 DEF Arrival

LEMMA QuietArrival ==
  ASSUME TypeInv, TypeInv', Arrival,
         (PublishStep \/ runtime_router \/ TimePasses) /\ UNCHANGED inboxVars
  PROVE  Arrival'
<1>0. /\ rows \in [Events -> RowType] /\ version \in [Objects -> 0..MaxVersion]
      /\ MaxVersion \in Nat
      /\ \A e \in Events : rows[e].state = "delivered" => e \in inbox
  BY EventsAssumption DEF TypeInv, TypeOK, DeliveryTypeOK, Arrival, DeliveredIsApplied
<1>1. DecisionsAreSound'
  <2>1. UNCHANGED <<worker, inbox>>
    BY DEF PublishStep, runtime_router, TimePasses, inboxVars, workerVars,
           enqueue_delivery_targets, persist_local, PublishAbort, install_peer, ReconcileBegin,
           reconcile_delivery_endpoints, BootCrash, BackoffEnds, LeaseEnds, LeaseOverrun
  <2> QED
    BY <2>1 DEF Arrival, DecisionsAreSound
<1>2. \A o \in Objects : version[o] <= version'[o]
  <2>1. CASE PublishStep
    BY <1>0, <2>1 DEF PublishStep, enqueue_delivery_targets, persist_local, PublishAbort
  <2>2. CASE runtime_router \/ TimePasses
    <3>1. UNCHANGED version
      BY <2>2 DEF runtime_router, TimePasses, publishVars, install_peer, ReconcileBegin,
             reconcile_delivery_endpoints, BootCrash, BackoffEnds, LeaseEnds, LeaseOverrun
    <3> QED
      BY <1>0, <3>1
  <2> QED
    BY <2>1, <2>2
<1>3. \A e \in Events : rows'[e].state = "delivered" => rows[e].state = "delivered"
  <2>1. CASE PublishStep
    BY <1>0, <2>1, NewRows
    DEF PublishStep, enqueue_delivery_targets, persist_local, PublishAbort
  <2>2. CASE runtime_router
    <3>1. \A e \in Events : rows'[e] = rows[e] \/ rows'[e] = Pending
      <4>1. ASSUME NEW i \in Instances, reconcile_delivery_endpoints(i)
            PROVE  \A e \in Events : rows'[e] = rows[e] \/ rows'[e] = Pending
        BY <1>0, <4>1, RefillRow DEF reconcile_delivery_endpoints
      <4> QED
        BY <2>2, <4>1 DEF runtime_router, install_peer, ReconcileBegin, BootCrash
    <3> QED
      BY <3>1, NewRows
  <2>3. CASE TimePasses
    BY <1>0, <2>3 DEF TimePasses, BackoffEnds, LeaseEnds, LeaseOverrun, RowType
  <2> QED
    BY <2>1, <2>2, <2>3
<1> QED
  BY <1>0, <1>1, <1>2, <1>3, SenderArrival

LEMMA DecideSound ==
  ASSUME TypeInv, DecisionsAreSound, NEW w \in Workers, NEW to, NEW error,
         Decide(w, to, error), inbox \subseteq inbox',
         to = "delivered" => worker[w].ev \in inbox',
         to = "retry" => worker[w].attempt < MaxAttempts
  PROVE  DecisionsAreSound'
<1>1. worker \in [Workers -> {Idle} \cup ClaimType \cup DecisionType]
  BY DEF TypeInv, TypeOK, DeliveryTypeOK
<1>2. /\ worker'[w].to = to
      /\ worker'[w].ev = worker[w].ev
      /\ worker'[w].attempt = worker[w].attempt
  BY <1>1 DEF Decide
<1>3. \A v \in Workers \ {w} : worker'[v] = worker[v]
  BY <1>1 DEF Decide
<1> QED
  BY <1>2, <1>3 DEF DecisionsAreSound

LEMMA BatchArrival ==
  ASSUME TypeInv, TypeInv', Arrival, NEW w \in Workers,
         run_delivery_batch(w) \/ WorkerFault(w), UNCHANGED inboxVars
  PROVE  Arrival'
<1>0. /\ rows \in [Events -> RowType] /\ version \in [Objects -> 0..MaxVersion]
      /\ MaxVersion \in Nat
      /\ worker \in [Workers -> {Idle} \cup ClaimType \cup DecisionType]
      /\ \A e \in Events : rows[e].state = "delivered" => e \in inbox
      /\ inbox' = inbox /\ DecisionsAreSound
  BY EventsAssumption DEF TypeInv, TypeOK, DeliveryTypeOK, Arrival, DeliveredIsApplied, inboxVars
<1>1. \A o \in Objects : version[o] <= version'[o]
  <2>1. UNCHANGED version
    BY DEF run_delivery_batch, WorkerFault, expire_exhausted_deliveries, claim_due_delivery,
           EndBatch, load_delivery_context, post_event_fails, finalize_decision, publishVars
  <2> QED
    BY <1>0, <2>1
<1>2. \A e \in Events : rows'[e].state = "delivered" => e \in inbox
  <2>1. CASE expire_exhausted_deliveries(w)
    BY <1>0, <2>1, ReleaseRow DEF expire_exhausted_deliveries, Errors
  <2>2. CASE claim_due_delivery(w)
    BY <1>0, <2>2 DEF claim_due_delivery, Candidates, RowType
  <2>3. CASE finalize_decision(w)
    <3>1. worker[w] \in DecisionType
      BY <1>0, <2>3 DEF finalize_decision, Idle, ClaimType
    <3>2. PICK e \in Events : e = worker[w].ev
      BY <3>1 DEF DecisionType
    <3>3. rows' = [rows EXCEPT ![e] = IF Holds(w, e)
                     THEN Release(rows[e], worker[w].to, worker[w].error) ELSE rows[e]]
      BY <2>3, <3>2 DEF finalize_decision
    <3>4. Release(rows[e], worker[w].to, worker[w].error).state = worker[w].to
      BY <1>0, <3>1, ReleaseRow DEF DecisionType
    <3>5. worker[w].to = "delivered" => e \in inbox
      BY <1>0, <2>3, <3>2 DEF finalize_decision, DecisionsAreSound
    <3> QED
      BY <1>0, <3>3, <3>4, <3>5
  <2>4. CASE UNCHANGED rows
    BY <1>0, <2>4
  <2> QED
    BY <2>1, <2>2, <2>3, <2>4
    DEF run_delivery_batch, WorkerFault, EndBatch, load_delivery_context, post_event_fails
<1>3. DecisionsAreSound'
  <2>1. CASE load_delivery_context(w)
    <3>1. CASE Decide(w, "dead", "policy")
      BY <1>0, <3>1, DecideSound
    <3>2. CASE worker' = [worker EXCEPT ![w] = Idle] \/ worker' = [worker EXCEPT ![w].pc = "posting"]
      BY <1>0, <2>1, <3>2 DEF load_delivery_context, DecisionsAreSound, Idle, ClaimType, DecisionType
    <3> QED
      BY <2>1, <3>1, <3>2 DEF load_delivery_context
  <2>2. CASE post_event_fails(w)
    BY <1>0, <2>2, DecideSound DEF post_event_fails, Retry
  <2>3. CASE claim_due_delivery(w)
    BY <1>0, <2>3 DEF claim_due_delivery, DecisionsAreSound
  <2>4. CASE worker' = worker \/ worker' = [worker EXCEPT ![w] = Idle]
    BY <1>0, <2>4 DEF DecisionsAreSound, Idle
  <2> QED
    BY <2>1, <2>2, <2>3, <2>4
    DEF run_delivery_batch, WorkerFault, EndBatch, expire_exhausted_deliveries, finalize_decision
<1> QED
  BY <1>1, <1>2, <1>3, SenderArrival

LEMMA NextArrival == TypeInv /\ TypeInv' /\ Arrival /\ [Next]_vars => Arrival'
<1> SUFFICES ASSUME TypeInv, TypeInv', Arrival, [Next]_vars PROVE Arrival'
  OBVIOUS
<1> USE DEF Arrival
<1>1. CASE (PublishStep \/ runtime_router \/ TimePasses) /\ UNCHANGED inboxVars
  BY <1>1, QuietArrival
<1>2. ASSUME NEW w \in Workers,
             (run_delivery_batch(w) \/ WorkerFault(w)) /\ UNCHANGED inboxVars
      PROVE  Arrival'
  BY <1>2, BatchArrival
<1>3. ASSUME NEW w \in Workers, receive_event(w)
      PROVE  Arrival'
  <2>1. PICK outcome \in Outcomes, e \in UnderWay(w) :
          accept_verified(e, outcome) /\ Answer(w, outcome)
    BY <1>3 DEF receive_event
  <2>2. e \in Outbox /\ worker[w].ev = e
    BY DEF UnderWay, TypeInv, EventsArePublished
  <2>3. UNCHANGED <<version, rows>>
    BY <2>1 DEF Answer, publishVars
  <2>4. /\ ReplicaIsPrefix'
        /\ inbox \subseteq inbox'
        /\ outcome \in {"applied", "duplicate"} => e \in inbox'
    BY <2>1, <2>2, <2>3, AcceptArrival
  <2>5. DecisionsAreSound'
    BY <2>1, <2>2, <2>4, DecideSound DEF Answer, classify_response, Retry
  <2>6. DeliveredIsApplied'
    BY <2>3, <2>4 DEF DeliveredIsApplied
  <2> QED
    BY <2>4, <2>5, <2>6
<1>4. ASSUME NEW w \in Workers, ForeignAnswer(w)
      PROVE  Arrival'
  <2>1. UNCHANGED <<version, rows, replica, inbox>>
    BY <1>4 DEF ForeignAnswer, Answer, publishVars, inboxVars
  <2>2. DecisionsAreSound'
    BY <1>4, <2>1, DecideSound DEF ForeignAnswer, Answer, classify_response
  <2> QED
    BY <2>1, <2>2 DEF ReplicaIsPrefix, DeliveredIsApplied
<1>5. ASSUME NEW e \in Events, receive_late(e)
      PROVE  Arrival'
  <2>1. UNCHANGED <<version, rows, worker>> /\ e \in Outbox
    BY <1>5 DEF receive_late, deliveryVars, publishVars, workerVars, TypeInv, EventsArePublished
  <2>2. ReplicaIsPrefix' /\ inbox \subseteq inbox'
    BY <1>5, <2>1, AcceptArrival DEF receive_late
  <2> QED
    BY <2>1, <2>2 DEF DeliveredIsApplied, DecisionsAreSound
<1>6. CASE UNCHANGED <<version, rows, worker, replica, inbox>>
  BY <1>6 DEF ReplicaIsPrefix, DeliveredIsApplied, DecisionsAreSound
<1>7. CASE InstallAtReceiver \/ UNCHANGED vars
  BY <1>6, <1>7 DEF InstallAtReceiver, install_peer_in, vars, deliveryVars, inboxVars,
                    publishVars, workerVars
<1> QED
  BY <1>1, <1>2, <1>3, <1>4, <1>5, <1>7 DEF Next

\* The receiver holds a prefix of each history and never runs ahead of the
\* origin, and what the origin has recorded as delivered is in the receiver's
\* inbox, for any losses, repetitions, crashes and reconfigurations.
THEOREM FederationSafe == Spec => [](ReplicaIsPrefix /\ DeliveredIsApplied)
<1>1. Init => TypeInv /\ Arrival
  BY InitTypeInv, InitArrival
<1>2. TypeInv /\ Arrival /\ [Next]_vars => TypeInv' /\ Arrival'
  BY NextTypeInv, NextArrival
<1>3. TypeInv /\ Arrival => ReplicaIsPrefix /\ DeliveredIsApplied
  BY DEF Arrival
<1> QED
  BY <1>1, <1>2, <1>3, PTL DEF Spec

-----------------------------------------------------------------------------
(* Delivered rows *)

SameDelivered ==
  \A e \in Events : /\ rows[e].state = "delivered" => rows'[e] = rows[e]
                    /\ rows'[e].state = "delivered" => rows[e].state = "delivered"

\* Only finalize_decision makes a row delivered.
LEMMA DeliveredStep ==
  ASSUME TypeInv, [Next]_vars, ~ \E w \in Workers : finalize_decision(w) /\ UNCHANGED inboxVars
  PROVE  SameDelivered
<1>0. /\ rows \in [Events -> RowType] /\ version \in [Objects -> 0..MaxVersion]
      /\ \A e \in Events : rows[e].state # "absent" => e \in Outbox
      /\ MaxVersion \in Nat
  BY EventsAssumption DEF TypeInv, TypeOK, DeliveryTypeOK, EventsArePublished
<1> USE DEF SameDelivered
<1>1. CASE UNCHANGED rows
  BY <1>1
<1>2. ASSUME NEW o \in Objects, persist_local(o)
      PROVE  SameDelivered
  <2>1. ASSUME NEW e \in Events, e = <<o, version[o] + 1>>
        PROVE  rows[e].state # "delivered"
    BY <1>0, <2>1 DEF Outbox
  <2>2. \A e \in Events : e # <<o, version[o] + 1>> => rows'[e] = rows[e]
    BY <1>0, <1>2 DEF persist_local
  <2>3. \A e \in Events : e = <<o, version[o] + 1>> => rows'[e] = Pending \/ rows'[e] = rows[e]
    BY <1>0, <1>2 DEF persist_local
  <2> QED
    BY <2>1, <2>2, <2>3, NewRows
<1>3. ASSUME NEW i \in Instances, reconcile_delivery_endpoints(i)
      PROVE  SameDelivered
  <2>1. \A e \in Events : rows'[e] = rows[e] \/ rows'[e] = Refill(rows[e])
    BY <1>0, <1>3 DEF reconcile_delivery_endpoints
  <2>2. \A e \in Events : rows[e].state = "delivered" => Refill(rows[e]) = rows[e]
    BY DEF Refill
  <2> QED
    BY <1>0, <2>1, <2>2, RefillRow, NewRows
<1>4. ASSUME NEW w \in Workers, expire_exhausted_deliveries(w)
      PROVE  SameDelivered
  BY <1>0, <1>4, ReleaseRow DEF expire_exhausted_deliveries, Errors
<1>5. ASSUME NEW w \in Workers, claim_due_delivery(w)
      PROVE  SameDelivered
  BY <1>0, <1>5 DEF claim_due_delivery, Candidates, RowType
<1>6. CASE TimePasses
  BY <1>0, <1>6 DEF TimePasses, BackoffEnds, LeaseEnds, LeaseOverrun, RowType
<1>7. CASE PublishStep
  BY <1>1, <1>2, <1>7 DEF PublishStep, enqueue_delivery_targets, PublishAbort
<1>8. CASE runtime_router
  BY <1>1, <1>3, <1>8 DEF runtime_router, install_peer, ReconcileBegin, BootCrash
<1>9. ASSUME NEW w \in Workers, (run_delivery_batch(w) \/ WorkerFault(w)) /\ UNCHANGED inboxVars
      PROVE  SameDelivered
  BY <1>1, <1>4, <1>5, <1>9
  DEF run_delivery_batch, EndBatch, load_delivery_context, post_event_fails, WorkerFault
<1>10. ASSUME NEW w \in Workers, receive_event(w) \/ ForeignAnswer(w)
       PROVE  SameDelivered
  BY <1>1, <1>10 DEF receive_event, ForeignAnswer, Answer
<1>11. CASE (\E e \in Events : receive_late(e)) \/ InstallAtReceiver \/ UNCHANGED vars
  BY <1>1, <1>11 DEF receive_late, InstallAtReceiver, vars, deliveryVars
<1> QED
  BY <1>6, <1>7, <1>8, <1>9, <1>10, <1>11 DEF Next

\* What finalize_decision does to the rows.
LEMMA FinalizeStep ==
  ASSUME TypeInv, NEW w \in Workers, finalize_decision(w)
  PROVE  \E e \in Events :
            /\ worker[w].ev = e
            /\ \A f \in Events \ {e} : rows'[f] = rows[f]
            /\ \/ rows'[e] = rows[e]
               \/ /\ Holds(w, e)
                  /\ rows'[e] = Release(rows[e], worker[w].to, worker[w].error)
                  /\ rows'[e].state = worker[w].to
<1>0. /\ rows \in [Events -> RowType]
      /\ worker \in [Workers -> {Idle} \cup ClaimType \cup DecisionType]
  BY DEF TypeInv, TypeOK, DeliveryTypeOK
<1>1. worker[w] \in DecisionType
  BY <1>0 DEF finalize_decision, Idle, ClaimType
<1>2. PICK e \in Events : e = worker[w].ev
  BY <1>1 DEF DecisionType
<1>3. rows' = [rows EXCEPT ![e] = IF Holds(w, e)
                 THEN Release(rows[e], worker[w].to, worker[w].error) ELSE rows[e]]
  BY <1>2 DEF finalize_decision
<1>4. Release(rows[e], worker[w].to, worker[w].error).state = worker[w].to
  BY <1>0, <1>1, ReleaseRow DEF DecisionType
<1> QED
  BY <1>0, <1>2, <1>3, <1>4

\* A delivered row never changes again.
THEOREM FederationDeliveredIsFinal == Spec => DeliveredIsFinal
<1>1. TypeInv /\ [Next]_vars =>
        [\A e \in Events : rows[e].state = "delivered" => rows'[e] = rows[e]]_vars
  <2> SUFFICES ASSUME TypeInv, [Next]_vars
               PROVE  \A e \in Events : rows[e].state = "delivered" => rows'[e] = rows[e]
    OBVIOUS
  <2>1. CASE \E w \in Workers : finalize_decision(w) /\ UNCHANGED inboxVars
    BY <2>1, FinalizeStep DEF Holds
  <2> QED
    BY <2>1, DeliveredStep DEF SameDelivered
<1> QED
  BY <1>1, InitTypeInv, NextTypeInv, PTL DEF Spec, DeliveredIsFinal

-----------------------------------------------------------------------------
(* Refinement of FederatedHistory *)

LEMMA SameConfirmed ==
  ASSUME SameDelivered
  PROVE  Confirmed' = Confirmed
<1>1. \A o \in Objects, v \in 1..MaxVersion :
        (rows'[<<o, v>>].state = "delivered") <=> (rows[<<o, v>>].state = "delivered")
  <2> TAKE o \in Objects, v \in 1..MaxVersion
  <2>1. <<o, v>> \in Events
    BY DEF Events
  <2> QED
    BY <2>1 DEF SameDelivered
<1>2. \A o \in Objects : {v \in 1..MaxVersion : rows'[<<o, v>>].state = "delivered"}
                          = {v \in 1..MaxVersion : rows[<<o, v>>].state = "delivered"}
  BY <1>1, Zenon
<1> QED
  BY <1>2, Zenon DEF Confirmed

\* What a step does to the three variables of FederatedHistory.
LEMMA HistoryStep ==
  ASSUME TypeInv, Arrival, [Next]_vars
  PROVE  History!Next \/ UNCHANGED <<version, replica, Confirmed>>
<1>0. /\ rows \in [Events -> RowType] /\ version \in [Objects -> 0..MaxVersion]
      /\ replica \in [Objects -> 0..MaxVersion] /\ MaxVersion \in Nat
      /\ \A o \in Objects : open[o] # "none" => version[o] < MaxVersion
  BY EventsAssumption DEF TypeInv, TypeOK, DeliveryTypeOK, InboxTypeOK, EventsArePublished
<1>1. ASSUME NEW w \in Workers, finalize_decision(w), UNCHANGED inboxVars
      PROVE  History!Next \/ UNCHANGED <<version, replica, Confirmed>>
  <2>1. UNCHANGED <<version, replica>>
    BY <1>1 DEF finalize_decision, publishVars, inboxVars
  <2>2. PICK e \in Events :
            /\ worker[w].ev = e
            /\ \A f \in Events \ {e} : rows'[f] = rows[f]
            /\ \/ rows'[e] = rows[e]
               \/ Holds(w, e) /\ rows'[e].state = worker[w].to
    BY <1>1, FinalizeStep
  <2>3. CASE rows'[e].state # "delivered"
    <3>1. SameDelivered
      BY <2>2, <2>3 DEF SameDelivered, Holds
    <3> QED
      BY <2>1, <3>1, SameConfirmed
  <2>4. CASE rows[e].state = "delivered"
    <3>1. SameDelivered
      BY <2>2, <2>4 DEF SameDelivered, Holds
    <3> QED
      BY <2>1, <3>1, SameConfirmed
  <2>5. CASE rows'[e].state = "delivered" /\ rows[e].state # "delivered"
    <3>1. PICK o \in Objects, v \in 1..MaxVersion : e = <<o, v>>
      BY DEF Events
    <3>2. e \in inbox
      BY <1>1, <2>2, <2>5 DEF finalize_decision, Arrival, DecisionsAreSound
    <3>3. v \in 1..replica[o]
      BY <1>0, <3>1, <3>2 DEF Arrival, ReplicaIsPrefix
    <3>4. \A p \in Objects, u \in 1..MaxVersion :
            (rows'[<<p, u>>].state = "delivered")
              <=> (rows[<<p, u>>].state = "delivered" \/ (p = o /\ u = v))
      <4> TAKE p \in Objects, u \in 1..MaxVersion
      <4>1. <<p, u>> \in Events /\ (<<p, u>> = e <=> p = o /\ u = v)
        BY <3>1 DEF Events
      <4>2. CASE <<p, u>> = e
        BY <2>5, <4>1, <4>2
      <4>3. CASE <<p, u>> # e
        BY <2>2, <4>1, <4>3
      <4> QED
        BY <4>2, <4>3
    <3>5. Confirmed' = [Confirmed EXCEPT ![o] = @ \cup {v}]
      <4>1. \A p \in Objects : p # o => Confirmed'[p] = Confirmed[p]
        BY <3>4 DEF Confirmed
      <4>2. Confirmed'[o] = Confirmed[o] \cup {v}
        BY <3>4 DEF Confirmed
      <4> QED
        BY <4>1, <4>2 DEF Confirmed
    <3>6. History!Confirm(o)
      BY <2>1, <3>3, <3>5 DEF History!Confirm
    <3> QED
      BY <3>6 DEF History!Next
  <2> QED
    BY <2>3, <2>4, <2>5
<1>2. ASSUME NEW o \in Objects, persist_local(o), SameDelivered, UNCHANGED inboxVars
      PROVE  History!Next
  <2>1. version[o] < MaxVersion /\ version' = [version EXCEPT ![o] = @ + 1] /\ UNCHANGED replica
    BY <1>0, <1>2 DEF persist_local, inboxVars
  <2>2. History!Publish(o)
    BY <1>2, <2>1, SameConfirmed DEF History!Publish
  <2> QED
    BY <2>2 DEF History!Next
<1>3. ASSUME NEW e \in Outbox, NEW outcome \in Outcomes, accept_verified(e, outcome),
             UNCHANGED version, SameDelivered
      PROVE  History!Next \/ UNCHANGED <<version, replica, Confirmed>>
  <2>1. PICK o \in Objects, v \in 1..MaxVersion : e = <<o, v>> /\ v <= version[o]
    BY DEF Outbox, Events
  <2>2. CASE UNCHANGED replica
    BY <1>3, <2>2, SameConfirmed
  <2>3. CASE v = replica[o] + 1 /\ replica' = [replica EXCEPT ![o] = v]
    <3>1. History!Replicate(o)
      BY <1>0, <1>3, <2>1, <2>3, SameConfirmed DEF History!Replicate
    <3> QED
      BY <3>1 DEF History!Next
  <2> QED
    BY <1>3, <2>1, <2>2, <2>3 DEF accept_verified, transition_allowed
<1>4. CASE UNCHANGED <<version, replica>> /\ SameDelivered
  BY <1>4, SameConfirmed
<1> SUFFICES ASSUME SameDelivered, Next \/ UNCHANGED vars
             PROVE  History!Next \/ UNCHANGED <<version, replica, Confirmed>>
  BY <1>1, DeliveredStep
<1>5. CASE (PublishStep \/ runtime_router \/ TimePasses) /\ UNCHANGED inboxVars
  BY <1>2, <1>4, <1>5
  DEF PublishStep, runtime_router, TimePasses, inboxVars, publishVars, enqueue_delivery_targets,
      PublishAbort, install_peer, ReconcileBegin, reconcile_delivery_endpoints, BootCrash,
      BackoffEnds, LeaseEnds, LeaseOverrun
<1>6. ASSUME NEW w \in Workers,
             (run_delivery_batch(w) \/ WorkerFault(w)) /\ UNCHANGED inboxVars
      PROVE  History!Next \/ UNCHANGED <<version, replica, Confirmed>>
  BY <1>4, <1>6
  DEF run_delivery_batch, WorkerFault, expire_exhausted_deliveries, claim_due_delivery, EndBatch,
      load_delivery_context, post_event_fails, finalize_decision, publishVars, inboxVars
<1>7. ASSUME NEW w \in Workers, receive_event(w)
      PROVE  History!Next \/ UNCHANGED <<version, replica, Confirmed>>
  <2>1. PICK outcome \in Outcomes, e \in UnderWay(w) :
          accept_verified(e, outcome) /\ Answer(w, outcome)
    BY <1>7 DEF receive_event
  <2>2. e \in Outbox /\ UNCHANGED version
    BY <2>1 DEF UnderWay, TypeInv, EventsArePublished, Answer, publishVars
  <2> QED
    BY <1>3, <2>1, <2>2
<1>8. ASSUME NEW w \in Workers, ForeignAnswer(w)
      PROVE  History!Next \/ UNCHANGED <<version, replica, Confirmed>>
  BY <1>4, <1>8 DEF ForeignAnswer, Answer, publishVars, inboxVars
<1>9. ASSUME NEW e \in Events, receive_late(e)
      PROVE  History!Next \/ UNCHANGED <<version, replica, Confirmed>>
  <2>1. e \in Outbox /\ UNCHANGED version
    BY <1>9 DEF receive_late, deliveryVars, publishVars, TypeInv, EventsArePublished
  <2> QED
    BY <1>3, <1>9, <2>1 DEF receive_late
<1>10. CASE InstallAtReceiver \/ UNCHANGED vars
  BY <1>4, <1>10 DEF InstallAtReceiver, install_peer_in, vars, deliveryVars, inboxVars, publishVars
<1> QED
  BY <1>5, <1>6, <1>7, <1>8, <1>9, <1>10 DEF Next

\* The two cells implement the abstract history: every behaviour of the delivery
\* workers and the inbox replicates each object one version at a time, and a
\* confirmation is never untrue or withdrawn.
THEOREM FederationImplementsHistory == Spec => ImplementsHistory
<1>1. Init => History!Init
  <2> SUFFICES ASSUME Init PROVE History!Init
    OBVIOUS
  <2>1. \A o \in Objects, v \in 1..MaxVersion : rows[<<o, v>>].state # "delivered"
    BY DEF Init, DeliveryInit, Absent, Events
  <2>2. Confirmed = [o \in Objects |-> {}]
    BY <2>1 DEF Confirmed
  <2> QED
    BY <2>2 DEF Init, DeliveryInit, InboxInit, History!Init
<1>2. Init => TypeInv /\ Arrival
  BY InitTypeInv, InitArrival
<1>3. TypeInv /\ Arrival /\ [Next]_vars => TypeInv' /\ Arrival'
  BY NextTypeInv, NextArrival
<1>4. TypeInv /\ Arrival /\ [Next]_vars => [History!Next]_<<version, replica, Confirmed>>
  BY HistoryStep
<1> QED
  BY <1>1, <1>2, <1>3, <1>4, PTL DEF Spec, ImplementsHistory, History!Spec

-----------------------------------------------------------------------------
(* Attempts and leases *)

LEMMA InitTries == Init => Tries
  BY DeliveryAssumption
  DEF Init, DeliveryInit, Tries, InFlightIsOwned, ClaimsAreCurrent, ExcessIsCharged, Works, Holds,
      Absent, Idle

\* The rows that a transaction of publishing or of reconciling writes are new.
LEMMA PendingTries ==
  ASSUME TypeInv, Tries, UNCHANGED <<worker, faults>>,
         \A e \in Events : rows'[e] = rows[e] \/ rows'[e] = Pending
  PROVE  Tries'
<1>1. Pending.attempts = 0 /\ Pending.state = "pending" /\ Pending.owner = NoOne
  BY DEF Pending, Absent
<1>2. MaxAttempts \in Nat \ {0} /\ faults \in Nat /\ NoOne \notin Workers
  BY DeliveryAssumption DEF TypeInv, TypeOK, DeliveryTypeOK
<1>3. ClaimsAreCurrent'
  BY <1>1 DEF Tries, ClaimsAreCurrent, Works, Holds
<1>4. ASSUME NEW e \in Events
      PROVE  /\ rows'[e].attempts <= MaxAttempts + faults
             /\ rows'[e].state \in {"pending", "retry"} => rows'[e].attempts < MaxAttempts
             /\ rows'[e].state = "in_flight" => rows'[e] = rows[e]
  BY <1>1, <1>2 DEF Tries, ExcessIsCharged
<1>5. ExcessIsCharged'
  BY <1>4 DEF Tries, ExcessIsCharged, Works
<1>6. InFlightIsOwned'
  BY <1>1 DEF Tries, InFlightIsOwned
<1> QED
  BY <1>3, <1>5, <1>6 DEF Tries

\* A worker that goes on with the event it is at work on.
LEMMA SameWorkTries ==
  ASSUME TypeInv, Tries, NEW w \in Workers, UNCHANGED <<rows, faults>>,
         \A v \in Workers \ {w} : worker'[v] = worker[v],
         \/ worker'[w] = worker[w]
         \/ worker[w] # Idle /\ worker'[w] # Idle /\ worker'[w].ev = worker[w].ev
            /\ worker'[w].attempt = worker[w].attempt
         \/ worker'[w] = Idle /\ \A e \in Events : ~(Works(w, e) /\ Holds(w, e))
  PROVE  Tries'
<1>1. ClaimsAreCurrent'
  BY DEF Tries, ClaimsAreCurrent, Works, Holds
<1>2. \A e \in Events : rows[e].state = "in_flight" =>
         (Works(rows[e].owner, e)' <=> Works(rows[e].owner, e))
  <2> SUFFICES ASSUME NEW e \in Events, rows[e].state = "in_flight"
               PROVE  Works(rows[e].owner, e)' <=> Works(rows[e].owner, e)
    OBVIOUS
  <2>1. rows[e].owner \in Workers
    BY DEF TypeInv, TypeOK, DeliveryTypeOK, RowType, Tries, InFlightIsOwned
  <2>2. PICK v : v = rows[e].owner
    OBVIOUS
  <2>3. CASE v = w
    BY <2>2, <2>3 DEF Works, Holds
  <2>4. CASE v \in Workers \ {w}
    BY <2>2, <2>4 DEF Works
  <2> QED
    BY <2>1, <2>2, <2>3, <2>4
<1>3. ExcessIsCharged'
  BY <1>2 DEF Tries, ExcessIsCharged
<1> QED
  BY <1>1, <1>3 DEF Tries, InFlightIsOwned

LEMMA ClaimTries ==
  ASSUME TypeInv, Tries, NEW w \in Workers, claim_due_delivery(w)
  PROVE  Tries'
<1>0. /\ rows \in [Events -> RowType] /\ MaxAttempts \in Nat /\ faults \in Nat
      /\ worker \in [Workers -> {Idle} \cup ClaimType \cup DecisionType]
      /\ NoOne \notin Workers
  BY DeliveryAssumption DEF TypeInv, TypeOK, DeliveryTypeOK
<1>1. PICK e \in Candidates :
          /\ rows' = [rows EXCEPT ![e].state = "in_flight", ![e].owner = w,
                                  ![e].attempts = @ + 1, ![e].ready = FALSE]
          /\ worker' = [worker EXCEPT ![w] = [pc |-> "claimed", ev |-> e,
                                              attempt |-> rows[e].attempts + 1]]
  BY DEF claim_due_delivery
<1>2. /\ e \in Events /\ rows[e].ready /\ rows[e].attempts \in Nat
      /\ rows[e].state \in {"pending", "retry", "in_flight"}
      /\ worker[w] = Idle /\ faults' = faults
  BY <1>0 DEF Candidates, RowType, claim_due_delivery
<1>3. /\ rows'[e].state = "in_flight" /\ rows'[e].owner = w
      /\ rows'[e].attempts = rows[e].attempts + 1 /\ rows'[e].ready = FALSE
      /\ \A f \in Events \ {e} : rows'[f] = rows[f]
  BY <1>0, <1>1, <1>2 DEF RowType
<1>4. /\ worker'[w] # Idle /\ worker'[w].ev = e /\ worker'[w].attempt = rows[e].attempts + 1
      /\ \A v \in Workers \ {w} : worker'[v] = worker[v]
  BY <1>0, <1>1 DEF Idle
<1>5. InFlightIsOwned'
  BY <1>0, <1>3 DEF Tries, InFlightIsOwned
<1>6. ClaimsAreCurrent'
  BY <1>2, <1>3, <1>4 DEF Tries, ClaimsAreCurrent, Works, Holds
<1>7. rows[e].attempts + 1 <= MaxAttempts + faults
  BY <1>0, <1>2 DEF Tries, ExcessIsCharged
<1>8. ASSUME NEW f \in Events \ {e}, rows[f].state = "in_flight"
      PROVE  Works(rows[f].owner, f)' <=> Works(rows[f].owner, f)
  <2>1. PICK v \in Workers : v = rows[f].owner /\ v = rows'[f].owner
    BY <1>0, <1>3, <1>8 DEF Tries, InFlightIsOwned, RowType
  <2> QED
    BY <1>2, <1>4, <2>1 DEF Works
<1>9. ExcessIsCharged'
  <2> SUFFICES ASSUME NEW f \in Events
               PROVE  /\ rows'[f].attempts <= MaxAttempts + faults
                      /\ rows'[f].state \in {"pending", "retry"} => rows'[f].attempts < MaxAttempts
                      /\ rows'[f].state = "in_flight"
                         /\ (rows'[f].ready \/ ~Works(rows[f].owner, f)')
                         => rows'[f].attempts < MaxAttempts + faults
    BY <1>2 DEF ExcessIsCharged
  <2>1. CASE f = e
    BY <1>3, <1>4, <1>7, <2>1 DEF Works
  <2>2. CASE f # e
    BY <1>3, <1>8, <2>2 DEF Tries, ExcessIsCharged
  <2> QED
    BY <2>1, <2>2
<1> QED
  BY <1>5, <1>6, <1>9 DEF Tries

\* A worker that stops work on an event it no longer holds, with the row of the
\* event released if it did hold it.
LEMMA FinalizeTries ==
  ASSUME TypeInv, Arrival, Tries, NEW w \in Workers, finalize_decision(w)
  PROVE  Tries'
<1>0. /\ rows \in [Events -> RowType] /\ MaxAttempts \in Nat /\ faults \in Nat
      /\ worker \in [Workers -> {Idle} \cup ClaimType \cup DecisionType]
      /\ NoOne \notin Workers
  BY DeliveryAssumption DEF TypeInv, TypeOK, DeliveryTypeOK
<1>1. worker[w] \in DecisionType /\ worker[w] # Idle /\ worker[w].pc = "decided"
  BY <1>0 DEF finalize_decision, Idle, ClaimType
<1>2. PICK e \in Events :
            /\ worker[w].ev = e
            /\ \A f \in Events \ {e} : rows'[f] = rows[f]
            /\ \/ ~Holds(w, e) /\ rows'[e] = rows[e]
               \/ Holds(w, e) /\ rows'[e] = Release(rows[e], worker[w].to, worker[w].error)
  BY <1>0, <1>1 DEF finalize_decision, DecisionType
<1>3. /\ worker'[w] = Idle /\ faults' = faults
      /\ \A v \in Workers \ {w} : worker'[v] = worker[v]
  BY <1>0 DEF finalize_decision
<1>4. CASE ~Holds(w, e)
  <2>1. \A f \in Events : rows'[f] = rows[f] /\ ~(Works(w, f) /\ Holds(w, f))
    BY <1>2, <1>4 DEF Works
  <2>2. rows' = rows
    <3>1. rows' = [rows EXCEPT ![e] = rows[e]]
      BY <1>2, <1>4 DEF finalize_decision
    <3> QED
      BY <1>0, <3>1
  <2>3. faults' = faults /\ \A f \in Events : ~(Works(w, f) /\ Holds(w, f))
    BY <1>3, <2>1
  <2> QED
    BY <1>3, <2>2, <2>3, SameWorkTries
<1>5. CASE Holds(w, e)
  <2>1. /\ rows'[e].state = worker[w].to /\ rows'[e].owner = NoOne
        /\ rows'[e].attempts = rows[e].attempts /\ worker[w].to # "in_flight"
    <3>1. rows[e] \in RowType /\ worker[w].to \in {"delivered", "retry", "dead"}
          /\ worker[w].error \in Errors
      BY <1>0, <1>1 DEF DecisionType
    <3> QED
      BY <1>2, <1>5, <3>1, ReleaseRow
  <2>2. worker[w].attempt = rows[e].attempts
    BY <1>1, <1>2, <1>5 DEF Tries, ClaimsAreCurrent, Works
  <2>3. worker[w].to = "retry" => rows[e].attempts < MaxAttempts
    BY <1>1, <2>2 DEF Arrival, DecisionsAreSound
  <2>4. InFlightIsOwned'
    BY <1>2, <2>1 DEF Tries, InFlightIsOwned
  <2>5. ClaimsAreCurrent'
    BY <1>2, <1>3, <2>1 DEF Tries, ClaimsAreCurrent, Works, Holds
  <2>6. ASSUME NEW f \in Events \ {e}, rows[f].state = "in_flight"
        PROVE  Works(rows[f].owner, f)' <=> Works(rows[f].owner, f)
    <3>1. PICK v \in Workers : v = rows[f].owner /\ v = rows'[f].owner
      BY <1>0, <1>2, <2>6 DEF Tries, InFlightIsOwned, RowType
    <3> QED
      BY <1>2, <1>3, <3>1 DEF Works
  <2>7. ExcessIsCharged'
    <3> SUFFICES ASSUME NEW f \in Events
                 PROVE  /\ rows'[f].attempts <= MaxAttempts + faults
                        /\ rows'[f].state \in {"pending", "retry"} => rows'[f].attempts < MaxAttempts
                        /\ rows'[f].state = "in_flight"
                           /\ (rows'[f].ready \/ ~Works(rows[f].owner, f)')
                           => rows'[f].attempts < MaxAttempts + faults
      BY <1>3 DEF ExcessIsCharged
    <3>1. CASE f = e
      BY <1>1, <2>1, <2>3, <3>1 DEF Tries, ExcessIsCharged, DecisionType
    <3>2. CASE f # e
      BY <1>2, <2>6, <3>2 DEF Tries, ExcessIsCharged
    <3> QED
      BY <3>1, <3>2
  <2> QED
    BY <2>4, <2>5, <2>7 DEF Tries
<1> QED
  BY <1>4, <1>5

LEMMA ExpireTries ==
  ASSUME TypeInv, Tries, NEW w \in Workers, expire_exhausted_deliveries(w)
  PROVE  Tries'
<1>0. /\ rows \in [Events -> RowType] /\ MaxAttempts \in Nat /\ faults \in Nat
      /\ UNCHANGED <<worker, faults>>
  BY DeliveryAssumption DEF TypeInv, TypeOK, DeliveryTypeOK, expire_exhausted_deliveries
<1>1. \A e \in Events :
         \/ rows'[e] = rows[e]
         \/ /\ rows'[e].state = "dead" /\ rows'[e].owner = NoOne
            /\ rows'[e].attempts = rows[e].attempts
  BY <1>0, ReleaseRow DEF expire_exhausted_deliveries, Errors
<1>2. InFlightIsOwned'
  BY <1>1 DEF Tries, InFlightIsOwned
<1>3. ClaimsAreCurrent'
  BY <1>0, <1>1 DEF Tries, ClaimsAreCurrent, Works, Holds
<1>4. ExcessIsCharged'
  BY <1>0, <1>1 DEF Tries, ExcessIsCharged, Works
<1> QED
  BY <1>2, <1>3, <1>4 DEF Tries

LEMMA FaultTries ==
  ASSUME TypeInv, Tries, NEW w \in Workers, WorkerFault(w)
  PROVE  Tries'
<1>0. /\ rows \in [Events -> RowType] /\ MaxAttempts \in Nat /\ faults \in Nat
      /\ worker \in [Workers -> {Idle} \cup ClaimType \cup DecisionType]
      /\ rows' = rows /\ faults' = faults + 1
  BY DeliveryAssumption DEF TypeInv, TypeOK, DeliveryTypeOK, WorkerFault, Fault
<1>1. worker'[w] = Idle /\ \A v \in Workers \ {w} : worker'[v] = worker[v]
  BY <1>0 DEF WorkerFault
<1>2. ClaimsAreCurrent'
  BY <1>0, <1>1 DEF Tries, ClaimsAreCurrent, Works, Holds
<1>3. ExcessIsCharged'
  BY <1>0 DEF Tries, ExcessIsCharged, RowType
<1> QED
  BY <1>0, <1>2, <1>3 DEF Tries, InFlightIsOwned

LEMMA TimeTries ==
  ASSUME TypeInv, Tries, TimePasses
  PROVE  Tries'
<1>0. /\ rows \in [Events -> RowType] /\ MaxAttempts \in Nat /\ faults \in Nat
  BY DeliveryAssumption DEF TypeInv, TypeOK, DeliveryTypeOK
<1>1. PICK e \in Events : BackoffEnds(e) \/ LeaseEnds(e) \/ LeaseOverrun(e)
  BY DEF TimePasses
<1>2. rows' = [rows EXCEPT ![e].ready = TRUE] /\ worker' = worker
      /\ (faults' = faults \/ faults' = faults + 1)
  BY <1>1 DEF BackoffEnds, LeaseEnds, LeaseOverrun, workerVars, Fault
<1>3. \A f \in Events : /\ rows'[f].state = rows[f].state /\ rows'[f].owner = rows[f].owner
                        /\ rows'[f].attempts = rows[f].attempts
                        /\ f # e => rows'[f].ready = rows[f].ready
  BY <1>0, <1>2 DEF RowType
<1>4. InFlightIsOwned' /\ ClaimsAreCurrent'
  BY <1>2, <1>3 DEF Tries, InFlightIsOwned, ClaimsAreCurrent, Works, Holds
<1>5. rows[e].state = "in_flight" => rows[e].attempts < MaxAttempts + faults'
  BY <1>0, <1>1 DEF BackoffEnds, LeaseEnds, LeaseOverrun, Fault, Tries, ExcessIsCharged, RowType
<1>6. ASSUME NEW f \in Events
      PROVE  /\ rows'[f].attempts <= MaxAttempts + faults'
             /\ rows'[f].state \in {"pending", "retry"} => rows'[f].attempts < MaxAttempts
             /\ rows'[f].state = "in_flight" /\ (rows'[f].ready \/ ~Works(rows[f].owner, f)')
                => rows'[f].attempts < MaxAttempts + faults'
  <2>1. CASE f = e
    BY <1>0, <1>2, <1>3, <1>5, <2>1 DEF Tries, ExcessIsCharged, RowType
  <2>2. CASE f # e
    BY <1>0, <1>2, <1>3, <2>2 DEF Tries, ExcessIsCharged, RowType, Works
  <2> QED
    BY <2>1, <2>2
<1>7. ExcessIsCharged'
  BY <1>6 DEF ExcessIsCharged
<1> QED
  BY <1>4, <1>7 DEF Tries

LEMMA NextTries == TypeInv /\ Arrival /\ Tries /\ [Next]_vars => Tries'
<1> SUFFICES ASSUME TypeInv, Arrival, Tries, [Next]_vars PROVE Tries'
  OBVIOUS
<1>0. /\ rows \in [Events -> RowType] /\ version \in [Objects -> 0..MaxVersion]
      /\ worker \in [Workers -> {Idle} \cup ClaimType \cup DecisionType]
  BY DEF TypeInv, TypeOK, DeliveryTypeOK
<1>1. ASSUME UNCHANGED <<rows, worker>>, faults' = faults \/ Fault
      PROVE  Tries'
  <2>1. faults \in Nat /\ faults' \in Nat /\ faults <= faults' /\ MaxAttempts \in Nat
    BY <1>1, DeliveryAssumption DEF Fault, TypeInv, TypeOK, DeliveryTypeOK
  <2>2. ExcessIsCharged'
    BY <1>0, <1>1, <2>1 DEF Tries, ExcessIsCharged, Works, RowType
  <2> QED
    BY <1>1, <2>2 DEF Tries, InFlightIsOwned, ClaimsAreCurrent, Works, Holds
<1>2. CASE PublishStep
  <2>1. ASSUME NEW o \in Objects, persist_local(o)
        PROVE  Tries'
    <3>1. \A e \in Events : rows'[e] = rows[e] \/ rows'[e] = Pending
      BY <1>0, <2>1 DEF persist_local
    <3> QED
      BY <2>1, <3>1, PendingTries DEF persist_local, workerVars
  <2> QED
    BY <1>1, <1>2, <2>1 DEF PublishStep, enqueue_delivery_targets, PublishAbort, workerVars
<1>3. CASE runtime_router
  <2>1. ASSUME NEW i \in Instances, reconcile_delivery_endpoints(i)
        PROVE  Tries'
    <3>1. \A e \in Events : rows'[e] = rows[e] \/ rows'[e] = Pending
      BY <1>0, <2>1, RefillRow DEF reconcile_delivery_endpoints
    <3> QED
      BY <2>1, <3>1, PendingTries DEF reconcile_delivery_endpoints, workerVars
  <2> QED
    BY <1>1, <1>3, <2>1 DEF runtime_router, install_peer, ReconcileBegin, BootCrash, workerVars
<1>4. ASSUME NEW w \in Workers, NEW to, NEW error, worker[w] # Idle, Decide(w, to, error),
             UNCHANGED <<rows, faults>>
      PROVE  Tries'
  <2>1. /\ worker'[w] # Idle /\ worker'[w].ev = worker[w].ev
        /\ worker'[w].attempt = worker[w].attempt
        /\ \A v \in Workers \ {w} : worker'[v] = worker[v]
    BY <1>0, <1>4 DEF Decide, Idle
  <2> QED
    BY <1>4, <2>1, SameWorkTries
<1>5. ASSUME NEW w \in Workers, run_delivery_batch(w) \/ WorkerFault(w)
      PROVE  Tries'
  <2>1. CASE load_delivery_context(w)
    <3>1. CASE ~Holds(w, worker[w].ev) /\ worker' = [worker EXCEPT ![w] = Idle]
      BY <1>0, <2>1, <3>1, SameWorkTries DEF load_delivery_context, Works
    <3>2. CASE worker' = [worker EXCEPT ![w].pc = "posting"]
      <4>1. /\ worker[w] \in ClaimType /\ worker'[w].pc = "posting"
            /\ worker'[w].ev = worker[w].ev /\ worker'[w].attempt = worker[w].attempt
            /\ \A v \in Workers \ {w} : worker'[v] = worker[v]
        BY <1>0, <2>1, <3>2 DEF load_delivery_context, ClaimType, DecisionType, Idle
      <4>2. worker'[w] # Idle
        BY <4>1 DEF Idle
      <4> QED
        BY <2>1, <4>1, <4>2, SameWorkTries DEF load_delivery_context
    <3> QED
      BY <1>4, <2>1, <3>1, <3>2 DEF load_delivery_context
  <2>2. CASE post_event_fails(w)
    BY <1>4, <2>2 DEF post_event_fails, Retry
  <2>3. CASE EndBatch(w)
    BY <1>1, <2>3 DEF EndBatch
  <2> QED
    BY <1>5, <2>1, <2>2, <2>3, ClaimTries, ExpireTries, FinalizeTries, FaultTries
    DEF run_delivery_batch
<1>6. ASSUME NEW w \in Workers, receive_event(w) \/ ForeignAnswer(w)
      PROVE  Tries'
  BY <1>4, <1>6 DEF receive_event, ForeignAnswer, Answer, classify_response, Retry
<1>7. CASE (\E e \in Events : receive_late(e)) \/ InstallAtReceiver \/ UNCHANGED vars
  BY <1>1, <1>7 DEF receive_late, InstallAtReceiver, vars, deliveryVars, workerVars
<1> QED
  BY <1>2, <1>3, <1>5, <1>6, <1>7, TimeTries DEF Next

\* Each attempt beyond MaxAttempts is paid for by a crash, a failed statement or
\* an overrun lease of its own.
THEOREM FederationTriesAreBounded == Spec => []TriesAreBounded
<1>1. Init => TypeInv /\ Arrival /\ Tries
  BY InitTypeInv, InitArrival, InitTries
<1>2. TypeInv /\ Arrival /\ Tries /\ [Next]_vars => TypeInv' /\ Arrival' /\ Tries'
  BY NextTypeInv, NextArrival, NextTries
<1>3. Tries => TriesAreBounded
  BY DEF Tries, ExcessIsCharged, TriesAreBounded
<1> QED
  BY <1>1, <1>2, <1>3, PTL DEF Spec

\* What a step may do to a row whose lease runs.
LEMMA LeaseStep ==
  ASSUME TypeInv, [Next]_vars, NEW e \in Events,
         rows[e].state = "in_flight", ~rows[e].ready, rows'[e] # rows[e]
  PROVE  \/ rows'[e] = [rows[e] EXCEPT !.ready = TRUE]
         \/ Works(rows[e].owner, e) /\ worker'[rows[e].owner] = Idle
<1> DEFINE Allowed == \/ rows'[e] = [rows[e] EXCEPT !.ready = TRUE]
                      \/ Works(rows[e].owner, e) /\ worker'[rows[e].owner] = Idle
<1>0. /\ rows \in [Events -> RowType] /\ version \in [Objects -> 0..MaxVersion]
      /\ worker \in [Workers -> {Idle} \cup ClaimType \cup DecisionType]
      /\ \A f \in Events : rows[f].state # "absent" => f \in Outbox
      /\ MaxVersion \in Nat
  BY EventsAssumption DEF TypeInv, TypeOK, DeliveryTypeOK, EventsArePublished
<1>1. ASSUME NEW o \in Objects, persist_local(o)
      PROVE  FALSE
  <2>1. e # <<o, version[o] + 1>>
    BY <1>0 DEF Outbox
  <2> QED
    BY <1>0, <1>1, <2>1 DEF persist_local
<1>2. ASSUME NEW i \in Instances, reconcile_delivery_endpoints(i)
      PROVE  FALSE
  BY <1>0, <1>2 DEF reconcile_delivery_endpoints, Refill
<1>3. ASSUME NEW w \in Workers, finalize_decision(w)
      PROVE  Allowed
  <2>1. worker[w].ev = e /\ Holds(w, e)
    BY <1>3, FinalizeStep
  <2> QED
    BY <1>0, <1>3, <2>1 DEF finalize_decision, Holds, Works
<1>4. ASSUME NEW w \in Workers, claim_due_delivery(w) \/ expire_exhausted_deliveries(w)
      PROVE  FALSE
  BY <1>0, <1>4 DEF claim_due_delivery, Candidates, expire_exhausted_deliveries
<1>5. CASE TimePasses
  BY <1>0, <1>5 DEF TimePasses, BackoffEnds, LeaseEnds, LeaseOverrun, RowType
<1>6. CASE PublishStep
  BY <1>1, <1>6 DEF PublishStep, enqueue_delivery_targets, PublishAbort
<1>7. CASE runtime_router
  BY <1>2, <1>7 DEF runtime_router, install_peer, ReconcileBegin, BootCrash
<1>8. ASSUME NEW w \in Workers, run_delivery_batch(w) \/ WorkerFault(w)
      PROVE  Allowed
  BY <1>3, <1>4, <1>8
  DEF run_delivery_batch, EndBatch, load_delivery_context, post_event_fails, WorkerFault
<1>9. ASSUME NEW w \in Workers, receive_event(w) \/ ForeignAnswer(w)
      PROVE  FALSE
  BY <1>9 DEF receive_event, ForeignAnswer, Answer
<1>10. CASE (\E f \in Events : receive_late(f)) \/ InstallAtReceiver \/ UNCHANGED vars
  BY <1>10 DEF receive_late, InstallAtReceiver, vars, deliveryVars
<1> QED
  BY <1>5, <1>6, <1>7, <1>8, <1>9, <1>10 DEF Next

\* While a lease runs, only the worker that owns it writes the row: the fencing
\* by state and lease_owner suffices although leases carry no token of their own.
THEOREM FederationLeaseIsExclusive == Spec => LeaseIsExclusive
<1>1. TypeInv /\ [Next]_vars =>
        [\A e \in Events :
          /\ rows[e].state = "in_flight" /\ ~rows[e].ready
          /\ rows'[e] # rows[e]
          => \/ rows'[e] = [rows[e] EXCEPT !.ready = TRUE]
             \/ Works(rows[e].owner, e) /\ worker'[rows[e].owner] = Idle]_vars
  BY LeaseStep
<1> QED
  BY <1>1, InitTypeInv, NextTypeInv, PTL DEF Spec, LeaseIsExclusive

\* DeliveryIsSound, the conjunction that the run checks, holds of every instance.
THEOREM FederationSound == Spec => []DeliveryIsSound
<1>1. TypeOK /\ ReplicaIsPrefix /\ DeliveredIsApplied /\ TriesAreBounded => DeliveryIsSound
  BY DEF DeliveryIsSound
<1>2. QED
  BY <1>1, FederationTypeCorrect, FederationSafe, FederationTriesAreBounded, PTL

-----------------------------------------------------------------------------
(* Policy: what leaves the origin was allowed by one configuration *)

\* Some listed configuration trusts the peer and allows the type and scope of e.
Allowed(e) ==
    \E c \in Configs :
        /\ c.listed /\ c.trusted
        /\ TypeOf[e] \in c.types
        /\ ScopeOf[e[1]] = "neighbourhood" => c.neighbourhood

\* The policy columns of a trusted peer all come from the same configuration.
PeerIsConfigured ==
    peer.trusted => \E c \in Configs :
        c.listed /\ c.trusted /\ peer.types = c.types /\ peer.neighbourhood = c.neighbourhood

Policy ==
    /\ PeerIsConfigured
    /\ \A w \in Workers : \A e \in UnderWay(w) : Allowed(e)
    /\ \A e \in inbox \cup late : Allowed(e)

LEMMA InitPolicy == Init => Policy
  BY DEF Init, DeliveryInit, InboxInit, Policy, PeerIsConfigured, UnderWay, Idle

\* What one request can add to the inbox.
LEMMA AcceptAdds ==
  ASSUME NEW e, NEW outcome, accept_verified(e, outcome)
  PROVE  inbox' \subseteq inbox \cup {e}
  BY DEF accept_verified

\* Configurations are installed whole, and reconciliation leaves the policy
\* columns alone.
LEMMA PeerStep ==
  ASSUME TypeInv, PeerIsConfigured, Next
  PROVE  PeerIsConfigured'
<1>0. peer \in PeerType
  BY DEF TypeInv, TypeOK, DeliveryTypeOK
<1>1. ASSUME NEW i \in Instances, NEW c \in Configs, install_peer(i, c)
      PROVE  PeerIsConfigured'
  BY <1>0, <1>1 DEF install_peer, PeerIsConfigured, PeerType
<1>2. ASSUME NEW i \in Instances, reconcile_delivery_endpoints(i)
      PROVE  PeerIsConfigured'
  <2>1. /\ peer'.trusted = peer.trusted /\ peer'.types = peer.types
        /\ peer'.neighbourhood = peer.neighbourhood
    BY <1>0, <1>2 DEF reconcile_delivery_endpoints, PeerType
  <2> QED
    BY <2>1 DEF PeerIsConfigured
<1>3. CASE UNCHANGED peer
  BY <1>3 DEF PeerIsConfigured
<1>4. CASE PublishStep \/ TimePasses \/ InstallAtReceiver
  <2>1. UNCHANGED peer
    BY <1>4 DEF PublishStep, TimePasses, InstallAtReceiver, enqueue_delivery_targets,
           persist_local, PublishAbort, BackoffEnds, LeaseEnds, LeaseOverrun, bootVars
  <2> QED
    BY <2>1, <1>3
<1>5. CASE runtime_router
  BY <1>1, <1>2, <1>3, <1>5 DEF runtime_router, ReconcileBegin, BootCrash
<1>6. ASSUME NEW w \in Workers,
             run_delivery_batch(w) \/ WorkerFault(w) \/ receive_event(w) \/ ForeignAnswer(w)
      PROVE  PeerIsConfigured'
  <2>1. UNCHANGED peer
    BY <1>6 DEF run_delivery_batch, WorkerFault, receive_event, ForeignAnswer, Answer,
           expire_exhausted_deliveries, claim_due_delivery, EndBatch, load_delivery_context,
           post_event_fails, finalize_decision, bootVars
  <2> QED
    BY <2>1, <1>3
<1>7. ASSUME NEW e \in Events, receive_late(e)
      PROVE  PeerIsConfigured'
  BY <1>3, <1>7 DEF receive_late, deliveryVars, bootVars
<1> QED
  BY <1>4, <1>5, <1>6, <1>7 DEF Next

\* A step that adds no request: whoever posts afterwards posted the same event
\* before, and what arrives or is given up was under way.
LEMMA OldRequests ==
  ASSUME Policy,
         \A w \in Workers : UnderWay(w)' \subseteq UnderWay(w),
         \A e \in (inbox \cup late)' : \/ e \in inbox \cup late
                                       \/ \E w \in Workers : e \in UnderWay(w)
  PROVE  /\ \A w \in Workers : \A e \in UnderWay(w)' : Allowed(e)
         /\ \A e \in (inbox \cup late)' : Allowed(e)
  BY DEF Policy

\* A step that changes the decision of w ends its request and starts none.
LEMMA DecideEnds ==
  ASSUME TypeInv, NEW w \in Workers, NEW to, NEW error, Decide(w, to, error)
  PROVE  \A v \in Workers : UnderWay(v)' \subseteq UnderWay(v)
<1>1. worker \in [Workers -> {Idle} \cup ClaimType \cup DecisionType]
  BY DEF TypeInv, TypeOK, DeliveryTypeOK
<1>2. worker'[w].pc = "decided" /\ \A v \in Workers \ {w} : worker'[v] = worker[v]
  BY <1>1 DEF Decide
<1> QED
  BY <1>2 DEF UnderWay

LEMMA BatchPolicy ==
  ASSUME TypeInv, Policy, NEW w \in Workers,
         run_delivery_batch(w) \/ WorkerFault(w), UNCHANGED inboxVars
  PROVE  /\ \A v \in Workers : \A e \in UnderWay(v)' : Allowed(e)
         /\ \A e \in (inbox \cup late)' : Allowed(e)
<1>0. /\ worker \in [Workers -> {Idle} \cup ClaimType \cup DecisionType]
      /\ inbox' = inbox
  BY DEF TypeInv, TypeOK, DeliveryTypeOK, inboxVars
<1>1. \A v \in Workers : worker'[v].pc # "posting" \/ worker'[v] = worker[v] =>
                           UnderWay(v)' \subseteq UnderWay(v)
  BY DEF UnderWay
<1>2. CASE load_delivery_context(w)
  <2>1. UNCHANGED late
    BY <1>2 DEF load_delivery_context
  <2>2. CASE Decide(w, "dead", "policy")
    BY <1>0, <2>1, <2>2, DecideEnds, OldRequests
  <2>3. CASE worker' = [worker EXCEPT ![w] = Idle]
    <3>1. \A v \in Workers : UnderWay(v)' \subseteq UnderWay(v)
      BY <1>0, <1>1, <2>3 DEF Idle
    <3> QED
      BY <1>0, <2>1, <3>1, OldRequests
  <2>4. CASE /\ ~delivery_policy_error(worker[w].ev)
             /\ worker' = [worker EXCEPT ![w].pc = "posting"]
    <3>1. worker[w] \in ClaimType
      BY <1>0, <1>2 DEF load_delivery_context, DecisionType
    <3>2. worker'[w].ev = worker[w].ev
      BY <1>0, <2>4, <3>1 DEF ClaimType
    <3>3. Allowed(worker[w].ev)
      BY <2>4 DEF delivery_policy_error, Reserved, Policy, PeerIsConfigured, Allowed
    <3>4. \A v \in Workers \ {w} : UnderWay(v)' \subseteq UnderWay(v)
      BY <1>0, <1>1, <2>4
    <3>5. \A v \in Workers : \A e \in UnderWay(v)' : Allowed(e)
      BY <3>2, <3>3, <3>4 DEF Policy, UnderWay
    <3> QED
      BY <1>0, <2>1, <3>5 DEF Policy
  <2> QED
    BY <1>2, <2>2, <2>3, <2>4 DEF load_delivery_context
<1>3. CASE post_event_fails(w)
  <2>1. \A v \in Workers : UnderWay(v)' \subseteq UnderWay(v)
    BY <1>3, DecideEnds DEF post_event_fails, Retry
  <2>2. late' \subseteq late \cup UnderWay(w)
    BY <1>3 DEF post_event_fails
  <2> QED
    BY <1>0, <2>1, <2>2, OldRequests
<1>4. CASE claim_due_delivery(w)
  <2>1. \A v \in Workers : UnderWay(v)' \subseteq UnderWay(v)
    BY <1>0, <1>1, <1>4 DEF claim_due_delivery
  <2> QED
    BY <1>0, <1>4, <2>1, OldRequests DEF claim_due_delivery
<1>5. CASE WorkerFault(w)
  <2>1. \A v \in Workers : UnderWay(v)' \subseteq UnderWay(v)
    BY <1>0, <1>1, <1>5 DEF WorkerFault, Idle
  <2>2. late' \subseteq late \cup UnderWay(w)
    BY <1>5 DEF WorkerFault
  <2> QED
    BY <1>0, <2>1, <2>2, OldRequests
<1>6. CASE expire_exhausted_deliveries(w) \/ EndBatch(w) \/ finalize_decision(w)
  <2>1. UNCHANGED late /\ (UNCHANGED worker \/ worker' = [worker EXCEPT ![w] = Idle])
    BY <1>6 DEF expire_exhausted_deliveries, EndBatch, finalize_decision
  <2>2. \A v \in Workers : UnderWay(v)' \subseteq UnderWay(v)
    BY <1>0, <1>1, <2>1 DEF Idle
  <2> QED
    BY <1>0, <2>1, <2>2, OldRequests
<1> QED
  BY <1>2, <1>3, <1>4, <1>5, <1>6 DEF run_delivery_batch

LEMMA NextPolicy == TypeInv /\ Policy /\ [Next]_vars => Policy'
<1> SUFFICES ASSUME TypeInv, Policy, [Next]_vars PROVE Policy'
  OBVIOUS
<1> DEFINE Held == /\ \A w \in Workers : \A e \in UnderWay(w)' : Allowed(e)
                   /\ \A e \in (inbox \cup late)' : Allowed(e)
<1>1. ASSUME UNCHANGED <<worker, late, inbox>>
      PROVE  Held
  BY <1>1 DEF Policy, UnderWay
<1>2. ASSUME (PublishStep \/ runtime_router \/ TimePasses) /\ UNCHANGED inboxVars
      PROVE  Held
  <2>1. UNCHANGED <<worker, late, inbox>>
    BY <1>2 DEF PublishStep, runtime_router, TimePasses, inboxVars, workerVars,
           enqueue_delivery_targets, persist_local, PublishAbort, install_peer, ReconcileBegin,
           reconcile_delivery_endpoints, BootCrash, BackoffEnds, LeaseEnds, LeaseOverrun
  <2> QED
    BY <1>1, <2>1
<1>3. ASSUME NEW w \in Workers,
             (run_delivery_batch(w) \/ WorkerFault(w)) /\ UNCHANGED inboxVars
      PROVE  Held
  BY <1>3, BatchPolicy
<1>4. ASSUME NEW w \in Workers, receive_event(w)
      PROVE  Held
  <2>1. PICK outcome \in Outcomes, e \in UnderWay(w) :
          accept_verified(e, outcome) /\ Answer(w, outcome)
    BY <1>4 DEF receive_event
  <2>2. inbox' \subseteq inbox \cup {e} /\ UNCHANGED late
    BY <2>1, AcceptAdds DEF Answer
  <2>3. \A v \in Workers : UnderWay(v)' \subseteq UnderWay(v)
    BY <2>1, DecideEnds DEF Answer, classify_response, Retry
  <2> QED
    BY <2>2, <2>3, OldRequests
<1>5. ASSUME NEW w \in Workers, ForeignAnswer(w)
      PROVE  Held
  <2>1. UNCHANGED <<inbox, late>>
    BY <1>5 DEF ForeignAnswer, Answer, inboxVars
  <2>2. \A v \in Workers : UnderWay(v)' \subseteq UnderWay(v)
    BY <1>5, DecideEnds DEF ForeignAnswer, Answer, classify_response, Retry
  <2> QED
    BY <2>1, <2>2, OldRequests
<1>6. ASSUME NEW e \in Events, receive_late(e)
      PROVE  Held
  <2>1. inbox' \subseteq inbox \cup late /\ UNCHANGED <<worker, late>>
    BY <1>6, AcceptAdds DEF receive_late, deliveryVars, workerVars
  <2>2. \A v \in Workers : UnderWay(v)' \subseteq UnderWay(v)
    BY <2>1 DEF UnderWay
  <2> QED
    BY <2>1, <2>2, OldRequests
<1>7. ASSUME InstallAtReceiver
      PROVE  Held
  BY <1>1, <1>7 DEF InstallAtReceiver, install_peer_in, workerVars
<1>8. Next => Held
  BY <1>1, <1>2, <1>3, <1>4, <1>5, <1>6, <1>7 DEF Next
<1>9. CASE Next
  BY <1>8, <1>9, PeerStep DEF Policy
<1>10. CASE UNCHANGED vars
  BY <1>10 DEF vars, deliveryVars, inboxVars, workerVars, bootVars, Policy, PeerIsConfigured, UnderWay
<1> QED
  BY <1>9, <1>10

\* PolicyIsRespected: an event reaches the receiver, or is still under way in a
\* request its sender gave up, only if one listed configuration trusts the peer
\* and allows the event, whatever was reconfigured in between
\* (delivery_policy_error, install_peer, reconcile_delivery_endpoints).
THEOREM FederationPolicyIsRespected == Spec => []PolicyIsRespected
<1>1. Policy => PolicyIsRespected
  BY DEF Policy, PolicyIsRespected, Allowed
<1>2. QED
  BY <1>1, InitTypeInv, NextTypeInv, InitPolicy, NextPolicy, PTL DEF Spec

-----------------------------------------------------------------------------
(* Order: a receiver that accepts every event never sees one too early *)

\* What is being delivered, or still under way from an attempt that was given up,
\* has all the versions it builds on in the receiver's inbox.
Ordered ==
    /\ \A w \in Workers : worker[w] # Idle => Predecessors(worker[w].ev) \subseteq inbox
    /\ \A e \in late : Predecessors(e) \subseteq inbox
    /\ quarantine = {}

\* A receiver whose operator installs no policy that refuses the origin's events.
ReceiverAccepts ==
    \A p \in InPolicies :
        /\ p.known /\ ~p.blocked /\ p.key_active /\ p.neighbourhood
        /\ p.types = EventTypes

LEMMA InitOrdered == Init => Ordered
  BY DEF Init, DeliveryInit, InboxInit, Ordered

\* A request whose predecessors have arrived is applied or a repetition.
LEMMA AcceptOrdered ==
  ASSUME ReceiverAccepts, TypeInv, Arrival, quarantine = {},
         NEW e \in Events, NEW outcome \in Outcomes, Predecessors(e) \subseteq inbox,
         accept_verified(e, outcome)
  PROVE  quarantine' = {}
<1>0. /\ inPeer \in InPolicies /\ replica \in [Objects -> 0..MaxVersion]
      /\ MaxVersion \in Nat /\ TypeOf \in [Events -> EventTypes]
  BY EventsAssumption DEF TypeInv, TypeOK, InboxTypeOK
<1>1. inPeer.known /\ ~peer_policy_rejection(e)
  BY <1>0 DEF ReceiverAccepts, peer_policy_rejection
<1>2. PICK o \in Objects, v \in 1..MaxVersion : e = <<o, v>>
  BY DEF Events
<1>3. \A u \in 1..MaxVersion : <<o, u>> \in inbox <=> u <= replica[o]
  BY DEF Arrival, ReplicaIsPrefix
<1>4. e \in inbox \/ transition_allowed(replica[e[1]], e)
  <2>1. SUFFICES ASSUME e \notin inbox
                 PROVE  v = replica[o] + 1
    BY <1>2 DEF transition_allowed
  <2>2. replica[o] < v
    BY <1>0, <1>2, <1>3, <2>1
  <2>3. CASE v = 1
    BY <1>0, <2>2, <2>3
  <2>4. CASE v > 1
    <3>1. v - 1 \in 1..MaxVersion /\ v - 1 \in 1..(v - 1)
      BY <1>0, <2>4
    <3>2. <<o, v - 1>> \in inbox
      BY <1>2, <3>1 DEF Predecessors
    <3>3. v - 1 <= replica[o]
      BY <1>3, <3>1, <3>2
    <3> QED
      BY <1>0, <2>2, <3>3
  <2> QED
    BY <1>0, <2>3, <2>4
<1> QED
  BY <1>1, <1>4 DEF accept_verified

\* Workers start on nothing new, and the inbox only grows.
LEMMA OldWork ==
  ASSUME Ordered, inbox \subseteq inbox', quarantine' = {},
         \A w \in Workers : worker'[w] # Idle =>
             worker[w] # Idle /\ worker'[w].ev = worker[w].ev,
         \A e \in late' : \/ e \in late
                          \/ \E w \in Workers : e \in UnderWay(w)
  PROVE  Ordered'
<1>1. \A w \in Workers : worker'[w] # Idle => Predecessors(worker'[w].ev) \subseteq inbox'
  BY DEF Ordered
<1>2. \A e \in late' : Predecessors(e) \subseteq inbox'
  BY DEF Ordered, UnderWay
<1> QED
  BY <1>1, <1>2 DEF Ordered

LEMMA DecideOrdered ==
  ASSUME TypeInv, NEW w \in Workers, worker[w] # Idle, NEW to, NEW error, Decide(w, to, error)
  PROVE  \A v \in Workers : worker'[v] # Idle => worker[v] # Idle /\ worker'[v].ev = worker[v].ev
<1>1. worker \in [Workers -> {Idle} \cup ClaimType \cup DecisionType]
  BY DEF TypeInv, TypeOK, DeliveryTypeOK
<1>2. worker'[w].ev = worker[w].ev /\ \A v \in Workers \ {w} : worker'[v] = worker[v]
  BY <1>1 DEF Decide
<1> QED
  BY <1>2

\* A claim waits for every earlier version that is reserved; with no gap that is
\* every earlier version.
LEMMA ClaimOrdered ==
  ASSUME TypeInv, Arrival, Ordered, GapFree, NEW w \in Workers, claim_due_delivery(w),
         UNCHANGED inboxVars
  PROVE  Ordered'
<1>0. /\ worker \in [Workers -> {Idle} \cup ClaimType \cup DecisionType]
      /\ rows \in [Events -> RowType] /\ MaxVersion \in Nat
  BY EventsAssumption DEF TypeInv, TypeOK, DeliveryTypeOK
<1>1. PICK e \in Candidates :
        worker' = [worker EXCEPT ![w] = [pc |-> "claimed", ev |-> e,
                                         attempt |-> rows[e].attempts + 1]]
  BY DEF claim_due_delivery
<1>2. ASSUME NEW p \in Predecessors(e)
      PROVE  p \in inbox
  <2>1. e \in Events /\ rows[e].state # "absent" /\ rows[p].state \in {"absent", "delivered"}
    BY DEF Candidates
  <2>2. p \in Events
    <3>1. PICK o \in Objects, v \in 1..MaxVersion : e = <<o, v>>
      BY <2>1 DEF Events
    <3>2. PICK u \in 1..(v - 1) : p = <<o, u>>
      BY <3>1 DEF Predecessors
    <3>3. u \in 1..MaxVersion
      BY <1>0, <3>1, <3>2
    <3> QED
      BY <3>2, <3>3 DEF Events
  <2>3. rows[p].state = "delivered"
    BY <2>1 DEF GapFree
  <2> QED
    BY <2>2, <2>3 DEF Arrival, DeliveredIsApplied
<1>3. worker'[w].ev = e /\ \A v \in Workers \ {w} : worker'[v] = worker[v]
  BY <1>0, <1>1
<1>4. UNCHANGED <<late, inbox, quarantine>>
  BY DEF claim_due_delivery, inboxVars
<1>5. \A v \in Workers : worker'[v] # Idle => Predecessors(worker'[v].ev) \subseteq inbox'
  BY <1>2, <1>3, <1>4 DEF Ordered
<1> QED
  BY <1>4, <1>5 DEF Ordered

LEMMA NextOrdered ==
  ASSUME ReceiverAccepts, TypeInv, Arrival, Ordered, GapFree, [Next]_vars
  PROVE  Ordered'
<1>0. /\ worker \in [Workers -> {Idle} \cup ClaimType \cup DecisionType]
      /\ quarantine = {}
      /\ \A w \in Workers : \A e \in UnderWay(w) : Predecessors(e) \subseteq inbox
  BY DEF TypeInv, TypeOK, DeliveryTypeOK, Ordered, UnderWay
<1>1. ASSUME UNCHANGED <<worker, late, inbox, quarantine>>
      PROVE  Ordered'
  BY <1>1 DEF Ordered
<1>2. ASSUME (PublishStep \/ runtime_router \/ TimePasses) /\ UNCHANGED inboxVars
      PROVE  Ordered'
  <2>1. UNCHANGED <<worker, late, inbox, quarantine>>
    BY <1>2 DEF PublishStep, runtime_router, TimePasses, inboxVars, workerVars,
           enqueue_delivery_targets, persist_local, PublishAbort, install_peer, ReconcileBegin,
           reconcile_delivery_endpoints, BootCrash, BackoffEnds, LeaseEnds, LeaseOverrun
  <2> QED
    BY <1>1, <2>1
<1>3. ASSUME NEW w \in Workers, run_delivery_batch(w) \/ WorkerFault(w), UNCHANGED inboxVars
      PROVE  Ordered'
  <2>0. UNCHANGED <<inbox, quarantine>>
    BY <1>3 DEF inboxVars
  <2>1. CASE claim_due_delivery(w)
    BY <1>3, <2>1, ClaimOrdered
  <2>2. CASE load_delivery_context(w)
    <3>1. \A v \in Workers : worker'[v] # Idle => worker[v] # Idle /\ worker'[v].ev = worker[v].ev
      <4>1. worker[w] \in ClaimType
        BY <1>0, <2>2 DEF load_delivery_context, DecisionType
      <4>2. CASE Decide(w, "dead", "policy")
        BY <2>2, <4>2, DecideOrdered DEF load_delivery_context
      <4>3. CASE worker' = [worker EXCEPT ![w] = Idle]
        BY <1>0, <4>3
      <4>4. CASE worker' = [worker EXCEPT ![w].pc = "posting"]
        <5>1. worker'[w].ev = worker[w].ev /\ worker[w] # Idle
          BY <1>0, <2>2, <4>1, <4>4 DEF ClaimType, load_delivery_context
        <5>2. \A v \in Workers \ {w} : worker'[v] = worker[v]
          BY <1>0, <4>4
        <5> QED
          BY <5>1, <5>2
      <4> QED
        BY <2>2, <4>2, <4>3, <4>4 DEF load_delivery_context
    <3> QED
      BY <1>0, <2>0, <2>2, <3>1, OldWork DEF load_delivery_context
  <2>3. CASE post_event_fails(w)
    <3>1. \A v \in Workers : worker'[v] # Idle => worker[v] # Idle /\ worker'[v].ev = worker[v].ev
      BY <2>3, DecideOrdered DEF post_event_fails, Retry
    <3>2. late' \subseteq late \cup UnderWay(w)
      BY <2>3 DEF post_event_fails
    <3> QED
      BY <1>0, <2>0, <3>1, <3>2, OldWork
  <2>4. CASE \/ expire_exhausted_deliveries(w) \/ EndBatch(w) \/ finalize_decision(w)
             \/ WorkerFault(w)
    <3>1. /\ worker' = worker \/ worker' = [worker EXCEPT ![w] = Idle]
          /\ late' \subseteq late \cup UnderWay(w)
      BY <2>4 DEF expire_exhausted_deliveries, EndBatch, finalize_decision, WorkerFault
    <3>2. \A v \in Workers : worker'[v] # Idle => worker[v] # Idle /\ worker'[v].ev = worker[v].ev
      BY <1>0, <3>1
    <3> QED
      BY <1>0, <2>0, <3>1, <3>2, OldWork
  <2> QED
    BY <1>3, <2>1, <2>2, <2>3, <2>4 DEF run_delivery_batch
<1>4. ASSUME NEW w \in Workers, receive_event(w)
      PROVE  Ordered'
  <2>1. PICK outcome \in Outcomes, e \in UnderWay(w) :
          accept_verified(e, outcome) /\ Answer(w, outcome)
    BY <1>4 DEF receive_event
  <2>2. e \in Events /\ Predecessors(e) \subseteq inbox
    BY <1>0 DEF UnderWay
  <2>3. quarantine' = {}
    BY <1>0, <2>1, <2>2, AcceptOrdered
  <2>4. inbox \subseteq inbox' /\ UNCHANGED late
    BY <2>1 DEF accept_verified, Answer
  <2>5. \A v \in Workers : worker'[v] # Idle => worker[v] # Idle /\ worker'[v].ev = worker[v].ev
    BY <2>1, DecideOrdered DEF Answer, classify_response, Retry
  <2> QED
    BY <2>3, <2>4, <2>5, OldWork
<1>5. ASSUME NEW w \in Workers, ForeignAnswer(w)
      PROVE  Ordered'
  <2>1. UNCHANGED <<inbox, quarantine, late>>
    BY <1>5 DEF ForeignAnswer, Answer, inboxVars
  <2>2. \A v \in Workers : worker'[v] # Idle => worker[v] # Idle /\ worker'[v].ev = worker[v].ev
    BY <1>5, DecideOrdered DEF ForeignAnswer, Answer, classify_response, Retry
  <2> QED
    BY <1>0, <2>1, <2>2, OldWork
<1>6. ASSUME NEW e \in Events, receive_late(e)
      PROVE  Ordered'
  <2>1. PICK outcome \in Outcomes : accept_verified(e, outcome)
    BY <1>6 DEF receive_late
  <2>2. Predecessors(e) \subseteq inbox
    BY <1>6 DEF receive_late, Ordered
  <2>3. quarantine' = {}
    BY <1>0, <2>1, <2>2, AcceptOrdered
  <2>4. inbox \subseteq inbox' /\ UNCHANGED <<worker, late>>
    BY <1>6, <2>1 DEF accept_verified, receive_late, deliveryVars, workerVars
  <2> QED
    BY <2>3, <2>4, OldWork
<1>7. ASSUME InstallAtReceiver \/ UNCHANGED vars
      PROVE  Ordered'
  BY <1>1, <1>7 DEF InstallAtReceiver, install_peer_in, workerVars, vars, deliveryVars, inboxVars
<1> QED
  BY <1>2, <1>3, <1>4, <1>5, <1>6, <1>7 DEF Next

\* InOrderWithoutGaps for every instance: with a receiver that accepts every
\* event, and as long as no reservation has ever been missing, nothing is
\* quarantined (claim_due_delivery, accept_verified).  The history has to be free
\* of gaps throughout: where several configurations follow each other, a
\* reconciliation can close a gap after a later version was sent through it.
THEOREM FederationInOrder ==
  ASSUME ReceiverAccepts
  PROVE  Spec /\ []GapFree => []InOrderWithoutGaps
<1>1. TypeInv /\ Arrival /\ Ordered /\ GapFree /\ [Next]_vars => Ordered'
  BY NextOrdered
<1>2. Ordered => InOrderWithoutGaps
  BY DEF Ordered, InOrderWithoutGaps
<1>3. QED
  BY <1>1, <1>2, InitTypeInv, NextTypeInv, InitArrival, NextArrival, InitOrdered, PTL DEF Spec

=============================================================================
