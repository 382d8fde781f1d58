---------------------------- MODULE DomainOutbox ----------------------------
(***************************************************************************)
(* The event chain of one cell: the PostgreSQL table domain_outbox, the    *)
(* relays that publish its rows to the JetStream stream WELTGEWEBE_DOMAIN, *)
(* and the receipt consumers that write domain_event_consumptions.         *)
(*                                                                         *)
(* Source: apps/api/src/outbox.rs and the trigger of the migration         *)
(* 20260716000001_multi_instance_foundation.  Every API instance runs one  *)
(* relay and one receipt consumer, so there are several of each.           *)
(*                                                                         *)
(* Time is abstract.  Of available_at the model keeps whether it has       *)
(* passed (the row is in due) and, for the rows that are due, its order.   *)
(* A claim's lease and a retry's delay are both an available_at in the     *)
(* future: the action Elapse ends either one.                              *)
(***************************************************************************)
EXTENDS Naturals, FiniteSets

CONSTANTS
    Events,       \* ids of domain_outbox rows
    Relays,       \* relay_loop tasks, one per API instance
    Consumers,    \* receipt_consumer_loop tasks, one per API instance
    MaxAttempts,  \* MAX_ATTEMPTS
    BatchSize,    \* CLAIM_BATCH_SIZE
    MaxCopies,    \* bound: messages the stream stores for one event
    MaxFaults,    \* bound: crashes and failed database calls
    MaxRequeues   \* bound: operator requeues

ASSUME OutboxAssumption ==
    /\ MaxAttempts \in Nat \ {0}
    /\ BatchSize \in Nat \ {0}
    /\ MaxCopies \in Nat \ {0}
    /\ MaxFaults \in Nat
    /\ MaxRequeues \in Nat

VARIABLES
    rows,         \* committed rows of domain_outbox
    published,    \* rows with published_at set
    quarantined,  \* rows with quarantined_at set
    attempts,     \* attempt_count of each row
    due,          \* pending rows with available_at <= NOW()
    older,        \* ORDER BY available_at, id on the rows of due
    batch,        \* claimed events a relay has not yet tried to publish
    relay,        \* what a relay knows about the event it has just tried
    copies,       \* number of messages the stream holds for an event
    window,       \* events whose Nats-Msg-Id is in the duplicate window
    late,         \* events in a publish whose sender has given up on it
    consumer,     \* the message a receipt consumer is working on
    receipts,     \* rows of domain_event_consumptions
    acked,        \* messages the durable consumer has seen acknowledged
    faults,       \* crashes and database errors so far
    requeues      \* operator requeues so far

tableVars == <<rows, published, quarantined, attempts, due, older>>
relayVars == <<batch, relay>>
streamVars == <<copies, window, late>>
consumerVars == <<consumer, receipts, acked>>
boundVars == <<faults, requeues>>
vars == <<tableVars, relayVars, streamVars, consumerVars, boundVars>>

-----------------------------------------------------------------------------
(* Types *)

\* OutboxEvent: the claim returns the attempt_count it has just written.
Claims == [ev : Events, attempt : Nat]

\* A relay between two events of its batch.
Idle == [pc |-> "idle"]

\* publish_event returned Ok ("ok") or Err ("err"); the row is not marked yet.
Answers == [pc : {"ok", "err"}, ev : Events, attempt : Nat]

\* A consumer has received a message ("got") or has written its receipt too.
Messages == [pc : {"got", "recorded"}, ev : Events, copy : Nat]

TypeOK ==
    /\ rows \subseteq Events
    /\ published \subseteq rows
    /\ quarantined \subseteq rows
    /\ attempts \in [Events -> Nat]
    /\ due \subseteq rows \ (published \cup quarantined)
    /\ older \subseteq due \X due
    /\ batch \in [Relays -> SUBSET Claims]
    /\ relay \in [Relays -> {Idle} \cup Answers]
    /\ copies \in [Events -> Nat]
    /\ window \subseteq Events
    /\ late \subseteq Events
    /\ consumer \in [Consumers -> {Idle} \cup Messages]
    /\ receipts \subseteq Events
    /\ acked \subseteq Events \X Nat
    /\ faults \in 0..MaxFaults
    /\ requeues \in 0..MaxRequeues

-----------------------------------------------------------------------------
(* State formulae *)

\* published_at IS NULL AND quarantined_at IS NULL
Pending == rows \ (published \cup quarantined)

Stored == {e \in Events : copies[e] > 0}

-----------------------------------------------------------------------------
(* The table *)

Init ==
    /\ rows = {}
    /\ published = {}
    /\ quarantined = {}
    /\ attempts = [e \in Events |-> 0]
    /\ due = {}
    /\ older = {}
    /\ batch = [w \in Relays |-> {}]
    /\ relay = [w \in Relays |-> Idle]
    /\ copies = [e \in Events |-> 0]
    /\ window = {}
    /\ late = {}
    /\ consumer = [c \in Consumers |-> Idle]
    /\ receipts = {}
    /\ acked = {}
    /\ faults = 0
    /\ requeues = 0

\* The row's available_at becomes NOW(), later than that of every due row.
BecomeDue(e) ==
    /\ due' = due \cup {e}
    /\ older' = older \cup (due \X {e})

\* The rows of S get an available_at in the future, or stop being pending.
LeaveDue(S) ==
    /\ due' = due \ S
    /\ older' = {p \in older : p[1] \notin S /\ p[2] \notin S}

\* A domain write commits.  The trigger inserts the row in the transaction of
\* the write; available_at is the start of that transaction, so the row may
\* fall before rows that were committed earlier.
CommitWrite(e) ==
    /\ e \notin rows
    /\ \E before \in SUBSET due :
          /\ \A x \in before, y \in due \ before : <<x, y>> \in older
          /\ older' = older \cup (before \X {e}) \cup ({e} \X (due \ before))
    /\ rows' = rows \cup {e}
    /\ due' = due \cup {e}
    /\ UNCHANGED <<published, quarantined, attempts>>
    /\ UNCHANGED <<relayVars, streamVars, consumerVars, boundVars>>

\* Mutant of Elapse: a row that has been claimed is never offered again.
ElapseUnclaimedOnly(e) ==
    /\ e \in Pending \ due
    /\ attempts[e] = 0
    /\ BecomeDue(e)
    /\ UNCHANGED <<rows, published, quarantined, attempts>>
    /\ UNCHANGED <<relayVars, streamVars, consumerVars, boundVars>>

\* A lease or a retry delay is over.
Elapse(e) ==
    /\ e \in Pending \ due
    /\ BecomeDue(e)
    /\ UNCHANGED <<rows, published, quarantined, attempts>>
    /\ UNCHANGED <<relayVars, streamVars, consumerVars, boundVars>>

\* What claim_pending picks: the first BatchSize due rows.
Oldest(S) ==
    /\ S \subseteq due
    /\ \A x \in S, y \in due \ S : <<x, y>> \in older
    /\ \/ Cardinality(S) = BatchSize
       \/ S = due /\ Cardinality(S) < BatchSize

claim_pending(w) ==
    /\ relay[w] = Idle
    /\ batch[w] = {}
    /\ due # {}
    /\ \E S \in SUBSET due :
          /\ Oldest(S)
          /\ attempts' = [e \in Events |-> IF e \in S THEN attempts[e] + 1
                                                      ELSE attempts[e]]
          /\ LeaveDue(S)
          /\ batch' = [batch EXCEPT ![w] =
                {[ev |-> e, attempt |-> attempts[e] + 1] : e \in S}]
    /\ UNCHANGED <<rows, published, quarantined, relay>>
    /\ UNCHANGED <<streamVars, consumerVars, boundVars>>

\* Mutant of mark_published: the guard on quarantined_at is missing.
MarkPublishedUnguarded(w) ==
    /\ relay[w].pc = "ok"
    /\ relay' = [relay EXCEPT ![w] = Idle]
    /\ published' = published \cup {relay[w].ev}
    /\ LeaveDue({relay[w].ev})
    /\ UNCHANGED <<rows, quarantined, attempts, batch>>
    /\ UNCHANGED <<streamVars, consumerVars, boundVars>>

\* Mutant of mark_published: the row stays in the pending index.
MarkPublishedStillDue(w) ==
    /\ relay[w].pc = "ok"
    /\ relay' = [relay EXCEPT ![w] = Idle]
    /\ published' = published \cup ({relay[w].ev} \cap Pending)
    /\ UNCHANGED <<rows, quarantined, attempts, due, older, batch>>
    /\ UNCHANGED <<streamVars, consumerVars, boundVars>>

mark_published(w) ==
    /\ relay[w].pc = "ok"
    /\ relay' = [relay EXCEPT ![w] = Idle]
    /\ LET e == relay[w].ev IN
          IF e \in Pending
          THEN /\ published' = published \cup {e}
               /\ LeaveDue({e})
          ELSE UNCHANGED <<published, due, older>>
    /\ UNCHANGED <<rows, quarantined, attempts, batch>>
    /\ UNCHANGED <<streamVars, consumerVars, boundVars>>

\* Mutant of mark_failed: quarantine one attempt too early.
MarkFailedEarly(w) ==
    /\ relay[w].pc = "err"
    /\ relay' = [relay EXCEPT ![w] = Idle]
    /\ quarantined' = IF /\ relay[w].attempt + 1 >= MaxAttempts
                         /\ relay[w].ev \notin published
                      THEN quarantined \cup {relay[w].ev} ELSE quarantined
    /\ LeaveDue({relay[w].ev})
    /\ UNCHANGED <<rows, published, attempts, batch>>
    /\ UNCHANGED <<streamVars, consumerVars, boundVars>>

\* The decision uses the attempt_count of the claim, not that of the row; the
\* quarantine asks only that the row is unpublished.
mark_failed(w) ==
    /\ relay[w].pc = "err"
    /\ relay' = [relay EXCEPT ![w] = Idle]
    /\ LET e == relay[w].ev
           quarantines == relay[w].attempt >= MaxAttempts /\ e \notin published
           reschedules == relay[w].attempt < MaxAttempts /\ e \in Pending
       IN  /\ quarantined' = IF quarantines THEN quarantined \cup {e}
                                            ELSE quarantined
           /\ IF quarantines \/ reschedules THEN LeaveDue({e})
                                            ELSE UNCHANGED <<due, older>>
    /\ UNCHANGED <<rows, published, attempts, batch>>
    /\ UNCHANGED <<streamVars, consumerVars, boundVars>>

\* Mutant of requeue_quarantined: it reopens published rows as well.
RequeueAny(e) ==
    /\ requeues < MaxRequeues
    /\ e \in quarantined \cup published
    /\ quarantined' = quarantined \ {e}
    /\ published' = published \ {e}
    /\ attempts' = [attempts EXCEPT ![e] = 0]
    /\ BecomeDue(e)
    /\ requeues' = requeues + 1
    /\ UNCHANGED <<rows, faults>>
    /\ UNCHANGED <<relayVars, streamVars, consumerVars>>

requeue_quarantined(e) ==
    /\ requeues < MaxRequeues
    /\ e \in quarantined \ published
    /\ quarantined' = quarantined \ {e}
    /\ attempts' = [attempts EXCEPT ![e] = 0]
    /\ BecomeDue(e)
    /\ requeues' = requeues + 1
    /\ UNCHANGED <<rows, published, faults>>
    /\ UNCHANGED <<relayVars, streamVars, consumerVars>>

-----------------------------------------------------------------------------
(* The stream and the relays *)

\* JetStream stores a message unless its id is in the duplicate window.
Store(e) ==
    IF e \in window
    THEN UNCHANGED <<copies, window>>
    ELSE /\ copies' = [copies EXCEPT ![e] = @ + 1]
         /\ window' = window \cup {e}

\* The duplicate window of an event ends; MaxCopies bounds how often.
WindowEnds(e) ==
    /\ e \in window
    /\ copies[e] < MaxCopies
    /\ window' = window \ {e}
    /\ UNCHANGED <<copies, late>>
    /\ UNCHANGED <<tableVars, relayVars, consumerVars, boundVars>>

\* The relay has the outcome of publishing claim c.
Answer(w, c, outcome) ==
    /\ batch' = [batch EXCEPT ![w] = @ \ {c}]
    /\ relay' = [relay EXCEPT ![w] =
                    [pc |-> outcome, ev |-> c.ev, attempt |-> c.attempt]]

\* Mutant of PublishOk: the second await, on the acknowledgement, is missing.
PublishOkUnacknowledged(w) ==
    /\ relay[w] = Idle
    /\ \E c \in batch[w] : /\ late' = late \cup {c.ev}
                            /\ Answer(w, c, "ok")
    /\ UNCHANGED <<copies, window>>
    /\ UNCHANGED <<tableVars, consumerVars, boundVars>>

\* publish_event returns Ok: JetStream has acknowledged the message.
PublishOk(w) ==
    /\ relay[w] = Idle
    /\ \E c \in batch[w] : Store(c.ev) /\ Answer(w, c, "ok")
    /\ UNCHANGED late
    /\ UNCHANGED <<tableVars, consumerVars, boundVars>>

\* publish_event returns Err: the message is lost, or it is still under way
\* (or already stored and only its acknowledgement is lost).
PublishErr(w) ==
    /\ relay[w] = Idle
    /\ \E c \in batch[w] :
          /\ Answer(w, c, "err")
          /\ late' \in {late, late \cup {c.ev}}
    /\ UNCHANGED <<copies, window>>
    /\ UNCHANGED <<tableVars, consumerVars, boundVars>>

\* A message whose sender saw an error reaches the stream after all.
LateStore(e) ==
    /\ e \in late
    /\ late' = late \ {e}
    /\ Store(e)
    /\ UNCHANGED <<tableVars, relayVars, consumerVars, boundVars>>

\* The UPDATE that should mark the row fails; relay_loop logs it and goes on.
MarkFault(w) ==
    /\ faults < MaxFaults
    /\ relay[w] # Idle
    /\ relay' = [relay EXCEPT ![w] = Idle]
    /\ faults' = faults + 1
    /\ UNCHANGED <<batch, requeues>>
    /\ UNCHANGED <<tableVars, streamVars, consumerVars>>

\* The relay task or its process dies; the supervisor starts it afresh.
RelayCrash(w) ==
    /\ faults < MaxFaults
    /\ relay[w] # Idle \/ batch[w] # {}
    /\ relay' = [relay EXCEPT ![w] = Idle]
    /\ batch' = [batch EXCEPT ![w] = {}]
    /\ faults' = faults + 1
    /\ UNCHANGED requeues
    /\ UNCHANGED <<tableVars, streamVars, consumerVars>>

-----------------------------------------------------------------------------
(* The receipt consumers *)

\* Mutant of Receive: it hands out events the stream does not hold.
ReceiveUnstored(c) ==
    /\ consumer[c] = Idle
    /\ \E e \in Events : \E k \in 0..copies[e] :
          /\ <<e, k>> \notin acked
          /\ consumer' = [consumer EXCEPT ![c] =
                             [pc |-> "got", ev |-> e, copy |-> k]]
    /\ UNCHANGED <<receipts, acked>>
    /\ UNCHANGED <<tableVars, relayVars, streamVars, boundVars>>

\* The durable consumer hands out any unacknowledged message; one that another
\* instance already holds is handed out again once its ack wait is over.
Receive(c) ==
    /\ consumer[c] = Idle
    /\ \E e \in Events : \E k \in 1..copies[e] :
          /\ <<e, k>> \notin acked
          /\ consumer' = [consumer EXCEPT ![c] =
                             [pc |-> "got", ev |-> e, copy |-> k]]
    /\ UNCHANGED <<receipts, acked>>
    /\ UNCHANGED <<tableVars, relayVars, streamVars, boundVars>>

record_consumed_once(c) ==
    /\ consumer[c].pc = "got"
    /\ receipts' = receipts \cup {consumer[c].ev}
    /\ consumer' = [consumer EXCEPT ![c].pc = "recorded"]
    /\ UNCHANGED acked
    /\ UNCHANGED <<tableVars, relayVars, streamVars, boundVars>>

\* Mutant of Ack: a message may be acknowledged before its receipt exists.
AckFirst(c) ==
    /\ consumer[c] # Idle
    /\ acked' = acked \cup {<<consumer[c].ev, consumer[c].copy>>}
    /\ consumer' = [consumer EXCEPT ![c] = Idle]
    /\ UNCHANGED receipts
    /\ UNCHANGED <<tableVars, relayVars, streamVars, boundVars>>

Ack(c) ==
    /\ consumer[c].pc = "recorded"
    /\ acked' = acked \cup {<<consumer[c].ev, consumer[c].copy>>}
    /\ consumer' = [consumer EXCEPT ![c] = Idle]
    /\ UNCHANGED receipts
    /\ UNCHANGED <<tableVars, relayVars, streamVars, boundVars>>

\* Mutant of ConsumerFault: a message whose receipt failed is acknowledged.
ConsumerFaultAcks(c) ==
    /\ faults < MaxFaults
    /\ consumer[c] # Idle
    /\ consumer' = [consumer EXCEPT ![c] = Idle]
    /\ acked' = acked \cup {<<consumer[c].ev, consumer[c].copy>>}
    /\ faults' = faults + 1
    /\ UNCHANGED <<receipts, requeues>>
    /\ UNCHANGED <<tableVars, relayVars, streamVars>>

\* The INSERT or the ack fails, or the task dies: the message stays unacked.
ConsumerFault(c) ==
    /\ faults < MaxFaults
    /\ consumer[c] # Idle
    /\ consumer' = [consumer EXCEPT ![c] = Idle]
    /\ faults' = faults + 1
    /\ UNCHANGED <<receipts, acked, requeues>>
    /\ UNCHANGED <<tableVars, relayVars, streamVars>>

-----------------------------------------------------------------------------
(* Specification *)

TableStep(e) ==
    \/ CommitWrite(e)
    \/ Elapse(e)
    \/ requeue_quarantined(e)
    \/ WindowEnds(e)
    \/ LateStore(e)

\* relay_loop
relay_loop(w) ==
    \/ claim_pending(w)
    \/ PublishOk(w)
    \/ PublishErr(w)
    \/ mark_published(w)
    \/ mark_failed(w)

\* receipt_consumer_loop
receipt_consumer_loop(c) ==
    \/ Receive(c)
    \/ record_consumed_once(c)
    \/ Ack(c)

Next ==
    \/ \E e \in Events : TableStep(e)
    \/ \E w \in Relays : relay_loop(w) \/ MarkFault(w) \/ RelayCrash(w)
    \/ \E c \in Consumers : receipt_consumer_loop(c) \/ ConsumerFault(c)

\* The loops run for ever (spawn_essential_worker restarts them) and clocks
\* advance; writes, requeues, faults and late messages need not happen.
Fairness ==
    /\ \A e \in Events : WF_vars(Elapse(e))
    /\ \A w \in Relays : WF_vars(relay_loop(w))
    /\ \A c \in Consumers : WF_vars(receipt_consumer_loop(c))

Spec == Init /\ [][Next]_vars /\ Fairness

-----------------------------------------------------------------------------
(* Strengthening: what the tasks and the network remember between two steps *)

\* Whatever is on its way to the stream belongs to a committed row.
InFlightIsCommitted ==
    /\ \A w \in Relays : \A c \in batch[w] : c.ev \in rows
    /\ \A w \in Relays : relay[w] # Idle => relay[w].ev \in rows
    /\ late \subseteq rows

\* A positive answer comes from the stream; so does every message received.
AnswersAreStored ==
    /\ \A w \in Relays : relay[w].pc = "ok" => relay[w].ev \in Stored
    /\ \A c \in Consumers : consumer[c] # Idle => consumer[c].ev \in Stored
    /\ window \subseteq Stored

RecordedHasReceipt ==
    \A c \in Consumers :
        consumer[c].pc = "recorded" => consumer[c].ev \in receipts

\* Without requeues no relay remembers an attempt the row has not counted.
AttemptsAreCounted ==
    requeues = 0 =>
        /\ \A w \in Relays : \A c \in batch[w] : c.attempt <= attempts[c.ev]
        /\ \A w \in Relays :
              relay[w] # Idle => relay[w].attempt <= attempts[relay[w].ev]

-----------------------------------------------------------------------------
(* Refinement: the life of a row as EventChain sees it *)

Status(e) ==
    CASE e \in published -> "published"
      [] e \in quarantined \ published -> "quarantined"
      [] e \in Pending -> "pending"
      [] OTHER -> "absent"

Chain == INSTANCE EventChain WITH
            status <- [e \in Events |-> Status(e)],
            stored <- Stored,
            received <- receipts

\* ADR-0012: at-least-once publication with an effect that happens once, no
\* event lost, none invented.  Relays, leases, crashes, duplicate and late
\* messages of DomainOutbox are invisible in the events' life.
ImplementsEventChain == Chain!Spec

-----------------------------------------------------------------------------
(* Properties *)

\* The CHECK of domain_outbox, which no UPDATE may ever trip: mark_failed
\* quarantines under a weaker guard than mark_published publishes under.
NotPublishedAndQuarantined == published \cap quarantined = {}

\* A row is marked published only after JetStream has stored its event: a
\* relay that died in between never leaves an unsent event marked as done.
PublishedIsStored == published \subseteq Stored

\* The durable consumer never sees a message acknowledged, and so never drops
\* one, before the receipt of its event is committed.
AckedHasReceipt == \A m \in acked : m[1] \in receipts

\* A receipt exists only for an event the stream has held, and the stream
\* holds only events of committed writes.
ReceiptsAreCommitted ==
    /\ receipts \subseteq Stored
    /\ Stored \subseteq rows

\* The types, and the bookkeeping on both sides of the stream: rows never
\* contradict themselves and a receipt is neither late nor invented.
OutboxIsSound ==
    TypeOK /\ NotPublishedAndQuarantined /\ AckedHasReceipt /\ ReceiptsAreCommitted

\* A row that no operator has ever requeued is in quarantine only after
\* MaxAttempts claims, in whatever order old and new relays report.
QuarantineIsEarned ==
    requeues = 0 => \A e \in quarantined : attempts[e] >= MaxAttempts

\* "Published events are never reopened": once published, a row keeps that
\* state and no relay claims it again, whatever a late mark_failed reports.
PublishedIsFinal ==
    [][\A e \in published : /\ e \in published'
                            /\ e \notin due'
                            /\ attempts'[e] = attempts[e]]_vars

\* Every committed event is eventually published or visibly quarantined,
\* although publishing may fail for ever.
EventuallySettled ==
    \A e \in Events : (e \in rows) ~> (e \in published \cup quarantined)

\* Every event that reaches the stream eventually has its receipt.
EventuallyReceived ==
    \A e \in Events : (e \in Stored) ~> (e \in receipts)

=============================================================================
