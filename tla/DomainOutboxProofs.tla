------------------------- MODULE DomainOutboxProofs -------------------------
(***************************************************************************)
(* Proofs about DomainOutbox, for any numbers of events, relays and        *)
(* receipt consumers and any values of the limits and bounds.              *)
(***************************************************************************)
EXTENDS DomainOutbox, TLAPS

\* TypeOK alone is not inductive: a late mark_failed quarantines the row its
\* claim names, so the claims must name committed rows.
TypeInv == TypeOK /\ InFlightIsCommitted

-----------------------------------------------------------------------------
(* Facts about the helpers *)

\* Taking rows out of due keeps it a set of pending rows with its order.
LEMMA LeaveDueType ==
    ASSUME NEW S, NEW P, LeaveDue(S), due \subseteq P, older \subseteq due \X due
    PROVE  due' \subseteq P \ S /\ older' \subseteq due' \X due'
  BY DEF LeaveDue

\* Adding a row to due extends its order.
LEMMA BecomeDueType ==
    ASSUME NEW e, BecomeDue(e), older \subseteq due \X due
    PROVE  due' = due \cup {e} /\ older' \subseteq due' \X due'
  BY DEF BecomeDue

\* Storing a message never loses one and makes the event stored.
LEMMA StoreType ==
    ASSUME NEW e \in Events, Store(e), copies \in [Events -> Nat],
           window \subseteq Events, window \subseteq Stored
    PROVE  /\ copies' \in [Events -> Nat]
           /\ window' \subseteq Events
           /\ \A x \in Events : copies[x] <= copies'[x]
           /\ Stored \cup {e} = Stored'
           /\ window' \subseteq Stored'
  BY DEF Store, Stored

-----------------------------------------------------------------------------
(* Type correctness *)

LEMMA TypeInit == Init => TypeInv
  BY OutboxAssumption DEF Init, TypeInv, TypeOK, InFlightIsCommitted, Idle

LEMMA TypeTable ==
    ASSUME TypeInv, NEW e \in Events, TableStep(e)
    PROVE  TypeInv'
<1> USE OutboxAssumption DEF TypeInv
<1>1. CASE CommitWrite(e)
  BY <1>1 DEF CommitWrite, TypeOK, InFlightIsCommitted, relayVars, streamVars,
       consumerVars, boundVars
<1>2. CASE Elapse(e)
  BY <1>2, BecomeDueType DEF Elapse, Pending, TypeOK, InFlightIsCommitted,
       relayVars, streamVars, consumerVars, boundVars
<1>3. CASE requeue_quarantined(e)
  BY <1>3, BecomeDueType DEF requeue_quarantined, TypeOK, InFlightIsCommitted,
       relayVars, streamVars, consumerVars, boundVars
<1>4. CASE WindowEnds(e)
  BY <1>4 DEF WindowEnds, TypeOK, InFlightIsCommitted, tableVars, relayVars,
       consumerVars, boundVars
<1>5. CASE LateStore(e)
  BY <1>5 DEF LateStore, Store, TypeOK, InFlightIsCommitted, tableVars, relayVars,
       consumerVars, boundVars
<1>6. QED
  BY <1>1, <1>2, <1>3, <1>4, <1>5 DEF TableStep

LEMMA TypeRelay ==
    ASSUME TypeInv, NEW w \in Relays,
           relay_loop(w) \/ MarkFault(w) \/ RelayCrash(w)
    PROVE  TypeInv'
<1> USE OutboxAssumption DEF TypeInv
<1>1. CASE claim_pending(w)
  <2>1. PICK S \in SUBSET due :
          /\ attempts' = [e \in Events |-> IF e \in S THEN attempts[e] + 1
                                                      ELSE attempts[e]]
          /\ LeaveDue(S)
          /\ batch' = [batch EXCEPT ![w] =
                {[ev |-> e, attempt |-> attempts[e] + 1] : e \in S}]
    BY <1>1 DEF claim_pending
  <2>2. S \subseteq Events
    BY DEF TypeOK
  <2>3. due' \subseteq Pending /\ older' \subseteq due' \X due'
    BY <2>1, LeaveDueType DEF TypeOK, Pending
  <2>4. attempts' \in [Events -> Nat] /\ batch' \in [Relays -> SUBSET Claims]
    BY <2>1, <2>2 DEF TypeOK, Claims
  <2>5. TypeOK'
    BY <1>1, <2>3, <2>4 DEF claim_pending, TypeOK, Pending, streamVars,
         consumerVars, boundVars
  <2>6. InFlightIsCommitted'
    BY <1>1, <2>1 DEF claim_pending, TypeOK, InFlightIsCommitted, streamVars
  <2>7. QED
    BY <2>5, <2>6
<1>2. CASE PublishOk(w)
  <2>1. PICK c \in batch[w] : Store(c.ev) /\ Answer(w, c, "ok")
    BY <1>2 DEF PublishOk
  <2>2. c \in Claims /\ c.ev \in rows /\ c.ev \in Events /\ c.attempt \in Nat
    BY DEF TypeOK, InFlightIsCommitted, Claims
  <2>3. /\ batch' \in [Relays -> SUBSET Claims]
        /\ relay' \in [Relays -> {Idle} \cup Answers]
        /\ relay' = [relay EXCEPT ![w] =
                        [pc |-> "ok", ev |-> c.ev, attempt |-> c.attempt]]
    BY <2>1, <2>2 DEF Answer, Answers, TypeOK
  <2>4. copies' \in [Events -> Nat] /\ window' \subseteq Events
    BY <2>1, <2>2 DEF Store, TypeOK
  <2>5. TypeOK'
    BY <1>2, <2>3, <2>4 DEF PublishOk, TypeOK, tableVars, consumerVars, boundVars
  <2>6. InFlightIsCommitted'
    BY <1>2, <2>1, <2>2, <2>3 DEF PublishOk, Answer, TypeOK, InFlightIsCommitted,
         tableVars
  <2>7. QED
    BY <2>5, <2>6
<1>3. CASE PublishErr(w)
  <2>1. PICK c \in batch[w] :
          Answer(w, c, "err") /\ late' \in {late, late \cup {c.ev}}
    BY <1>3 DEF PublishErr
  <2>2. c \in Claims /\ c.ev \in rows /\ c.ev \in Events /\ c.attempt \in Nat
    BY DEF TypeOK, InFlightIsCommitted, Claims
  <2>3. /\ batch' \in [Relays -> SUBSET Claims]
        /\ relay' \in [Relays -> {Idle} \cup Answers]
        /\ relay' = [relay EXCEPT ![w] =
                        [pc |-> "err", ev |-> c.ev, attempt |-> c.attempt]]
    BY <2>1, <2>2 DEF Answer, Answers, TypeOK
  <2>4. TypeOK'
    BY <1>3, <2>1, <2>2, <2>3 DEF PublishErr, TypeOK, tableVars, consumerVars,
         boundVars
  <2>5. InFlightIsCommitted'
    BY <1>3, <2>1, <2>2, <2>3 DEF PublishErr, Answer, TypeOK, InFlightIsCommitted,
         tableVars
  <2>6. QED
    BY <2>4, <2>5
<1>4. CASE mark_published(w)
  <2>1. relay[w].ev \in rows
    BY <1>4 DEF mark_published, InFlightIsCommitted, Idle
  <2>2. CASE relay[w].ev \in Pending
    <3>1. /\ published' = published \cup {relay[w].ev}
          /\ LeaveDue({relay[w].ev})
      BY <1>4, <2>2 DEF mark_published
    <3>2. /\ published' \subseteq rows
          /\ due' \subseteq rows \ (published' \cup quarantined)
          /\ older' \subseteq due' \X due'
      BY <2>1, <3>1 DEF TypeOK, LeaveDue
    <3>3. QED
      BY <1>4, <3>2 DEF mark_published, TypeOK, InFlightIsCommitted, streamVars,
           consumerVars, boundVars
  <2>3. CASE relay[w].ev \notin Pending
    BY <1>4, <2>3 DEF mark_published, TypeOK, InFlightIsCommitted, streamVars,
         consumerVars, boundVars
  <2>4. QED
    BY <2>2, <2>3
<1>5. CASE mark_failed(w)
  <2>1. relay[w].ev \in rows
    BY <1>5 DEF mark_failed, InFlightIsCommitted, Idle
  <2> DEFINE quarantines == /\ relay[w].attempt >= MaxAttempts
                            /\ relay[w].ev \notin published
             reschedules == /\ relay[w].attempt < MaxAttempts
                            /\ relay[w].ev \in Pending
  <2>2. /\ quarantined' = IF quarantines THEN quarantined \cup {relay[w].ev}
                                         ELSE quarantined
        /\ IF quarantines \/ reschedules THEN LeaveDue({relay[w].ev})
                                         ELSE UNCHANGED <<due, older>>
    BY <1>5 DEF mark_failed
  <2>3. /\ quarantined' \subseteq rows
        /\ due' \subseteq rows \ (published \cup quarantined')
        /\ older' \subseteq due' \X due'
    <3>1. CASE quarantines \/ reschedules
      BY <2>1, <2>2, <3>1, LeaveDueType DEF TypeOK
    <3>2. CASE ~(quarantines \/ reschedules)
      BY <2>2, <3>2 DEF TypeOK
    <3>3. QED
      BY <3>1, <3>2
  <2>4. QED
    BY <1>5, <2>3 DEF mark_failed, TypeOK, InFlightIsCommitted, streamVars,
         consumerVars, boundVars
<1>6. CASE MarkFault(w)
  BY <1>6 DEF MarkFault, TypeOK, InFlightIsCommitted, tableVars, streamVars,
       consumerVars
<1>7. CASE RelayCrash(w)
  BY <1>7 DEF RelayCrash, TypeOK, InFlightIsCommitted, tableVars, streamVars,
       consumerVars
<1>8. QED
  BY <1>1, <1>2, <1>3, <1>4, <1>5, <1>6, <1>7 DEF relay_loop

LEMMA TypeConsumer ==
    ASSUME TypeInv, NEW c \in Consumers,
           receipt_consumer_loop(c) \/ ConsumerFault(c)
    PROVE  TypeInv'
<1> USE OutboxAssumption DEF TypeInv
<1>1. CASE Receive(c)
  <2>1. PICK e \in Events : \E k \in 1..copies[e] :
          consumer' = [consumer EXCEPT ![c] =
                          [pc |-> "got", ev |-> e, copy |-> k]]
    BY <1>1 DEF Receive
  <2>2. consumer' \in [Consumers -> {Idle} \cup Messages]
    BY <2>1 DEF Messages, TypeOK
  <2>3. QED
    BY <1>1, <2>2 DEF Receive, TypeOK, InFlightIsCommitted, tableVars, relayVars,
         streamVars, boundVars
<1>2. CASE record_consumed_once(c)
  <2>1. consumer[c] \in Messages
    BY <1>2 DEF record_consumed_once, TypeOK, Idle
  <2>2. /\ consumer' \in [Consumers -> {Idle} \cup Messages]
        /\ consumer[c].ev \in Events
    BY <1>2, <2>1 DEF record_consumed_once, Messages, TypeOK
  <2>3. QED
    BY <1>2, <2>2 DEF record_consumed_once, TypeOK, InFlightIsCommitted, tableVars,
         relayVars, streamVars, boundVars
<1>3. CASE Ack(c)
  <2>1. consumer[c].ev \in Events /\ consumer[c].copy \in Nat
    BY <1>3 DEF Ack, TypeOK, Idle, Messages
  <2>2. QED
    BY <1>3, <2>1 DEF Ack, TypeOK, InFlightIsCommitted, tableVars, relayVars,
         streamVars, boundVars
<1>4. CASE ConsumerFault(c)
  BY <1>4 DEF ConsumerFault, TypeOK, InFlightIsCommitted, tableVars, relayVars,
       streamVars
<1>5. QED
  BY <1>1, <1>2, <1>3, <1>4 DEF receipt_consumer_loop

LEMMA TypeStep == TypeInv /\ [Next]_vars => TypeInv'
<1> SUFFICES ASSUME TypeInv, [Next]_vars PROVE TypeInv'
  OBVIOUS
<1>1. CASE Next
  BY <1>1, TypeTable, TypeRelay, TypeConsumer DEF Next
<1>2. CASE UNCHANGED vars
  BY <1>2 DEF TypeInv, TypeOK, InFlightIsCommitted, Pending, vars, tableVars,
       relayVars, streamVars, consumerVars, boundVars
<1>3. QED
  BY <1>1, <1>2

\* Every reachable state of the event chain is well typed: due rows are pending
\* rows, and relays, consumers and the network hold only well-formed claims and
\* messages of committed rows.
THEOREM OutboxTypeCorrect == Spec => [](TypeOK /\ InFlightIsCommitted)
<1>1. Spec => []TypeInv
  BY TypeInit, TypeStep, PTL DEF Spec
<1>2. QED
  BY <1>1, PTL DEF TypeInv

-----------------------------------------------------------------------------
(* The stream before the table, the receipt before the acknowledgement *)

StreamInv == PublishedIsStored /\ ReceiptsAreCommitted /\ AnswersAreStored

ReceiptInv == AckedHasReceipt /\ RecordedHasReceipt

\* Steps that leave the stream and what is known about it alone.
LEMMA StreamUntouched ==
    ASSUME TypeInv, StreamInv, rows \subseteq rows', copies' = copies,
           window' \subseteq window, published' = published, receipts' = receipts,
           \A w \in Relays : relay'[w] = relay[w] \/ relay'[w].pc # "ok",
           \A c \in Consumers : consumer'[c] = consumer[c] \/ consumer'[c] = Idle
    PROVE  StreamInv'
  BY DEF StreamInv, PublishedIsStored, ReceiptsAreCommitted, AnswersAreStored,
       Stored, Idle

LEMMA StreamStep == TypeInv /\ StreamInv /\ [Next]_vars => StreamInv'
<1> SUFFICES ASSUME TypeInv, StreamInv, [Next]_vars PROVE StreamInv'
  OBVIOUS
<1>1. ASSUME NEW e \in Events, TableStep(e) PROVE StreamInv'
  <2>1. CASE CommitWrite(e) \/ Elapse(e) \/ requeue_quarantined(e) \/ WindowEnds(e)
    BY <2>1, StreamUntouched DEF CommitWrite, Elapse, requeue_quarantined,
         WindowEnds, tableVars, relayVars, streamVars, consumerVars
  <2>2. CASE LateStore(e)
    <3>1. e \in rows /\ Store(e)
      BY <2>2 DEF LateStore, TypeInv, InFlightIsCommitted
    <3>2. Stored' = Stored \cup {e} /\ window' \subseteq Stored'
      BY <3>1, StoreType DEF TypeInv, TypeOK, StreamInv, AnswersAreStored
    <3>3. QED
      BY <2>2, <3>1, <3>2 DEF LateStore, StreamInv, PublishedIsStored,
           ReceiptsAreCommitted, AnswersAreStored, tableVars, relayVars,
           consumerVars
  <2>3. QED
    BY <1>1, <2>1, <2>2 DEF TableStep
<1>2. ASSUME NEW w \in Relays, relay_loop(w) \/ MarkFault(w) \/ RelayCrash(w)
      PROVE  StreamInv'
  <2>1. CASE claim_pending(w) \/ PublishErr(w)
    BY <2>1, StreamUntouched DEF claim_pending, PublishErr, Answer, TypeInv, TypeOK,
         tableVars, streamVars, consumerVars
  <2>2. CASE mark_failed(w) \/ MarkFault(w) \/ RelayCrash(w)
    BY <2>2, StreamUntouched DEF mark_failed, MarkFault, RelayCrash, Idle, TypeInv,
         TypeOK, tableVars, streamVars, consumerVars
  <2>3. CASE PublishOk(w)
    <3>1. PICK c \in batch[w] : Store(c.ev) /\ Answer(w, c, "ok")
      BY <2>3 DEF PublishOk
    <3>2. c.ev \in rows /\ c.ev \in Events
      BY DEF TypeInv, TypeOK, InFlightIsCommitted
    <3>3. Stored' = Stored \cup {c.ev} /\ window' \subseteq Stored'
      BY <3>1, <3>2, StoreType DEF TypeInv, TypeOK, StreamInv, AnswersAreStored
    <3>4. \A v \in Relays : relay'[v].pc = "ok" => relay'[v].ev \in Stored'
      BY <3>1, <3>3 DEF Answer, TypeInv, TypeOK, StreamInv, AnswersAreStored
    <3>5. QED
      BY <2>3, <3>2, <3>3, <3>4 DEF PublishOk, StreamInv, PublishedIsStored,
           ReceiptsAreCommitted, AnswersAreStored, tableVars, consumerVars
  <2>4. CASE mark_published(w)
    <3>1. relay[w].ev \in Stored
      BY <2>4 DEF mark_published, StreamInv, AnswersAreStored
    <3>2. published' \subseteq Stored
      BY <2>4, <3>1 DEF mark_published, StreamInv, PublishedIsStored
    <3>3. QED
      BY <2>4, <3>2 DEF mark_published, StreamInv, PublishedIsStored,
           ReceiptsAreCommitted, AnswersAreStored, Stored, Idle, TypeInv, TypeOK,
           streamVars, consumerVars
  <2>5. QED
    BY <1>2, <2>1, <2>2, <2>3, <2>4 DEF relay_loop
<1>3. ASSUME NEW c \in Consumers, receipt_consumer_loop(c) \/ ConsumerFault(c)
      PROVE  StreamInv'
  <2>1. CASE Receive(c)
    BY <2>1 DEF Receive, StreamInv, PublishedIsStored, ReceiptsAreCommitted,
         AnswersAreStored, Stored, TypeInv, TypeOK, tableVars, relayVars, streamVars
  <2>2. CASE record_consumed_once(c)
    <3>1. consumer[c] \in Messages /\ consumer[c].ev \in Stored
      BY <2>2 DEF record_consumed_once, TypeInv, TypeOK, StreamInv,
           AnswersAreStored, Idle
    <3>2. QED
      BY <2>2, <3>1 DEF record_consumed_once, StreamInv, PublishedIsStored,
           ReceiptsAreCommitted, AnswersAreStored, Stored, Messages, TypeInv, TypeOK,
           tableVars, relayVars, streamVars
  <2>3. CASE Ack(c) \/ ConsumerFault(c)
    BY <2>3, StreamUntouched DEF Ack, ConsumerFault, TypeInv, TypeOK, tableVars,
         relayVars, streamVars
  <2>4. QED
    BY <1>3, <2>1, <2>2, <2>3 DEF receipt_consumer_loop
<1>4. CASE UNCHANGED vars
  BY <1>4, StreamUntouched DEF vars, tableVars, relayVars, streamVars, consumerVars
<1>5. QED
  BY <1>1, <1>2, <1>3, <1>4 DEF Next

LEMMA ReceiptStep == TypeInv /\ ReceiptInv /\ [Next]_vars => ReceiptInv'
<1> SUFFICES ASSUME TypeInv, ReceiptInv, [Next]_vars PROVE ReceiptInv'
  OBVIOUS
<1> USE DEF ReceiptInv, AckedHasReceipt, RecordedHasReceipt
<1>1. CASE UNCHANGED consumerVars
  BY <1>1 DEF consumerVars
<1>2. ASSUME NEW c \in Consumers, receipt_consumer_loop(c) \/ ConsumerFault(c)
      PROVE  ReceiptInv'
  <2>1. CASE Receive(c)
    BY <2>1 DEF Receive, TypeInv, TypeOK
  <2>2. CASE record_consumed_once(c)
    <3>1. consumer[c] \in Messages
      BY <2>2 DEF record_consumed_once, TypeInv, TypeOK, Idle
    <3>2. QED
      BY <2>2, <3>1 DEF record_consumed_once, Messages, TypeInv, TypeOK
  <2>3. CASE Ack(c)
    BY <2>3 DEF Ack, Idle, TypeInv, TypeOK
  <2>4. CASE ConsumerFault(c)
    BY <2>4 DEF ConsumerFault, Idle, TypeInv, TypeOK
  <2>5. QED
    BY <1>2, <2>1, <2>2, <2>3, <2>4 DEF receipt_consumer_loop
<1>3. ASSUME NEW e \in Events, TableStep(e) PROVE UNCHANGED consumerVars
  BY <1>3 DEF TableStep, CommitWrite, Elapse, requeue_quarantined, WindowEnds,
       LateStore
<1>4. ASSUME NEW w \in Relays, relay_loop(w) \/ MarkFault(w) \/ RelayCrash(w)
      PROVE  UNCHANGED consumerVars
  BY <1>4 DEF relay_loop, claim_pending, PublishOk, PublishErr, mark_published,
       mark_failed, MarkFault, RelayCrash
<1>5. CASE UNCHANGED vars
  BY <1>1, <1>5 DEF vars
<1>6. QED
  BY <1>1, <1>2, <1>3, <1>4, <1>5 DEF Next

-----------------------------------------------------------------------------
(* The life of a row *)

\* How one step may change the marks of a row.  Everything about the life of an
\* event follows from it: publication needs a pending row, quarantine an
\* unpublished one, and only a requeue undoes a mark.
RowStep ==
    /\ rows \subseteq rows'
    /\ published \subseteq published'
    /\ published' \ published \subseteq Pending
    /\ quarantined' \ quarantined \subseteq rows \ published'
    /\ quarantined \ quarantined' \subseteq rows \ published'

LEMMA RowsMove == TypeInv /\ [Next]_vars => RowStep
<1> SUFFICES ASSUME TypeInv, [Next]_vars PROVE RowStep
  OBVIOUS
<1> USE DEF RowStep
<1>1. CASE UNCHANGED <<rows, published, quarantined>>
  BY <1>1
<1>2. ASSUME NEW e \in Events, TableStep(e) PROVE RowStep
  BY <1>2 DEF TableStep, CommitWrite, Elapse, requeue_quarantined, WindowEnds,
       LateStore, tableVars, TypeInv, TypeOK
<1>3. ASSUME NEW w \in Relays, relay_loop(w) \/ MarkFault(w) \/ RelayCrash(w)
      PROVE  RowStep
  <2>1. CASE mark_published(w)
    BY <2>1 DEF mark_published
  <2>2. CASE mark_failed(w)
    BY <2>2 DEF mark_failed, TypeInv, InFlightIsCommitted, Idle
  <2>3. QED
    BY <1>1, <1>3, <2>1, <2>2 DEF relay_loop, claim_pending, PublishOk, PublishErr,
         MarkFault, RelayCrash, tableVars
<1>4. ASSUME NEW c \in Consumers, receipt_consumer_loop(c) \/ ConsumerFault(c)
      PROVE  RowStep
  BY <1>1, <1>4 DEF receipt_consumer_loop, Receive, record_consumed_once, Ack,
       ConsumerFault, tableVars
<1>5. CASE UNCHANGED vars
  BY <1>1, <1>5 DEF vars, tableVars
<1>6. QED
  BY <1>2, <1>3, <1>4, <1>5 DEF Next

LEMMA NotBothStep ==
    TypeInv /\ NotPublishedAndQuarantined /\ [Next]_vars
        => NotPublishedAndQuarantined'
  <1>1. ASSUME TypeInv, NotPublishedAndQuarantined, [Next]_vars, NEW e,
               e \in published', e \in quarantined'
        PROVE  FALSE
    <2>1. RowStep
      BY <1>1, RowsMove
    <2>2. CASE e \in published
      BY <1>1, <2>1, <2>2 DEF RowStep, NotPublishedAndQuarantined
    <2>3. CASE e \notin published
      BY <1>1, <2>1, <2>3 DEF RowStep, Pending
    <2>4. QED
      BY <2>2, <2>3
  <1>2. QED
    BY <1>1 DEF NotPublishedAndQuarantined

LEMMA OutboxSafeInit ==
    Init => StreamInv /\ ReceiptInv /\ NotPublishedAndQuarantined
  BY DEF Init, StreamInv, PublishedIsStored, ReceiptsAreCommitted, AnswersAreStored,
       Stored, ReceiptInv, AckedHasReceipt, RecordedHasReceipt,
       NotPublishedAndQuarantined, Idle

\* The safety of the chain: the CHECK of domain_outbox is never tripped, a
\* published row is in the stream, an acknowledged message has its receipt, and
\* receipts exist only for stored events of committed writes.
THEOREM OutboxSafe ==
    Spec => [](/\ NotPublishedAndQuarantined
               /\ PublishedIsStored
               /\ AckedHasReceipt
               /\ ReceiptsAreCommitted)
<1> DEFINE Inv == TypeInv /\ StreamInv /\ ReceiptInv /\ NotPublishedAndQuarantined
<1>1. Init => Inv
  BY TypeInit, OutboxSafeInit
<1>2. Inv /\ [Next]_vars => Inv'
  BY TypeStep, StreamStep, ReceiptStep, NotBothStep
<1>3. Inv => /\ NotPublishedAndQuarantined
             /\ PublishedIsStored
             /\ AckedHasReceipt
             /\ ReceiptsAreCommitted
  BY DEF StreamInv, ReceiptInv
<1>4. QED
  BY <1>1, <1>2, <1>3, PTL DEF Spec

\* OutboxIsSound, the conjunction that the run checks, holds of every instance.
THEOREM OutboxSound == Spec => []OutboxIsSound
<1>1. TypeOK /\ NotPublishedAndQuarantined /\ AckedHasReceipt /\ ReceiptsAreCommitted
        => OutboxIsSound
  BY DEF OutboxIsSound
<1>2. QED
  BY <1>1, OutboxTypeCorrect, OutboxSafe, PTL

\* "Published events are never reopened": no step unpublishes a row, makes it
\* claimable again or counts another attempt on it.
THEOREM OutboxPublishedIsFinal == Spec => PublishedIsFinal
<1>1. TypeInv /\ TypeInv' /\ [Next]_vars =>
        [\A e \in published : /\ e \in published'
                              /\ e \notin due'
                              /\ attempts'[e] = attempts[e]]_vars
  <2> SUFFICES ASSUME TypeInv, TypeInv', [Next]_vars, NEW e \in published
               PROVE  /\ e \in published'
                      /\ e \notin due'
                      /\ attempts'[e] = attempts[e]
    OBVIOUS
  <2>1. e \in published'
    BY RowsMove DEF RowStep
  <2>2. e \notin due'
    BY <2>1 DEF TypeInv, TypeOK
  <2>3. e \in Events /\ e \notin due
    BY DEF TypeInv, TypeOK
  <2>4. attempts'[e] = attempts[e]
    <3>1. CASE UNCHANGED attempts
      BY <3>1
    <3>2. ASSUME NEW x \in Events, TableStep(x) PROVE attempts'[e] = attempts[e]
      BY <2>3, <3>2 DEF TableStep, CommitWrite, Elapse, requeue_quarantined,
           WindowEnds, LateStore, tableVars, TypeInv, TypeOK
    <3>3. ASSUME NEW w \in Relays, relay_loop(w) \/ MarkFault(w) \/ RelayCrash(w)
          PROVE  attempts'[e] = attempts[e]
      BY <2>3, <3>3 DEF relay_loop, claim_pending, PublishOk, PublishErr,
           mark_published, mark_failed, MarkFault, RelayCrash, tableVars
    <3>4. ASSUME NEW c \in Consumers, receipt_consumer_loop(c) \/ ConsumerFault(c)
          PROVE  UNCHANGED attempts
      BY <3>4 DEF receipt_consumer_loop, Receive, record_consumed_once, Ack,
           ConsumerFault, tableVars
    <3>5. CASE UNCHANGED vars
      BY <3>5 DEF vars, tableVars
    <3>6. QED
      BY <3>1, <3>2, <3>3, <3>4, <3>5 DEF Next
  <2>5. QED
    BY <2>1, <2>2, <2>4
<1>2. Spec => [](TypeInv)
  BY TypeInit, TypeStep, PTL DEF Spec
<1>3. QED
  BY <1>1, <1>2, PTL DEF Spec, PublishedIsFinal

-----------------------------------------------------------------------------
(* Attempts *)

AttemptInv == QuarantineIsEarned /\ AttemptsAreCounted

\* Steps after which no counter is smaller and nothing new is remembered.
LEMMA AttemptsUntouched ==
    ASSUME TypeInv, AttemptInv, requeues' = requeues, attempts' = attempts,
           quarantined' \subseteq quarantined,
           \A w \in Relays : batch'[w] \subseteq batch[w],
           \A w \in Relays : relay'[w] = relay[w] \/ relay'[w] = Idle
    PROVE  AttemptInv'
  BY DEF AttemptInv, QuarantineIsEarned, AttemptsAreCounted

LEMMA AttemptStep == TypeInv /\ AttemptInv /\ [Next]_vars => AttemptInv'
<1> SUFFICES ASSUME TypeInv, AttemptInv, [Next]_vars PROVE AttemptInv'
  OBVIOUS
<1> USE DEF AttemptInv
<1>1. ASSUME NEW e \in Events, TableStep(e) PROVE AttemptInv'
  <2>1. CASE requeue_quarantined(e)
    <3>1. requeues' # 0
      BY <2>1 DEF requeue_quarantined, TypeInv, TypeOK
    <3>2. QED
      BY <3>1 DEF QuarantineIsEarned, AttemptsAreCounted
  <2>2. QED
    BY <1>1, <2>1, AttemptsUntouched DEF TableStep, CommitWrite, Elapse, WindowEnds,
         LateStore, tableVars, relayVars, boundVars
<1>2. ASSUME NEW w \in Relays, relay_loop(w) \/ MarkFault(w) \/ RelayCrash(w)
      PROVE  AttemptInv'
  <2>1. CASE claim_pending(w)
    <3>1. PICK S \in SUBSET due :
            /\ attempts' = [e \in Events |-> IF e \in S THEN attempts[e] + 1
                                                        ELSE attempts[e]]
            /\ batch' = [batch EXCEPT ![w] =
                  {[ev |-> e, attempt |-> attempts[e] + 1] : e \in S}]
      BY <2>1 DEF claim_pending
    <3>2. \A e \in Events : /\ attempts[e] \in Nat
                            /\ attempts'[e] \in Nat
                            /\ attempts[e] <= attempts'[e]
      BY <3>1 DEF TypeInv, TypeOK
    <3>3. requeues' = requeues /\ relay' = relay /\ quarantined' = quarantined
      BY <2>1 DEF claim_pending, boundVars
    <3>4. QuarantineIsEarned'
      BY <3>2, <3>3, OutboxAssumption DEF QuarantineIsEarned, TypeInv, TypeOK
    <3>5. ASSUME requeues = 0, NEW v \in Relays, NEW c \in batch'[v]
          PROVE  c.attempt <= attempts'[c.ev]
      <4>1. CASE v = w
        BY <3>1, <3>5, <4>1 DEF TypeInv, TypeOK
      <4>2. CASE v # w
        <5>1. c \in batch[v] /\ c \in Claims
          BY <3>1, <3>5, <4>2 DEF TypeInv, TypeOK
        <5>2. QED
          BY <3>2, <3>5, <5>1 DEF AttemptsAreCounted, Claims
      <4>3. QED
        BY <4>1, <4>2
    <3>6. ASSUME requeues = 0, NEW v \in Relays, relay[v] # Idle
          PROVE  relay[v].attempt <= attempts'[relay[v].ev]
      <4>1. relay[v] \in Answers
        BY <3>6 DEF TypeInv, TypeOK
      <4>2. QED
        BY <3>2, <3>6, <4>1 DEF AttemptsAreCounted, Answers
    <3>7. QED
      BY <3>3, <3>4, <3>5, <3>6 DEF AttemptsAreCounted
  <2>2. ASSUME NEW c \in batch[w], NEW o, Answer(w, c, o),
               attempts' = attempts, requeues' = requeues,
               quarantined' = quarantined
        PROVE  AttemptInv'
    BY <2>2 DEF Answer, AttemptsAreCounted, QuarantineIsEarned, TypeInv, TypeOK
  <2>3. CASE PublishOk(w) \/ PublishErr(w)
    BY <2>2, <2>3 DEF PublishOk, PublishErr, tableVars, boundVars
  <2>4. CASE mark_failed(w)
    <3>1. relay[w] # Idle /\ relay[w] \in Answers
      BY <2>4 DEF mark_failed, TypeInv, TypeOK, Idle
    <3>2. /\ attempts' = attempts /\ requeues' = requeues /\ batch' = batch
          /\ relay' = [relay EXCEPT ![w] = Idle]
      BY <2>4 DEF mark_failed, boundVars
    <3>3. AttemptsAreCounted'
      BY <3>2 DEF AttemptsAreCounted, TypeInv, TypeOK
    <3>4. \A e \in quarantined' : \/ e \in quarantined
                                   \/ /\ e = relay[w].ev
                                      /\ relay[w].attempt >= MaxAttempts
      BY <2>4 DEF mark_failed
    <3>5. requeues = 0 =>
            relay[w].attempt <= attempts[relay[w].ev] /\ relay[w].ev \in Events
      BY <3>1 DEF AttemptsAreCounted, Answers
    <3>6. attempts \in [Events -> Nat] /\ relay[w].attempt \in Nat
      BY <3>1 DEF TypeInv, TypeOK, Answers
    <3>7. QuarantineIsEarned'
      BY <3>2, <3>4, <3>5, <3>6, OutboxAssumption DEF QuarantineIsEarned
    <3>8. QED
      BY <3>3, <3>7
  <2>5. CASE mark_published(w) \/ MarkFault(w) \/ RelayCrash(w)
    BY <2>5, AttemptsUntouched DEF mark_published, MarkFault, RelayCrash, tableVars,
         boundVars, TypeInv, TypeOK
  <2>6. QED
    BY <1>2, <2>1, <2>3, <2>4, <2>5 DEF relay_loop
<1>3. ASSUME NEW c \in Consumers, receipt_consumer_loop(c) \/ ConsumerFault(c)
      PROVE  AttemptInv'
  BY <1>3, AttemptsUntouched DEF receipt_consumer_loop, Receive,
       record_consumed_once, Ack, ConsumerFault, tableVars, relayVars, boundVars
<1>4. CASE UNCHANGED vars
  BY <1>4, AttemptsUntouched DEF vars, tableVars, relayVars, boundVars
<1>5. QED
  BY <1>1, <1>2, <1>3, <1>4 DEF Next

\* As long as no operator has requeued anything, a row is in quarantine only
\* after MaxAttempts claims, although mark_failed trusts the attempt number of a
\* claim whose lease may have expired.
THEOREM OutboxQuarantineIsEarned == Spec => []QuarantineIsEarned
<1>1. Init => TypeInv /\ AttemptInv
  BY TypeInit DEF Init, AttemptInv, QuarantineIsEarned, AttemptsAreCounted
<1>2. (TypeInv /\ AttemptInv) /\ [Next]_vars => (TypeInv /\ AttemptInv)'
  BY TypeStep, AttemptStep
<1>3. AttemptInv => QuarantineIsEarned
  BY DEF AttemptInv
<1>4. QED
  BY <1>1, <1>2, <1>3, PTL DEF Spec

-----------------------------------------------------------------------------
(* DomainOutbox implements EventChain *)

LEMMA ChainInit == Init => Chain!Init
  BY DEF Init, Chain!Init, Status, Stored, Pending

LEMMA ChainStep == TypeInv /\ StreamInv /\ [Next]_vars
                    => [Chain!Next]_(Chain!chainVars)
<1> SUFFICES ASSUME TypeInv, StreamInv, [Next]_vars
             PROVE  Chain!Next \/ UNCHANGED Chain!chainVars
  OBVIOUS
<1>0. TypeOK
  BY DEF TypeInv
<1>1. CASE UNCHANGED <<rows, published, quarantined, copies, receipts>>
  BY <1>1 DEF Chain!chainVars, Status, Pending, Stored
<1>2. ASSUME NEW e \in Events, Store(e), e \in rows,
             UNCHANGED <<rows, published, quarantined, receipts>>
      PROVE  Chain!Next
  <2>1. Stored' = Stored \cup {e}
    BY <1>0, <1>2, StoreType DEF TypeOK, StreamInv, AnswersAreStored
  <2>2. Status(e) # "absent" /\ \A x \in Events : Status(x)' = Status(x)
    BY <1>2 DEF Status, Pending
  <2>3. Chain!Store(e)
    BY <1>2, <2>1, <2>2 DEF Chain!Store
  <2>4. QED
    BY <2>3 DEF Chain!Next
<1>3. ASSUME NEW e \in Events, TableStep(e)
      PROVE  Chain!Next \/ UNCHANGED Chain!chainVars
  <2>1. CASE CommitWrite(e)
    <3>1. /\ e \notin rows /\ rows' = rows \cup {e}
          /\ UNCHANGED <<published, quarantined, copies, receipts>>
      BY <2>1 DEF CommitWrite, streamVars, consumerVars
    <3>2. Status(e) = "absent" /\ Status(e)' = "pending"
      BY <1>0, <3>1 DEF Status, Pending, TypeOK
    <3>3. \A x \in Events \ {e} : Status(x)' = Status(x)
      BY <3>1 DEF Status, Pending
    <3>4. Chain!Commit(e)
      BY <3>1, <3>2, <3>3 DEF Chain!Commit, Chain!Move, Stored
    <3>5. QED
      BY <3>4 DEF Chain!Next
  <2>2. CASE requeue_quarantined(e)
    <3>1. /\ e \in quarantined \ published /\ quarantined' = quarantined \ {e}
          /\ UNCHANGED <<rows, published, copies, receipts>>
      BY <2>2 DEF requeue_quarantined, streamVars, consumerVars
    <3>2. Status(e) = "quarantined" /\ Status(e)' = "pending"
      BY <1>0, <3>1 DEF Status, Pending, TypeOK
    <3>3. \A x \in Events \ {e} : Status(x)' = Status(x)
      BY <3>1 DEF Status, Pending
    <3>4. Chain!Requeue(e)
      BY <3>1, <3>2, <3>3 DEF Chain!Requeue, Chain!Move, Stored
    <3>5. QED
      BY <3>4 DEF Chain!Next
  <2>3. CASE LateStore(e)
    BY <1>2, <2>3 DEF LateStore, TypeInv, InFlightIsCommitted, tableVars,
         consumerVars
  <2>4. QED
    BY <1>1, <1>3, <2>1, <2>2, <2>3 DEF TableStep, Elapse, WindowEnds, tableVars,
         streamVars, consumerVars
<1>4. ASSUME NEW w \in Relays, relay_loop(w) \/ MarkFault(w) \/ RelayCrash(w)
      PROVE  Chain!Next \/ UNCHANGED Chain!chainVars
  <2>0. PICK e : e = relay[w].ev
    OBVIOUS
  <2>1. CASE PublishOk(w)
    <3>1. PICK c \in batch[w] : Store(c.ev)
      BY <2>1 DEF PublishOk
    <3>2. c.ev \in Events /\ c.ev \in rows
      BY DEF TypeInv, TypeOK, InFlightIsCommitted
    <3>3. QED
      BY <1>2, <2>1, <3>1, <3>2 DEF PublishOk, tableVars, consumerVars
  <2>2. CASE mark_published(w)
    <3>1. CASE e \in Pending
      <4>1. /\ published' = published \cup {e}
            /\ UNCHANGED <<rows, quarantined, copies, receipts>>
        BY <2>0, <2>2, <3>1 DEF mark_published, streamVars, consumerVars
      <4>2. e \in Events /\ e \in Stored
        BY <1>0, <2>0, <2>2, <3>1 DEF mark_published, TypeOK, Pending, StreamInv,
             AnswersAreStored
      <4>3. Status(e) = "pending" /\ Status(e)' = "published"
        BY <3>1, <4>1 DEF Status, Pending
      <4>4. \A x \in Events \ {e} : Status(x)' = Status(x)
        BY <4>1 DEF Status, Pending
      <4>5. Chain!Publish(e)
        BY <4>1, <4>2, <4>3, <4>4 DEF Chain!Publish, Chain!Move, Stored
      <4>6. QED
        BY <4>2, <4>5 DEF Chain!Next, Chain!Settle
    <3>2. CASE e \notin Pending
      BY <1>1, <2>0, <2>2, <3>2 DEF mark_published, streamVars, consumerVars
    <3>3. QED
      BY <3>1, <3>2
  <2>3. CASE mark_failed(w)
    <3>1. UNCHANGED <<rows, published, copies, receipts>>
      BY <2>3 DEF mark_failed, streamVars, consumerVars
    <3>2. e \in rows /\ e \in Events
      BY <1>0, <2>0, <2>3 DEF mark_failed, TypeInv, TypeOK, InFlightIsCommitted, Idle
    <3>3. \/ quarantined' = quarantined
          \/ quarantined' = quarantined \cup {e} /\ e \notin published
      BY <2>0, <2>3 DEF mark_failed
    <3>4. CASE quarantined' = quarantined
      BY <1>1, <3>1, <3>4
    <3>5. CASE quarantined' # quarantined
      <4>1. /\ e \in Pending /\ quarantined' = quarantined \cup {e}
            /\ e \notin published
        BY <3>2, <3>3, <3>5 DEF Pending
      <4>2. Status(e) = "pending" /\ Status(e)' = "quarantined"
        BY <3>1, <4>1 DEF Status, Pending
      <4>3. \A x \in Events \ {e} : Status(x)' = Status(x)
        BY <3>1, <4>1 DEF Status, Pending
      <4>4. Chain!Quarantine(e)
        BY <3>1, <3>2, <4>2, <4>3 DEF Chain!Quarantine, Chain!Move, Stored
      <4>5. QED
        BY <3>2, <4>4 DEF Chain!Next, Chain!Settle
    <3>6. QED
      BY <3>4, <3>5
  <2>4. QED
    BY <1>1, <1>4, <2>1, <2>2, <2>3 DEF relay_loop, claim_pending, PublishErr,
         MarkFault, RelayCrash, tableVars, streamVars, consumerVars
<1>5. ASSUME NEW c \in Consumers, receipt_consumer_loop(c) \/ ConsumerFault(c)
      PROVE  Chain!Next \/ UNCHANGED Chain!chainVars
  <2>1. CASE record_consumed_once(c)
    <3>1. consumer[c].ev \in Stored /\ consumer[c].ev \in Events
      BY <1>0, <2>1 DEF record_consumed_once, StreamInv, AnswersAreStored, Idle,
           Stored
    <3>2. /\ receipts' = receipts \cup {consumer[c].ev}
          /\ UNCHANGED <<rows, published, quarantined, copies>>
      BY <2>1 DEF record_consumed_once, tableVars, streamVars
    <3>3. CASE consumer[c].ev \in receipts
      BY <1>1, <3>2, <3>3
    <3>4. CASE consumer[c].ev \notin receipts
      <4>1. Chain!Receive(consumer[c].ev)
        BY <3>1, <3>2, <3>4 DEF Chain!Receive, Status, Pending, Stored
      <4>2. QED
        BY <3>1, <4>1 DEF Chain!Next
    <3>5. QED
      BY <3>3, <3>4
  <2>2. QED
    BY <1>1, <1>5, <2>1 DEF receipt_consumer_loop, Receive, Ack, ConsumerFault,
         tableVars, streamVars
<1>6. CASE UNCHANGED vars
  BY <1>1, <1>6 DEF vars, tableVars, streamVars, consumerVars
<1>7. QED
  BY <1>3, <1>4, <1>5, <1>6 DEF Next

\* Every behaviour of the table, the relays, the stream and the consumers is, for
\* the rest of the cell, a behaviour of EventChain (its safety part).
THEOREM OutboxImplementsEventChain == Spec => Chain!SafetySpec
<1>1. Init => TypeInv /\ StreamInv
  BY TypeInit, OutboxSafeInit
<1>2. (TypeInv /\ StreamInv) /\ [Next]_vars => (TypeInv /\ StreamInv)'
  BY TypeStep, StreamStep
<1>3. QED
  BY <1>1, <1>2, ChainInit, ChainStep, PTL DEF Spec, Chain!SafetySpec

=============================================================================
