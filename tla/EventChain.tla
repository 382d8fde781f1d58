----------------------------- MODULE EventChain -----------------------------
(***************************************************************************)
(* What the event chain promises to the rest of the cell (ADR-0012): the   *)
(* life of a domain event, without relays, leases, attempts, duplicate     *)
(* messages or acknowledgements.  DomainOutbox implements it.              *)
(***************************************************************************)
CONSTANT Events

VARIABLES
    status,    \* life of the outbox row of each event
    stored,    \* events the stream has held
    received   \* events whose effect the consumer has recorded

chainVars == <<status, stored, received>>

Statuses == {"absent", "pending", "quarantined", "published"}

ChainTypeOK ==
    /\ status \in [Events -> Statuses]
    /\ stored \subseteq Events
    /\ received \subseteq Events

Init ==
    /\ status = [e \in Events |-> "absent"]
    /\ stored = {}
    /\ received = {}

Move(e, from, to) ==
    /\ status[e] = from
    /\ status' = [status EXCEPT ![e] = to]
    /\ UNCHANGED <<stored, received>>

\* The write and its event become visible in one step.
Commit(e) == Move(e, "absent", "pending")

\* Publication is recorded only for an event that is in the stream.
Publish(e) == e \in stored /\ Move(e, "pending", "published")

Quarantine(e) == Move(e, "pending", "quarantined")

\* The only way out of quarantine is an operator.
Requeue(e) == Move(e, "quarantined", "pending")

\* An event may reach the stream in any state but absent: also after its relay
\* saw an error and quarantined it.
Store(e) ==
    /\ status[e] # "absent"
    /\ stored' = stored \cup {e}
    /\ UNCHANGED <<status, received>>

\* Consumption takes effect once, and only for what was stored.
Receive(e) ==
    /\ e \in stored \ received
    /\ received' = received \cup {e}
    /\ UNCHANGED <<status, stored>>

Settle(e) == Publish(e) \/ Quarantine(e)

Next == \E e \in Events :
    Commit(e) \/ Settle(e) \/ Requeue(e) \/ Store(e) \/ Receive(e)

SafetySpec == Init /\ [][Next]_chainVars

\* No event stays pending for ever, none stays in the stream unreceived.
Spec ==
    /\ SafetySpec
    /\ \A e \in Events : WF_chainVars(Settle(e)) /\ WF_chainVars(Receive(e))

=============================================================================
