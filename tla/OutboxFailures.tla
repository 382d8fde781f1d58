--------------------------- MODULE OutboxFailures ---------------------------
(***************************************************************************)
(* DomainOutbox with a history variable that counts, for every event, the  *)
(* publish attempts that have failed since it was last queued.  The code   *)
(* keeps no such number: attempt_count counts claims.                      *)
(***************************************************************************)
EXTENDS DomainOutbox

VARIABLE failures

\* Relays that learn in this step that publishing e has failed.
FailingNow(e) ==
    {w \in Relays : /\ relay[w] = Idle
                    /\ relay'[w].pc = "err"
                    /\ relay'[w].ev = e}

CountFailures ==
    failures' = [e \in Events |->
        IF e \in quarantined \ quarantined' THEN 0
        ELSE failures[e] + Cardinality(FailingNow(e))]

FailureSpec ==
    /\ Init /\ failures = [e \in Events |-> 0]
    /\ [][Next /\ CountFailures]_<<vars, failures>>

\* docs/reports/domain-postgres-instance-coherence-decision.md says that relays
\* quarantine an event after ten failed attempts.
QuarantineAfterFailures ==
    \A e \in quarantined : failures[e] >= MaxAttempts

=============================================================================
