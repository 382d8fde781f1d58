--------------------------- MODULE FederationInbox ---------------------------
(***************************************************************************)
(* The receiving cell: FederationService::receive and the transaction      *)
(* PostgresFederationRepository::accept_verified (federation.rs).  The     *)
(* transaction holds the peer row, the event id and the object address     *)
(* locked, so it is one step.                                              *)
(***************************************************************************)
EXTENDS FederationEvents

CONSTANT InPolicies   \* peer policies the receiver's operator may install

ASSUME InPoliciesAssumption ==
    InPolicies \subseteq [known : BOOLEAN, blocked : BOOLEAN, key_active : BOOLEAN,
                          neighbourhood : BOOLEAN, types : SUBSET EventTypes]

VARIABLES
    inPeer,      \* relationship to the origin cell and its key
    replica,     \* object_version in federation_objects, 0 when there is none
    inbox,       \* federation_inbox and its receipts
    quarantine   \* events with a row in federation_quarantine

inboxVars == <<inPeer, replica, inbox, quarantine>>

Outcomes == {"applied", "duplicate", "rejected", "quarantined", "unavailable"}

InboxTypeOK ==
    /\ inPeer \in InPolicies
    /\ replica \in [Objects -> 0..MaxVersion]
    /\ inbox \subseteq Events
    /\ quarantine \subseteq Events

InboxInit ==
    /\ inPeer \in InPolicies
    /\ replica = [o \in Objects |-> 0]
    /\ inbox = {}
    /\ quarantine = {}

peer_policy_rejection(e) ==
    \/ inPeer.blocked
    \/ ~inPeer.key_active
    \/ TypeOf[e] \notin inPeer.types
    \/ ScopeOf[e[1]] = "neighbourhood" /\ ~inPeer.neighbourhood

\* quarantine_verified_in_tx keeps the event and trims the origin's older rows.
quarantine_verified_in_tx(e) ==
    \E kept \in SUBSET quarantine : quarantine' = kept \cup {e}

\* Mutant of accept_verified: any newer version is applied.
AcceptNewer(e, outcome) ==
    /\ UNCHANGED <<inPeer, quarantine>>
    /\ outcome = "applied"
    /\ e[2] > replica[e[1]]
    /\ replica' = [replica EXCEPT ![e[1]] = e[2]]
    /\ inbox' = inbox \cup {e}

\* Mutant of accept_verified: a quarantined event counts as a known receipt.
AcceptKnown(e, outcome) ==
    /\ UNCHANGED inPeer
    /\ \/ /\ e \in inbox \cup quarantine
          /\ outcome = "duplicate"
          /\ UNCHANGED <<replica, inbox, quarantine>>
       \/ /\ e \notin inbox \cup quarantine
          /\ peer_policy_rejection(e) \/ ~transition_allowed(replica[e[1]], e)
          /\ outcome = "quarantined"
          /\ quarantine_verified_in_tx(e)
          /\ UNCHANGED <<replica, inbox>>
       \/ /\ e \notin inbox \cup quarantine
          /\ ~peer_policy_rejection(e)
          /\ transition_allowed(replica[e[1]], e)
          /\ outcome = "applied"
          /\ replica' = [replica EXCEPT ![e[1]] = e[2]]
          /\ inbox' = inbox \cup {e}
          /\ UNCHANGED quarantine

\* One request of the origin cell and its answer.  "unavailable" stands for the
\* rate limits and for every error that is answered with 429 or 5xx.
accept_verified(e, outcome) ==
    /\ UNCHANGED inPeer
    /\ \/ /\ outcome = "unavailable"
          /\ UNCHANGED <<replica, inbox, quarantine>>
       \/ /\ ~inPeer.known
          /\ outcome = "rejected"
          /\ UNCHANGED <<replica, inbox, quarantine>>
       \/ /\ inPeer.known /\ peer_policy_rejection(e)
          /\ outcome = "quarantined"
          /\ \/ e \in inbox /\ UNCHANGED quarantine
             \/ e \notin inbox /\ quarantine_verified_in_tx(e)
          /\ UNCHANGED <<replica, inbox>>
       \/ /\ inPeer.known /\ ~peer_policy_rejection(e)
          /\ e \in inbox
          /\ outcome = "duplicate"
          /\ UNCHANGED <<replica, inbox, quarantine>>
       \/ /\ inPeer.known /\ ~peer_policy_rejection(e)
          /\ e \notin inbox
          /\ ~transition_allowed(replica[e[1]], e)
          /\ outcome = "quarantined"
          /\ quarantine_verified_in_tx(e)
          /\ UNCHANGED <<replica, inbox>>
       \/ /\ inPeer.known /\ ~peer_policy_rejection(e)
          /\ e \notin inbox
          /\ transition_allowed(replica[e[1]], e)
          /\ outcome = "applied"
          /\ replica' = [replica EXCEPT ![e[1]] = e[2]]
          /\ inbox' = inbox \cup {e}
          /\ UNCHANGED quarantine

\* install_peer on the receiving side: a start with a new configuration replaces
\* the policy.  Nothing deletes a relationship.
install_peer_in(p) ==
    /\ p.known
    /\ p # inPeer
    /\ inPeer' = p
    /\ UNCHANGED <<replica, inbox, quarantine>>

=============================================================================
