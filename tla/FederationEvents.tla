-------------------------- MODULE FederationEvents --------------------------
(***************************************************************************)
(* What the sending and the receiving cell share: the events of the        *)
(* objects that one origin cell owns.  An event is the pair of its object  *)
(* and the version it creates; persist_local admits one event per version, *)
(* so the pair stands for the event id and its envelope.                   *)
(***************************************************************************)
EXTENDS Naturals

CONSTANTS
    Objects,     \* object addresses of the origin cell
    MaxVersion,  \* bound: versions of one object
    EventTypes,  \* EVENT_UPSERTED, EVENT_DELETED
    TypeOf,      \* the event type of each event
    ScopeOf      \* the immutable scope of each object

Events == Objects \X (1..MaxVersion)

ASSUME EventsAssumption ==
    /\ MaxVersion \in Nat \ {0}
    /\ TypeOf \in [Events -> EventTypes]
    /\ ScopeOf \in [Objects -> {"global", "neighbourhood"}]

\* The events of the object of e that e builds on.
Predecessors(e) == {<<e[1], u>> : u \in 1..(e[2] - 1)}

\* transition_rejection: what version an object may move to.  Origin, kind,
\* scope and audience cannot differ here: they belong to the object.
transition_allowed(current, e) == e[2] = current + 1

=============================================================================
