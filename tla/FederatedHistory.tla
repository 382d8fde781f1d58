-------------------------- MODULE FederatedHistory --------------------------
(***************************************************************************)
(* What federation promises about the objects of one cell: a remote cell   *)
(* holds a prefix of each object's history, it moves through that history  *)
(* one version at a time, and a confirmation the origin has recorded is    *)
(* about a version the remote cell holds and is never taken back.          *)
(***************************************************************************)
EXTENDS Naturals

CONSTANTS
    Objects,    \* objects of the origin cell
    MaxVersion  \* bound: versions of one object

VARIABLES
    origin,     \* version of each object in its own cell
    remote,     \* version of each object in the remote cell, 0 if it has none
    confirmed   \* versions of each object the origin knows to have arrived

Init ==
    /\ origin = [o \in Objects |-> 0]
    /\ remote = [o \in Objects |-> 0]
    /\ confirmed = [o \in Objects |-> {}]

Publish(o) ==
    /\ origin[o] < MaxVersion
    /\ origin' = [origin EXCEPT ![o] = @ + 1]
    /\ UNCHANGED <<remote, confirmed>>

Replicate(o) ==
    /\ remote[o] < origin[o]
    /\ remote' = [remote EXCEPT ![o] = @ + 1]
    /\ UNCHANGED <<origin, confirmed>>

Confirm(o) ==
    /\ \E v \in 1..remote[o] : confirmed' = [confirmed EXCEPT ![o] = @ \cup {v}]
    /\ UNCHANGED <<origin, remote>>

Next == \E o \in Objects : Publish(o) \/ Replicate(o) \/ Confirm(o)

Spec == Init /\ [][Next]_<<origin, remote, confirmed>>

=============================================================================
