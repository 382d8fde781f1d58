------------------------- MODULE MCDomainProjection -------------------------
(* Small instances of DomainProjection. *)
EXTENDS DomainProjection, TLC

CONSTANTS r1, r2

TwoRequests == {r1, r2}

\* Requests are interchangeable.
Symmetry == Permutations(TwoRequests)

=============================================================================
