--------------------------- MODULE MCDomainOutbox ---------------------------
(* Small instances of DomainOutbox for TLC. *)
EXTENDS DomainOutbox

CONSTANTS e1, e2, w1, w2, c1, c2

OneEvent == {e1}
TwoEvents == {e1, e2}
OneRelay == {w1}
TwoRelays == {w1, w2}
OneConsumer == {c1}
TwoConsumers == {c1, c2}

=============================================================================
