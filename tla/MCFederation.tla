---------------------------- MODULE MCFederation ----------------------------
(* Small instances of Federation. *)
EXTENDS Federation

CONSTANTS w1, w2, i1, i2

OneWorker == {w1}
TwoWorkers == {w1, w2}
OneInstance == {i1}
TwoInstances == {i1, i2}

OneObject == {"a"}
UpsertsAndDeletes == {"upserted", "deleted"}

\* The second version of an object deletes it.
DeletedAtTwo == [e \in Events |-> IF e[2] = 2 THEN "deleted" ELSE "upserted"]
AllGlobal == [o \in Objects |-> "global"]
AllNeighbourhood == [o \in Objects |-> "neighbourhood"]

Listed(trusted, neighbourhood, types, endpoint) ==
    [listed |-> TRUE, trusted |-> trusted, neighbourhood |-> neighbourhood,
     types |-> types, endpoint |-> endpoint]

Open == Listed(TRUE, TRUE, {"upserted", "deleted"}, "url")
UpsertsOnly == Listed(TRUE, TRUE, {"upserted"}, "url")
Distant == Listed(TRUE, FALSE, {"upserted", "deleted"}, "url")
Unlisted == [listed |-> FALSE, trusted |-> FALSE, neighbourhood |-> FALSE,
             types |-> {}, endpoint |-> NoOne]

OpenConfigs == {Open}
NarrowConfigs == {UpsertsOnly, Distant, Unlisted}

Accepting == [known |-> TRUE, blocked |-> FALSE, key_active |-> TRUE,
              neighbourhood |-> TRUE, types |-> {"upserted", "deleted"}]
Unknown == [Accepting EXCEPT !.known = FALSE]
Blocking == [Accepting EXCEPT !.blocked = TRUE]

AcceptingOnly == {Accepting}
Changing == {Accepting, Unknown, Blocking}

=============================================================================
