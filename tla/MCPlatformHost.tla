--------------------------- MODULE MCPlatformHost ----------------------------
EXTENDS PlatformHost, TLC

CONSTANTS p1, p2, p3, o1, o2, reference, staging, primary, restore

OwnNames == reference :> "weltgewebe-reference" @@ staging :> "weltgewebe-staging"
            @@ primary :> "weltgewebe-ha" @@ restore :> "weltgewebe-ha-restore"
SameName == [OwnNames EXCEPT ![staging] = "weltgewebe-reference"]

KeptOrNot == {[mode |-> "gitops", keep |-> FALSE], [mode |-> "direct", keep |-> TRUE]}

Symmetry == Permutations({p1, p2, p3}) \cup Permutations({o1, o2})

(* Invocations are told apart by their arguments only, so the next one to   *)
(* start may be any that is idle.  Tools whose sites have names of their    *)
(* own share nothing: one of them at a time is enough, and two invocations  *)
(* of the longest one, a proof of which starts beside another only once     *)
(* that one leaves its primary.  Proofs compare bindings only, which owners *)
(* tell apart; the staging cell pins its commit, so there commits differ.   *)
Running == {p \in Procs : pc[p] # "idle"}
Family(p) == IF HaTool(p) THEN "ha" ELSE Site(p)
Leaving(p) == pc[p] \in Terminal \cup {"ha_finally"} \/ ha[p].stage \in {"retire", "restore", "cleanup"}
OneTool == /\ \A p, q \in Running : Family(p) = Family(q)
           /\ Cardinality({p \in Running : HaTool(p)}) <= 2
           /\ \A p, q \in {r \in Running : HaProof(r)} : p = q \/ Leaving(p) \/ Leaving(q)
           /\ \A p \in Running : Site(p) # StagingSite => arg[p].commit = PublicMain

(* Between two of its resources a proof only fills a cluster of its own,    *)
(* which no other owner's invocation looks into: the others rest meanwhile. *)
Filling == {"ha_preload", "ha_images", "ha_candidate", "ha_platform", "ha_secrets", "ha_endpoint",
            "ha_cert", "ha_cnpg", "ha_webhook", "ha_barman", "ha_barman_images", "ha_data", "ha_sidecars",
            "ha_migration", "ha_retry", "ha_marker", "ha_upgrade", "ha_upgrading",
            "ha_upgraded", "ha_rollback", "ha_rolling_back", "ha_rolled_back", "ha_probes", "ha_align",
            "ha_box", "ha_stream", "ha_failover", "ha_failed_over", "ha_message", "ha_count",
            "ha_election", "ha_leader"}
OthersRest == \A p, q \in Running : pc[p] \in Filling /\ q # p => pc[q] \in Terminal

StartOne ==
    /\ \E p \in Procs \ Running : StartTool(p)
    /\ OneTool'

OneToolNext ==
    \/ StartOne
    \/ \E p \in Procs : ToolStep(p) \/ Crash(p)
    \/ Environment

OneToolSpec == Init /\ [][OneToolNext]_platformVars
=============================================================================
