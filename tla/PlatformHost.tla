---------------------------- MODULE PlatformHost -----------------------------
(***************************************************************************)
(* One host on which the reference proofs and the staging cell run side by  *)
(* side, may crash at any step and are started again by their operators.    *)
(***************************************************************************)
EXTENDS KindReference, StagingCell, HaReference

platformVars == <<kindVars, referenceVars, stagingVars, haVars>>

Init == KindInit /\ ReferenceInit /\ StagingInit /\ HaInit

StartTool(p) ==
    \/ (StartProof(p) \/ StartDown(p)) /\ UNCHANGED <<stagingVars, haVars>>
    \/ StartStaging(p) /\ UNCHANGED <<referenceVars, haVars>>
    \/ StartHa(p) /\ UNCHANGED <<referenceVars, stagingVars>>

ToolStep(p) ==
    \/ KindStep(p) /\ UNCHANGED <<referenceVars, stagingVars, haVars>>
    \/ ReferenceStep(p) /\ UNCHANGED <<stagingVars, haVars>>
    \/ StagingStep(p) /\ UNCHANGED <<referenceVars, haVars>>
    \/ HaToolStep(p) /\ UNCHANGED <<referenceVars, stagingVars>>

Crash(p) ==
    /\ KindCrash(p)
    /\ lifecycle' = IF lifecycle = p THEN NoProc ELSE lifecycle
    /\ existing' = [existing EXCEPT ![p] = FALSE]
    /\ option' = [option EXCEPT ![p] = NoOption]
    /\ evidence' = [evidence EXCEPT ![p] = IF p \in receipts THEN @ ELSE {}]
    /\ ha' = [ha EXCEPT ![p] = HaIdle]
    /\ UNCHANGED <<receipts, cellVars, report, store, archive>>

Environment ==
    \/ \E n \in Names : FluxReconciles(n) /\ UNCHANGED <<referenceVars, haVars>>
    \/ (LoseSecret \/ LoseReceipt) /\ UNCHANGED <<referenceVars, haVars>>
    \/ WalArchived /\ UNCHANGED <<referenceVars, stagingVars>>

Next ==
    \/ \E p \in Procs : StartTool(p) \/ ToolStep(p) \/ Crash(p)
    \/ Environment

Spec == Init /\ [][Next]_platformVars

-----------------------------------------------------------------------------
(* Across creations, rollbacks, deletions and crashes, a cluster that       *)
(* exists on the host is marked, in a site of its name, with the binding of *)
(* the invocation that created it: the marker is published before kind      *)
(* create and removed after kind delete, so an owner can always clean up.   *)
ClusterIsMarked ==
    \A n \in Names : cluster[n] # NoCluster =>
        \E s \in Sites : NameOf[s] = n /\ marker[s] = Bound(cluster[n])

(* "it is never adopted or deleted by this proof": a step that removes a    *)
(* cluster, or the container or volume of the object store, is a step of an *)
(* invocation with the binding of its creator.  In particular the rollback  *)
(* of a failed creation, the retirement of the primary and the docker rm    *)
(* that follows an inspection never remove another's.                       *)
NoForeignDelete ==
    [][/\ \A n \in Names : cluster[n] # NoCluster /\ cluster'[n] = NoCluster =>
             \E p \in Procs : /\ pc'[p] # pc[p]
                              /\ Name(p) = n
                              /\ Bound(p) = Bound(cluster[n])
       /\ \A r \in DOMAIN store : store[r] # NoBinding /\ store'[r] # store[r] =>
             \E p \in Procs : pc'[p] # pc[p] /\ Bound(p) = store[r]]_platformVars

(* A receipt with status pass rests on the cluster its own invocation       *)
(* created, in every phase: no other invocation replaced it in between.     *)
EvidenceIsOwn == \A p \in receipts : evidence[p] = {p}

(* Both: whose a cluster is can be seen at all times, and evidence is only  *)
(* of one's own.                                                            *)
ClustersAreOwned == ClusterIsMarked /\ EvidenceIsOwn

(* Nothing on the host carries the binding of this invocation: no cluster   *)
(* at the sites it is responsible for and, for the high-availability tool,  *)
(* neither part of the object store.                                        *)
NothingOwned(p) ==
    /\ \A s \in IF HaTool(p) THEN {HaPrimary, HaRestore} ELSE {Site(p)} :
          cluster[NameOf[s]] # NoCluster => Bound(cluster[NameOf[s]]) # Bound(p)
    /\ HaTool(p) => \A r \in DOMAIN store : store[r] # Bound(p)

(* The cleanup receipts of both down commands say owned_resources_remaining *)
(* false when they return 0: then nothing of the binding is left, wherever  *)
(* the proof before it failed or was killed.                                *)
CleanupReceiptIsTrue ==
    [][\A p \in Procs :
          arg[p].cmd \in {"down", "ha_down"} /\ pc'[p] = "done" /\ pc[p] # "done" =>
              NothingOwned(p)]_platformVars

(* The proof retires its primary only when every acknowledged mutation of   *)
(* it is in the object store, so that the point in time is recoverable.     *)
RetirementLosesNothing ==
    [][\A p \in Procs : ha[p].stage = "retire" /\ cluster[Name(p)] = p
                          /\ cluster'[Name(p)] = NoCluster =>
          Data(HaPrimary) \subseteq archive]_platformVars

(* Retained PostgreSQL data keeps its credential: once the data directory   *)
(* is initialised, no crash, repair, deletion or loss of a file makes the   *)
(* tool mint, record or inject a different one.                             *)
SecretNeverReplaced ==
    pgdata # 0 => /\ secret \in {0, pgdata}
                  /\ cell.secret \in {0, pgdata}
                  /\ inside[NameOf[StagingSite]].secret \in {0, pgdata}

(* A cell keeps the owner, commit and credential of its first bootstrap     *)
(* for as long as its receipt exists, whoever runs up and whatever crashes. *)
CellIsPinned ==
    [][cell # NoCell /\ cell' # NoCell =>
          /\ cell'.owner = cell.owner /\ cell'.commit = cell.commit
          /\ cell'.secret = cell.secret]_platformVars

(* status says ready only about a cell whose database accepts the injected  *)
(* credential, although status takes no lifecycle lock.                     *)
ReadyIsUsable ==
    [][\A p \in Procs : report'[p] = "ready" /\ pc'[p] = "done" /\ pc[p] # "done" =>
          pgdata # 0 /\ inside[NameOf[StagingSite]].secret = pgdata]_platformVars
==============================================================================
