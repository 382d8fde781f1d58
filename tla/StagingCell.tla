----------------------------- MODULE StagingCell -----------------------------
(***************************************************************************)
(* scripts/platform/staging_cell.py: the persistent staging cell.  up       *)
(* bootstraps or repairs it, down deletes its cluster and keeps its state,  *)
(* status only looks.  The state root holds a receipt (owner, commit and    *)
(* credential of the cell), the credential file and the data directories    *)
(* the cluster's PostgreSQL and NATS write to; all of it outlives clusters  *)
(* and crashes.  Credentials are numbered in the order they are minted.     *)
(***************************************************************************)
EXTENDS KindCluster

CONSTANTS StagingSite,    \* DEFAULT_STATE_ROOT with DEFAULT_CLUSTER
          PublicMain,     \* head of the public repository's main branch
          MaxSecrets      \* bound on the credentials minted in a behaviour

ASSUME StagingAssumption ==
    StagingSite \in Sites /\ PublicMain \in Commits /\ MaxSecrets \in Nat

VARIABLES cell,       \* receipts/cell-bootstrap.json, or NoCell
          secret,     \* secrets/staging-runtime.json: 0 when absent
          pgdata,     \* the credential data/postgres was initialised with
          lifecycle,  \* holder of lifecycle.lock
          existing,   \* invocation -> up saw the cluster when it started
          minted,     \* credentials minted so far
          report      \* invocation -> what status printed

stagingVars == <<cell, secret, pgdata, lifecycle, existing, minted, report>>
cellVars == <<cell, secret, pgdata, minted>>

NoCell == [status |-> "none", owner |-> NoOwner, commit |-> NoCommit, secret |-> 0]

StagingInit ==
    /\ cell = NoCell
    /\ secret = 0
    /\ pgdata = 0
    /\ lifecycle = NoProc
    /\ existing = [p \in Procs |-> FALSE]
    /\ minted = 0
    /\ report = [p \in Procs |-> "none"]

StagingUp(p) == arg[p].cmd = "up"

(* A step goes on to the next, or the command ends: it returns, or a        *)
(* StagingCellError or failed subprocess leaves it.  Closing the descriptor *)
(* of lifecycle.lock releases the lock; nothing is cleaned up.              *)
Proceed(p, step) == Goto(p, step) /\ UNCHANGED <<attempt, error, lifecycle, existing>>

Leave(p, how) ==
    /\ End(p, how)
    /\ lifecycle' = IF lifecycle = p THEN NoProc ELSE lifecycle
    /\ existing' = [existing EXCEPT ![p] = FALSE]

Refuse(p) == Leave(p, "failed")

StartStaging(p) ==
    \E cmd \in {"up", "staging_down", "status"}, o \in Owners, c \in Commits :
        /\ Start(p, cmd, cmd, StagingSite, o, c)
        /\ UNCHANGED stagingVars

(* lifecycle_mutation_locked and lifecycle_lock: without waiting.           *)
LifecycleLock(p) ==
    /\ pc[p] \in {"up", "staging_down"}
    /\ IF lifecycle = NoProc
         THEN /\ lifecycle' = p
              /\ Goto(p, IF StagingUp(p) THEN "up_check" ELSE "down_check")
              /\ UNCHANGED <<attempt, error, existing>>
         ELSE Refuse(p)
    /\ UNCHANGED <<hostVars, arg, cellVars, report>>

(* retained_data_directory_exists, for either directory; only PostgreSQL's  *)
(* content is told apart here, NATS starts with it.                         *)
NothingRetained == FALSE
RetainedData == pgdata # 0

RetainedPostgresState == cell # NoCell \/ RetainedData

(* load_tool_receipt: every tool and artifact the staging cell needs is the *)
(* locked file of the current platform lock, at its place in the state      *)
(* root.  An invocation that cannot see all of them refuses.                *)
ToolReceipt(p) ==
    /\ pc[p] = "up_check"
    /\ \E receiptCurrent, toolsLocked, artifactsLocked \in BOOLEAN :
          IF receiptCurrent /\ toolsLocked /\ artifactsLocked
            THEN Proceed(p, "up_cell")
            ELSE Refuse(p)
    /\ UNCHANGED <<hostVars, arg, cellVars, report>>

(* The checks of command_up before it touches a credential: no recovery of  *)
(* a cluster or of retained data without a receipt, and only by its owner.  *)
UpCheckAnyOwner(p) ==
    /\ pc[p] = "up_cell"
    /\ \/ /\ cell = NoCell => cluster[Name(p)] = NoCluster /\ ~RetainedData
          /\ existing' = [existing EXCEPT ![p] = cluster[Name(p)] # NoCluster]
          /\ Goto(p, "up_secret")
          /\ UNCHANGED <<attempt, error, lifecycle>>
       \/ Refuse(p)
    /\ UNCHANGED <<hostVars, arg, cellVars, report>>

UpCheck(p) ==
    /\ pc[p] = "up_cell"
    /\ \/ /\ cell = NoCell => cluster[Name(p)] = NoCluster /\ ~RetainedData
          /\ cell # NoCell => cell.owner = arg[p].owner
          /\ existing' = [existing EXCEPT ![p] = cluster[Name(p)] # NoCluster]
          /\ Goto(p, "up_secret")
          /\ UNCHANGED <<attempt, error, lifecycle>>
       \/ Refuse(p)
    /\ UNCHANGED <<hostVars, arg, cellVars, report>>

(* load_or_create_secret_material: a new credential is minted only when no  *)
(* receipt and no PostgreSQL data is retained; a loaded one must be the one *)
(* the receipt recorded.                                                    *)
MintSecret ==
    /\ secret = 0
    /\ ~RetainedPostgresState
    /\ minted < MaxSecrets
    /\ secret' = minted + 1
    /\ minted' = minted + 1

SecretLoads == secret # 0 /\ (cell = NoCell \/ cell.secret = secret)

UpSecret(p) ==
    /\ pc[p] = "up_secret"
    /\ \/ MintSecret /\ Proceed(p, "up_bind")
       \/ SecretLoads /\ Proceed(p, "up_bind") /\ UNCHANGED <<secret, minted>>
       \/ Refuse(p) /\ UNCHANGED <<secret, minted>>
    /\ UNCHANGED <<hostVars, arg, cell, pgdata, report>>

(* require_clean_commit: a first bootstrap takes exactly public main, a     *)
(* repair exactly the commit of the receipt.                                *)
CommitAdmitted(p) ==
    IF cell = NoCell THEN arg[p].commit = PublicMain ELSE arg[p].commit = cell.commit

(* write_cell_receipt: a complete file replaces the old one and is synced   *)
(* with its directory before the call returns.                              *)
ReplaceCell(p, status, credential) ==
    cell' = [status |-> status, owner |-> arg[p].owner, commit |-> arg[p].commit,
             secret |-> credential]

(* Then an existing cluster must be owned; for a new one the receipt with   *)
(* status bootstrap-in-progress is durable before kind create starts.       *)
UpBind(p) ==
    /\ pc[p] = "up_bind"
    /\ \/ /\ CommitAdmitted(p) /\ existing[p]
          /\ Proceed(p, "require_owned")
          /\ UNCHANGED cell
       \/ /\ CommitAdmitted(p) /\ ~existing[p]
          /\ Proceed(p, "up_config")
          /\ IF cell # NoCell THEN UNCHANGED cell
                              ELSE ReplaceCell(p, "bootstrap-in-progress", secret)
       \/ Refuse(p) /\ UNCHANGED cell
    /\ UNCHANGED <<hostVars, arg, secret, pgdata, minted, report>>

(* render_kind_config: three nodes, the data mount on the second only.  A   *)
(* template that drifted leaves the receipt of an unfinished bootstrap.     *)
RenderKindConfig(p) ==
    /\ pc[p] = "up_config"
    /\ Proceed(p, "reserve") \/ Refuse(p)
    /\ UNCHANGED <<hostVars, arg, cellVars, report>>

-----------------------------------------------------------------------------
(* The cluster the kubeconfig of the cell reaches.                          *)
Reaches(p) == /\ cluster[Name(p)] # NoCluster
              /\ kubeconfig[Site(p)] = cluster[Name(p)]

(* One step of command_up on the cluster: after is what it leaves there.    *)
UpStep(p, from, ok, after, to) ==
    /\ pc[p] \in from /\ StagingUp(p)
    /\ \/ /\ Reaches(p) /\ ok
          /\ inside' = [inside EXCEPT ![Name(p)] = after]
          /\ Proceed(p, to)
       \/ Refuse(p) /\ UNCHANGED inside
    /\ UNCHANGED <<cluster, marker, kubeconfig, lock, arg, cellVars, report>>

Here(p) == inside[Name(p)]

(* prepare_volume_permissions: three nodes, the data mount on the data      *)
(* worker only; never chown over data with unexpected permissions.          *)
PrepareVolumes(p) == UpStep(p, {"created", "owned"}, TRUE, Here(p), "up_platform")

(* install_platform_components and the wait for ready nodes.                *)
UpPlatform(p) ==
    UpStep(p, {"up_platform"}, TRUE, [Here(p) EXCEPT !.phases = @ \cup {"platform"}], "up_inject")

(* inject_external_secrets loads the credential a second time (the receipt  *)
(* now exists, so it is never minted here) and applies both Secrets.        *)
InjectSecrets(p) ==
    UpStep(p, {"up_inject"}, SecretLoads, [Here(p) EXCEPT !.secret = secret], "up_flux")

(* apply_yaml of flux_documents: the source is pinned to the commit; a new  *)
(* generation makes the observed state stale (external: the API server      *)
(* bumps the generation only when the spec changes).                        *)
ApplyFlux(p) ==
    LET pinned == [Here(p) EXCEPT !.ref = arg[p].commit,
                                  !.current = @ /\ Here(p).ref = arg[p].commit]
    IN  UpStep(p, {"up_flux"}, TRUE, pinned, "up_volumes")

(* Source and kustomization observed at their current generation, at this   *)
(* commit (flux_resource_current_state).                                    *)
FluxCurrent(p) == inside[Name(p)].current /\ inside[Name(p)].ref = arg[p].commit

(* wait_pvcs_bound: both claims visible within the budget of Flux, then     *)
(* bound; any other phase of a claim is an error.                           *)
VolumesBound(p) ==
    UpStep(p, {"up_volumes"}, "volumes" \in inside[Name(p)].phases, Here(p), "up_reconcile")

(* reconcile_data and staging_live_health: source and kustomization current *)
(* at this commit within the rest of the budget, and the workloads live.    *)
ReconcileData(p) == UpStep(p, {"up_reconcile"}, FluxCurrent(p), Here(p), "up_receipt")

(* write_cell_receipt of the final receipt, with the credential that was    *)
(* injected.                                                                *)
UpReceipt(p) ==
    /\ pc[p] = "up_receipt"
    /\ ReplaceCell(p, "ready", inside[Name(p)].secret)
    /\ Leave(p, "done")
    /\ UNCHANGED <<hostVars, arg, secret, pgdata, minted, report>>

(* create_kind_cluster, require_owned_cluster or a deletion raised.         *)
StagingRaise(p) ==
    /\ pc[p] = "raise" /\ arg[p].cmd \in {"up", "staging_down", "status"}
    /\ Refuse(p)
    /\ UNCHANGED <<hostVars, arg, cellVars, report>>

(* Flux in the cluster (external): once the source is pinned, the platform  *)
(* runs and the Secret exists, PostgreSQL starts on the retained directory  *)
(* and initialises an empty one with the injected credential.               *)
FluxReconciles(n) ==
    /\ cluster[n] # NoCluster
    /\ n = NameOf[StagingSite]
    /\ inside[n].ref # NoCommit /\ "platform" \in inside[n].phases
    /\ inside[n].secret # 0
    /\ ~inside[n].current
    /\ inside' = [inside EXCEPT ![n].current = TRUE, ![n].phases = @ \cup {"volumes"}]
    /\ pgdata' = IF pgdata = 0 THEN inside[n].secret ELSE pgdata
    /\ UNCHANGED <<cluster, marker, kubeconfig, lock, procVars,
                   cell, secret, lifecycle, existing, minted, report>>

-----------------------------------------------------------------------------
(* command_down: the persisted owner only, with the commit of the receipt.  *)
DownCheck(p) ==
    /\ pc[p] = "down_check"
    /\ \/ /\ cell # NoCell
          /\ cell.owner = arg[p].owner
          /\ arg' = [arg EXCEPT ![p].commit = cell.commit]
          /\ Proceed(p, "delete_if_present")
       \/ Refuse(p) /\ UNCHANGED arg
    /\ UNCHANGED <<hostVars, cellVars, report>>

(* The receipt of the deletion; data, secrets and the cell receipt stay.    *)
DownReceipt(p) ==
    /\ pc[p] \in {"deleted", "absent"} /\ arg[p].cmd = "staging_down"
    /\ Leave(p, "done")
    /\ UNCHANGED <<hostVars, arg, cellVars, report>>

(* command_status takes no lifecycle lock.  It binds itself to the receipt, *)
(* unless load_tool_receipt refuses.                                        *)
StatusCheck(p) ==
    /\ pc[p] = "status"
    /\ \/ /\ \/ /\ cell = NoCell
                /\ report' = [report EXCEPT ![p] = "not-bootstrapped"]
                /\ Goto(p, "done")
                /\ UNCHANGED arg
             \/ /\ cell # NoCell /\ cluster[Name(p)] = NoCluster
                /\ report' = [report EXCEPT ![p] = "cluster-absent"]
                /\ Goto(p, "done")
                /\ UNCHANGED arg
             \/ /\ cell # NoCell /\ cluster[Name(p)] # NoCluster
                /\ arg' = [arg EXCEPT ![p].owner = cell.owner, ![p].commit = cell.commit]
                /\ report' = [report EXCEPT ![p] = cell.status]
                /\ Goto(p, "require_owned")
          /\ UNCHANGED <<attempt, error, lifecycle, existing>>
       \/ cell # NoCell /\ Refuse(p) /\ UNCHANGED <<arg, report>>
    /\ UNCHANGED <<hostVars, cellVars>>

(* After require_owned_cluster: an unfinished bootstrap as the receipt said *)
(* it, else ready exactly when source, kustomization, volumes, injected     *)
(* Secrets and workloads are current.  verify_external_secret_binding never *)
(* mints: the receipt exists.                                               *)
StatusOfReceipt(p) ==
    /\ pc[p] = "owned" /\ arg[p].cmd = "status"
    /\ Goto(p, "done")
    /\ UNCHANGED <<hostVars, arg, attempt, error, cellVars, lifecycle, existing, report>>

StatusHealth(p) ==
    /\ pc[p] = "owned" /\ arg[p].cmd = "status"
    /\ LET in == inside[Name(p)]
           healthy == Reaches(p) /\ FluxCurrent(p) /\ SecretLoads /\ in.secret = secret
       IN  report' = [report EXCEPT ![p] =
                        IF @ = "bootstrap-in-progress" THEN @
                        ELSE IF healthy THEN "ready" ELSE "degraded"]
    /\ Goto(p, "done")
    /\ UNCHANGED <<hostVars, arg, attempt, error, cellVars, lifecycle, existing>>

(* Faults outside the tool, between commands: a file of the state root is   *)
(* lost.                                                                    *)
LoseSecret ==
    /\ lifecycle = NoProc /\ secret # 0
    /\ secret' = 0
    /\ UNCHANGED <<kindVars, cell, pgdata, lifecycle, existing, minted, report>>

LoseReceipt ==
    /\ lifecycle = NoProc /\ cell # NoCell
    /\ cell' = NoCell
    /\ UNCHANGED <<kindVars, secret, pgdata, lifecycle, existing, minted, report>>

StagingStep(p) ==
    \/ LifecycleLock(p) \/ ToolReceipt(p) \/ UpCheck(p) \/ UpSecret(p) \/ UpBind(p) \/ RenderKindConfig(p)
    \/ PrepareVolumes(p) \/ UpPlatform(p) \/ InjectSecrets(p) \/ ApplyFlux(p)
    \/ VolumesBound(p) \/ ReconcileData(p) \/ UpReceipt(p) \/ StagingRaise(p)
    \/ DownCheck(p) \/ DownReceipt(p) \/ StatusCheck(p) \/ StatusHealth(p)
==============================================================================
