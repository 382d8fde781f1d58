----------------------------- MODULE HaReference -----------------------------
(***************************************************************************)
(* scripts/platform/ha_reference.py: the high-availability proof.  It owns  *)
(* three resources of the host: a primary cluster, an external object store *)
(* (a container and a volume, owned by their labels) and a restore cluster. *)
(* It stops a node of the primary, waits for the failover, takes a backup,  *)
(* retires the primary and restores it to a point in time in a blank        *)
(* cluster.  down removes whatever an earlier proof of the owner left.      *)
(*                                                                          *)
(* The three domain mutations of the proof are the only data told apart.    *)
(* In a cluster they are elements of inside[name].phases.                   *)
(***************************************************************************)
EXTENDS KindCluster

CONSTANTS HaPrimary, HaRestore      \* the two sites of the proof

ASSUME HaAssumption ==
    {HaPrimary, HaRestore} \subseteq Sites /\ NameOf[HaPrimary] # NameOf[HaRestore]

VARIABLES ha,       \* invocation -> the local variables of prove
          store,    \* "container" and "volume" -> the binding in their labels
          archive   \* mutations whose backup or WAL is in the object store

haVars == <<ha, store, archive>>

Mutations == {"marker", "before", "after"}

(* ClusterLifecycle, object_store_created, stopped_node, --keep, the active *)
(* error, errors of the cleanup, and the call create or delete returns to.  *)
HaIdle == [primary |-> FALSE, restore |-> FALSE, store |-> FALSE, stopped |-> FALSE,
           keep |-> FALSE, err |-> FALSE, dirty |-> FALSE, stage |-> "none"]

HaInit ==
    /\ ha = [p \in Procs |-> HaIdle]
    /\ store = [r \in {"container", "volume"} |-> NoBinding]
    /\ archive = {}

HaProof(p) == arg[p].cmd = "ha_proof"
HaTool(p) == arg[p].cmd \in {"ha_proof", "ha_down"}

Become(p, step, local) == Goto(p, step) /\ ha' = [ha EXCEPT ![p] = local]

(* An exception leaves the try block of prove.                              *)
HaFail(p) == Become(p, "ha_finally", [ha[p] EXCEPT !.err = TRUE])

Data(s) == inside[NameOf[s]].phases \cap Mutations

-----------------------------------------------------------------------------
(* The invocations of one owner follow one another, as in KindReference.    *)
StartHa(p) ==
    \E o \in Owners, c \in Commits, keep \in BOOLEAN :
        /\ \A q \in Procs : pc[q] \notin Terminal \cup {"idle"} => arg[q].owner # o
        /\ \/ /\ Start(p, "ha_proof", "ha", HaPrimary, o, c)
              /\ ha' = [ha EXCEPT ![p].keep = keep]
           \/ /\ ~keep
              /\ Start(p, "ha_down", "ha_finally", HaPrimary, o, c)
              /\ ha' = [ha EXCEPT ![p].primary = TRUE, ![p].restore = TRUE, ![p].store = TRUE]
        /\ UNCHANGED <<store, archive>>

(* prove before its try block: a clean work tree, host tools, the tool      *)
(* receipt, when strict the mirror's images on the host; then the declared  *)
(* volumes against the free space.  A failure here leaves prove at once.    *)
BeforeTry(p, from, next) ==
    /\ pc[p] = from
    /\ \/ next
       \/ Become(p, "ha_exit", [ha[p] EXCEPT !.err = TRUE])
    /\ UNCHANGED <<hostVars, arg, attempt, error, store, archive>>

HaTools(p) == BeforeTry(p, "ha", Goto(p, "ha_capacity") /\ UNCHANGED ha)

HaPreflight(p) ==
    BeforeTry(p, "ha_capacity", Become(p, "reserve", [ha[p] EXCEPT !.stage = "primary"]))

(* create_kind_cluster returned; primary_created or restore_created is set. *)
HaCreated(p) ==
    /\ pc[p] = "created" /\ HaProof(p)
    /\ IF ha[p].stage = "primary"
         THEN Become(p, "ha_preload", [ha[p] EXCEPT !.primary = TRUE])
         ELSE Become(p, "ha_dns", [ha[p] EXCEPT !.restore = TRUE])
    /\ attempt' = [attempt EXCEPT ![p] = 0]
    /\ UNCHANGED <<hostVars, arg, error, store, archive>>

(* create_kind_cluster, or the deletion that retires the primary, raised.   *)
HaRaise(p) ==
    /\ pc[p] = "raise" /\ HaProof(p) /\ ha[p].stage \in {"primary", "restore", "retire"}
    /\ HaFail(p)
    /\ Fail(p, "none")
    /\ attempt' = [attempt EXCEPT ![p] = 0]
    /\ UNCHANGED <<hostVars, arg, store, archive>>

(* One step of prove on the cluster of its current site: when it holds what *)
(* the step needs, the step adds and removes; a deadline, a failed command  *)
(* or a failed check raises, with undo what its own handler removes.        *)
HaStep(p, from, needs, adds, removes, undo, next) ==
    /\ pc[p] = from
    /\ \/ /\ cluster[Name(p)] # NoCluster
          /\ kubeconfig[Site(p)] = cluster[Name(p)]
          /\ needs \subseteq inside[Name(p)].phases
          /\ inside' = [inside EXCEPT ![Name(p)].phases = (@ \cup adds) \ removes]
          /\ Goto(p, next)
          /\ UNCHANGED ha
       \/ /\ HaFail(p)
          /\ \E undone \in SUBSET undo :
                inside' = [inside EXCEPT ![Name(p)].phases = @ \ undone]
    /\ UNCHANGED <<cluster, marker, kubeconfig, lock, arg, attempt, error, store, archive>>

(* preload_local_nats_dependencies and, when strict, the OCI load.          *)
PreloadNats(p) == HaStep(p, "ha_preload", {}, {"preload"}, {}, {}, "ha_images")

(* require_active_cluster_context, build_images.                            *)
HaImages(p) == HaStep(p, "ha_images", {}, {"images"}, {}, {}, "ha_candidate")

(* prepare_api_upgrade_candidate: a second image, with another identity.    *)
UpgradeCandidate(p) ==
    HaStep(p, "ha_candidate", {"images"}, {"candidate"}, {}, {}, "ha_platform")

(* install_platform_components and the wait for ready nodes.                *)
HaPlatform(p) == HaStep(p, "ha_platform", {"images"}, {"platform"}, {}, {}, "ha_dns")

(* configure_cluster_dns_ha: three DNS replicas in three zones.             *)
ClusterDns(p) == HaStep(p, "ha_dns", {}, {"dns"}, {}, {},
                        IF Site(p) = HaPrimary THEN "ha_store" ELSE "ha_secrets")

-----------------------------------------------------------------------------
(* start_external_object_store: neither the container nor the volume may    *)
(* exist; this check comes before the try block.                            *)
StoreCheck(p) ==
    /\ pc[p] = "ha_store"
    /\ \/ (\A r \in DOMAIN store : store[r] = NoBinding) /\ Goto(p, "ha_volume") /\ UNCHANGED ha
       \/ HaFail(p)
    /\ UNCHANGED <<hostVars, arg, attempt, error, store, archive>>

(* docker volume create succeeds on a volume that exists by now and leaves  *)
(* its labels alone; docker run refuses a container name in use.            *)
StoreCreate(p) ==
    \/ /\ pc[p] = "ha_volume"
       /\ \/ /\ store' = [store EXCEPT !["volume"] = IF @ = NoBinding THEN Bound(p) ELSE @]
             /\ Goto(p, "ha_container")
             /\ UNCHANGED ha
          \/ HaFail(p) /\ UNCHANGED store
       /\ UNCHANGED <<hostVars, arg, attempt, error, archive>>
    \/ /\ pc[p] = "ha_container"
       /\ \/ /\ store["container"] = NoBinding
             /\ store' = [store EXCEPT !["container"] = Bound(p)]
             /\ \/ Become(p, "ha_secrets", [ha[p] EXCEPT !.store = TRUE])
                \/ Become(p, "store_container", [ha[p] EXCEPT !.err = TRUE, !.stage = "undo"])
          \/ /\ Become(p, "store_container", [ha[p] EXCEPT !.err = TRUE, !.stage = "undo"])
             /\ UNCHANGED store
       /\ UNCHANGED <<hostVars, arg, attempt, error, archive>>

(* reconcile_external_object_store, first the container, then the volume:   *)
(* an absent one is skipped, one with other labels is an error; docker rm   *)
(* follows the inspection as a command of its own, and one error does not   *)
(* keep the other resource from being tried.                                *)
StoreInspect(p, r, from, found, next) ==
    /\ pc[p] = from
    /\ \/ store[r] = NoBinding /\ Goto(p, next) /\ UNCHANGED ha
       \/ store[r] = Bound(p) /\ Goto(p, found) /\ UNCHANGED ha
       \/ Become(p, next, [ha[p] EXCEPT !.dirty = TRUE])
    /\ UNCHANGED <<hostVars, arg, attempt, error, store, archive>>

StoreRemove(p, r, from, next) ==
    /\ pc[p] = from
    /\ \/ /\ store' = [store EXCEPT ![r] = NoBinding]
          /\ archive' = IF r = "volume" THEN {} ELSE archive
          /\ Goto(p, next)
          /\ UNCHANGED ha
       \/ Become(p, next, [ha[p] EXCEPT !.dirty = TRUE]) /\ UNCHANGED <<store, archive>>
    /\ UNCHANGED <<hostVars, arg, attempt, error>>

(* After the volume: start_external_object_store raises, cleanup is over.   *)
StoreReconciled(p) ==
    /\ pc[p] = "store_done"
    /\ IF ha[p].stage = "undo"
         THEN Become(p, "ha_finally", [ha[p] EXCEPT !.stage = "none", !.dirty = FALSE])
         ELSE Goto(p, "ha_exit") /\ UNCHANGED ha
    /\ UNCHANGED <<hostVars, arg, attempt, error, store, archive>>

ReconcileStore(p) ==
    \/ StoreInspect(p, "container", "store_container", "rm_container", "store_volume")
    \/ StoreRemove(p, "container", "rm_container", "store_volume")
    \/ StoreInspect(p, "volume", "store_volume", "rm_volume", "store_done")
    \/ StoreRemove(p, "volume", "rm_volume", "store_done")
    \/ StoreReconciled(p)

-----------------------------------------------------------------------------
(* The operators, in the primary and again in the restore cluster.          *)

(* apply_secret_contracts of the run's credentials.                         *)
SecretContracts(p) == HaStep(p, "ha_secrets", {"dns"}, {"secrets"}, {}, {}, "ha_endpoint")

(* apply_object_store_endpoint: the address of the container on the host.   *)
StoreEndpoint(p) == HaStep(p, "ha_endpoint", {"secrets"}, {"endpoint"}, {}, {}, "ha_cert")

(* install_cert_manager: its images bound to digests, its webhook ready.    *)
CertManager(p) == HaStep(p, "ha_cert", {}, {"cert"}, {}, {}, "ha_cnpg")

(* install_cnpg: the rewritten manifest, three replicas of the operator on  *)
(* three nodes, and then its admission webhook answers a dry run.           *)
InstallCnpg(p) == HaStep(p, "ha_cnpg", {"cert"}, {"cnpg"}, {}, {}, "ha_webhook")
CnpgWebhook(p) == HaStep(p, "ha_webhook", {"cnpg"}, {"webhook"}, {}, {}, "ha_barman")

(* install_barman_cloud_plugin: certificates, three processes on three      *)
(* nodes of which one is the elected leader, and then the images it runs    *)
(* and hands to its sidecars are the locked ones.                           *)
BarmanPlugin(p) ==
    HaStep(p, "ha_barman", {"cert", "webhook"}, {"plugin"}, {}, {}, "ha_barman_images")
InstallBarman(p) ==
    HaStep(p, "ha_barman_images", {"plugin", "endpoint"}, {"operators"}, {}, {},
           IF Site(p) = HaPrimary THEN "ha_data" ELSE "ha_restore")

(* apply_ha_data and the waits for NATS and PostgreSQL.                     *)
HaData(p) == HaStep(p, "ha_data", {"operators", "preload"}, {"data"}, {}, {}, "ha_sidecars")

(* verify_barman_sidecar_images of every PostgreSQL pod.                    *)
BarmanSidecars(p) == HaStep(p, "ha_sidecars", {"data"}, {}, {}, {}, "ha_migration")

(* The migration job, then prove_migration_retry_and_idempotency: its pods  *)
(* are cut off from the database until one attempt fails; an exception      *)
(* removes the partition too, unless that removal fails.                    *)
MigrationPartition(p) ==
    HaStep(p, "ha_migration", {"data"}, {"partition"}, {}, {"partition"}, "ha_retry")

MigrationRetry(p) ==
    HaStep(p, "ha_retry", {"partition"}, {"migrated"}, {"partition"}, {"partition"}, "ha_app")

(* Application, gateway and topology in three zones.                        *)
HaApp(p) == HaStep(p, "ha_app", {"migrated", "platform"}, {"app"}, {}, {}, "ha_probes")

(* create_direct_api_probes: one probe pod beside the API in every zone.    *)
DirectProbes(p) == HaStep(p, "ha_probes", {"app"}, {"probes"}, {}, {}, "ha_marker")

(* insert_domain_node of the mutation, then seen through the gateway.       *)
HaMarker(p) == HaStep(p, "ha_marker", {"app"}, {"marker"}, {}, {}, "ha_upgrade")

(* api_rollout_complete, api_deployment_image: the image the API runs.      *)
Deployed(candidate) == IF candidate THEN {"upgraded"} ELSE {"app"}

(* prove_api_upgrade_and_rollback sets the candidate's image and later      *)
(* undoes it.  Each time measure_api_transition samples the gateway until   *)
(* the rollout is complete, and then no replica of before may be left, the  *)
(* image be another or a sample have failed; an image that was set stays.   *)
HaUpgrade(p) ==
    HaStep(p, "ha_upgrade", {"marker", "candidate", "probes"}, {"upgraded"}, {}, {}, "ha_upgrading")

HaRollback(p) ==
    HaStep(p, "ha_rollback", {"marker", "upgraded"}, {}, {"upgraded"}, {}, "ha_rolling_back")

ApiTransition(p) ==
    \/ HaStep(p, "ha_upgrading", Deployed(TRUE), {}, {}, {}, "ha_upgraded")
    \/ HaStep(p, "ha_rolling_back", Deployed(FALSE), {}, {}, {}, "ha_rolled_back")

Replaced(p) ==
    \/ HaStep(p, "ha_upgraded", Deployed(TRUE), {}, {}, {}, "ha_rollback")
    \/ HaStep(p, "ha_rolled_back", Deployed(FALSE), {}, {}, {}, "ha_align")

(* A backup of the primary that wait_backup_complete saw completed: with    *)
(* the mutations so far, the ones of adds included, in the object store.    *)
BackupComplete(p, from, adds, next) ==
    /\ pc[p] = from
    /\ \/ /\ cluster[Name(p)] # NoCluster /\ store["container"] # NoBinding
          /\ kubeconfig[Site(p)] = cluster[Name(p)]
          /\ inside' = [inside EXCEPT ![Name(p)].phases = @ \cup adds]
          /\ archive' = archive \cup Data(Site(p)) \cup adds
          /\ next
       \/ HaFail(p) /\ UNCHANGED <<inside, archive>>
    /\ UNCHANGED <<cluster, marker, kubeconfig, lock, arg, attempt, error, store>>

(* align_postgres_primary_with_barman_leader: the primary on the node of    *)
(* the plugin's leader, and a backup through it.  That node is now          *)
(* stopped_node, although it runs until docker stop.                        *)
HaAlign(p) ==
    BackupComplete(p, "ha_align", {}, Become(p, "ha_box", [ha[p] EXCEPT !.stopped = TRUE]))

(* create_nats_box in a zone that stays, from the preloaded image.          *)
CreateNatsBox(p) == HaStep(p, "ha_box", {"preload", "data"}, {"box"}, {}, {}, "ha_stream")

(* domain_jetstream_contract: stream and consumer with three replicas; then *)
(* the proof's own stream and its first message.                            *)
DomainStream(p) == HaStep(p, "ha_stream", {"box", "app"}, {"first"}, {}, {}, "ha_stop")

(* The ledger of the migrations, then docker stop, which may fail after it  *)
(* stopped the node.                                                        *)
HaStopNode(p) ==
    /\ pc[p] = "ha_stop"
    /\ \/ /\ cluster[Name(p)] # NoCluster
          /\ inside' = [inside EXCEPT ![Name(p)].phases = @ \cup {"node_down"}]
          /\ \/ Goto(p, "ha_failover") /\ UNCHANGED ha
             \/ HaFail(p)
       \/ HaFail(p) /\ UNCHANGED inside
    /\ UNCHANGED <<cluster, marker, kubeconfig, lock, arg, attempt, error, store, archive>>

(* start_migration_election_probe opens the migration pods' way to the      *)
(* database and starts the job while PostgreSQL elects a primary.           *)
StartElection(p) ==
    HaStep(p, "ha_failover", {"node_down"}, {"egress"}, {}, {"egress"}, "ha_failed_over")

(* New primary, the mutation still there, three-replica stream, gateway and *)
(* direct API, each within its deadline.                                    *)
FailedOver(p) ==
    HaStep(p, "ha_failed_over", {"marker", "box"}, {}, {}, {}, "ha_message")

(* nats_publish_probe is repeated until an acknowledgement arrives: one     *)
(* that was lost leaves its message in the stream all the same.             *)
SecondMessage(p) ==
    /\ pc[p] = "ha_message"
    /\ \/ /\ cluster[Name(p)] # NoCluster
          /\ inside' = [inside EXCEPT ![Name(p)].phases =
                            @ \cup {IF "second" \in @ THEN "third" ELSE "second"}]
          /\ \E acknowledged \in BOOLEAN : Goto(p, IF acknowledged THEN "ha_count" ELSE "ha_message")
          /\ UNCHANGED ha
       \/ HaFail(p) /\ UNCHANGED inside
    /\ UNCHANGED <<cluster, marker, kubeconfig, lock, arg, attempt, error, store, archive>>

(* nats_message_count is exactly two: no message lost and none repeated.    *)
CountMessages(p) ==
    /\ pc[p] = "ha_count"
    /\ \/ /\ cluster[Name(p)] # NoCluster
          /\ inside[Name(p)].phases \cap {"first", "second", "third"} = {"first", "second"}
          /\ Goto(p, "ha_election")
          /\ UNCHANGED ha
       \/ HaFail(p)
    /\ UNCHANGED <<hostVars, arg, attempt, error, store, archive>>

(* finish_migration_election_probe closes the way to the database again.    *)
FinishElection(p) ==
    HaStep(p, "ha_election", {"egress"}, {}, {"egress"}, {"egress"}, "ha_leader")

(* wait_barman_plugin_leader_after_node_loss and a backup through the new   *)
(* leader.                                                                  *)
BarmanLeader(p) ==
    BackupComplete(p, "ha_leader", {}, Goto(p, "ha_start") /\ UNCHANGED ha)

(* docker start of the stopped node and the return of three zones.          *)
HaStartNode(p) ==
    /\ pc[p] = "ha_start"
    /\ \/ /\ cluster[Name(p)] # NoCluster
          /\ inside' = [inside EXCEPT ![Name(p)].phases = @ \ {"node_down"}]
          /\ \/ Become(p, "ha_backup", [ha[p] EXCEPT !.stopped = FALSE])
             \/ Become(p, "ha_finally", [ha[p] EXCEPT !.stopped = FALSE, !.err = TRUE])
       \/ HaFail(p) /\ UNCHANGED inside
    /\ UNCHANGED <<cluster, marker, kubeconfig, lock, arg, attempt, error, store, archive>>

(* insert_domain_node before the target, then a completed backup of it.     *)
HaBackup(p) ==
    BackupComplete(p, "ha_backup", {"before"}, Goto(p, "ha_after") /\ UNCHANGED ha)

(* wait_for_pitr_boundary, then the mutation after the target.              *)
HaAfter(p) == HaStep(p, "ha_after", {"before"}, {"after"}, {}, {}, "ha_wal")

(* measure_wal_archive: the segment that was current when the log was       *)
(* switched is archived and its object is listed in the store.              *)
HaSwitched(p) ==
    /\ pc[p] = "ha_wal"
    /\ \/ Goto(p, "ha_close") /\ UNCHANGED ha
       \/ HaFail(p)
    /\ UNCHANGED <<hostVars, arg, attempt, error, store, archive>>

HaArchived(p) ==
    /\ pc[p] = "ha_wal"
    /\ \/ Data(Site(p)) \subseteq archive /\ Goto(p, "ha_close") /\ UNCHANGED ha
       \/ HaFail(p)
    /\ UNCHANGED <<hostVars, arg, attempt, error, store, archive>>

(* The availability monitor is stopped and must have a report of the        *)
(* failure (HaAvailability); the probe pods are deleted.                    *)
CloseWindow(p) == HaStep(p, "ha_close", {"probes"}, {}, {"probes"}, {}, "ha_retire")

(* PostgreSQL archives its log (external), in its own time.                 *)
WalArchived ==
    /\ cluster[NameOf[HaPrimary]] # NoCluster
    /\ store["container"] # NoBinding
    /\ ~(Data(HaPrimary) \subseteq archive)
    /\ archive' = archive \cup Data(HaPrimary)
    /\ UNCHANGED <<kindVars, ha, store>>

-----------------------------------------------------------------------------
(* create_blank_restore_cluster: unless --keep, retire the primary first.   *)
HaRetire(p) ==
    /\ pc[p] = "ha_retire"
    /\ IF ha[p].keep
         THEN /\ Become(p, "reserve", [ha[p] EXCEPT !.stage = "restore"])
              /\ arg' = [arg EXCEPT ![p].site = HaRestore]
         ELSE /\ Become(p, "delete_if_present", [ha[p] EXCEPT !.stage = "retire"])
              /\ UNCHANGED arg
    /\ UNCHANGED <<hostVars, attempt, error, store, archive>>

(* Only "deleted" will do: a primary that is already gone is an error.      *)
HaRetired(p) ==
    /\ pc[p] \in {"deleted", "absent"} /\ HaProof(p) /\ ha[p].stage = "retire"
    /\ IF pc[p] = "deleted"
         THEN /\ Become(p, "reserve", [ha[p] EXCEPT !.primary = FALSE, !.stage = "restore"])
              /\ arg' = [arg EXCEPT ![p].site = HaRestore]
         ELSE HaFail(p) /\ UNCHANGED arg
    /\ UNCHANGED <<hostVars, attempt, error, store, archive>>

(* restore_cluster_document: recovery to a target time, exclusive.          *)
BeforeTarget(mutations) == mutations \ {"after"}

(* Recovery (external) is possible when the store holds a commit past the   *)
(* target.  Then the comparison of the data.                                *)
HaRestoreData(p) ==
    /\ pc[p] = "ha_restore"
    /\ \/ /\ cluster[Name(p)] # NoCluster /\ "operators" \in inside[Name(p)].phases
          /\ store["container"] # NoBinding /\ "after" \in archive
          /\ inside' = [inside EXCEPT ![Name(p)].phases = @ \cup BeforeTarget(archive)]
          /\ IF BeforeTarget(archive) = {"marker", "before"}
               THEN Goto(p, "ha_receipt") /\ UNCHANGED ha
               ELSE HaFail(p)
       \/ HaFail(p) /\ UNCHANGED inside
    /\ UNCHANGED <<cluster, marker, kubeconfig, lock, arg, attempt, error, store, archive>>

(* The receipt, status pass.                                                *)
HaReceipt(p) ==
    /\ pc[p] = "ha_receipt"
    /\ \/ Goto(p, "ha_finally") /\ UNCHANGED ha
       \/ HaFail(p)
    /\ UNCHANGED <<hostVars, arg, attempt, error, store, archive>>

-----------------------------------------------------------------------------
(* The except block exports the kubeconfigs again for its diagnostics; the  *)
(* finally block starts the stopped node, whatever comes of it, and cleans  *)
(* up what was created, unless --keep.  down does the same with every       *)
(* resource included.                                                       *)
HaFinally(p) ==
    /\ pc[p] = "ha_finally"
    /\ \/ inside' = [inside EXCEPT ![NameOf[HaPrimary]].phases =
                        IF ha[p].stopped THEN @ \ {"node_down"} ELSE @]
       \/ ha[p].stopped /\ UNCHANGED inside
    /\ kubeconfig' = [s \in Sites |->
          IF /\ HaProof(p) /\ ha[p].err /\ cluster[NameOf[s]] # NoCluster
             /\ \/ s = HaPrimary /\ ha[p].primary
                \/ s = HaRestore /\ ha[p].restore
            THEN cluster[NameOf[s]] ELSE kubeconfig[s]]
    /\ Become(p, IF ha[p].keep THEN "ha_exit" ELSE "ha_cleanup",
              [ha[p] EXCEPT !.stopped = FALSE, !.stage = "cleanup"])
    /\ UNCHANGED <<cluster, marker, lock, arg, attempt, error, store, archive>>

(* reconcile_owned_ha_resources: the restore cluster, the primary, the      *)
(* store; each is left out when it was not created, and one that fails does *)
(* not keep the next from being tried.                                      *)
HaCleanup(p) ==
    /\ pc[p] = "ha_cleanup"
    /\ \/ /\ ha[p].restore
          /\ Become(p, "delete_if_present", [ha[p] EXCEPT !.restore = FALSE])
          /\ arg' = [arg EXCEPT ![p].site = HaRestore]
       \/ /\ ~ha[p].restore /\ ha[p].primary
          /\ Become(p, "delete_if_present", [ha[p] EXCEPT !.primary = FALSE])
          /\ arg' = [arg EXCEPT ![p].site = HaPrimary]
       \/ /\ ~ha[p].restore /\ ~ha[p].primary
          /\ Become(p, IF ha[p].store THEN "store_container" ELSE "ha_exit",
                    [ha[p] EXCEPT !.store = FALSE])
          /\ UNCHANGED arg
    /\ UNCHANGED <<hostVars, attempt, error, store, archive>>

HaCleaned(p) ==
    /\ pc[p] \in {"deleted", "absent", "raise"} /\ HaTool(p) /\ ha[p].stage = "cleanup"
    /\ Become(p, "ha_cleanup", [ha[p] EXCEPT !.dirty = @ \/ pc[p] = "raise"])
    /\ Fail(p, "none")
    /\ UNCHANGED <<hostVars, arg, attempt, store, archive>>

(* main: 1 when prove raised or a cleanup error is left, else 0.            *)
HaExitClean(p) ==
    /\ pc[p] = "ha_exit"
    /\ End(p, IF ha[p].err THEN "failed" ELSE "done")
    /\ ha' = [ha EXCEPT ![p] = HaIdle]
    /\ UNCHANGED <<hostVars, arg, store, archive>>

HaExit(p) ==
    /\ pc[p] = "ha_exit"
    /\ End(p, IF ha[p].err \/ ha[p].dirty THEN "failed" ELSE "done")
    /\ ha' = [ha EXCEPT ![p] = HaIdle]
    /\ UNCHANGED <<hostVars, arg, store, archive>>

HaToolStep(p) ==
    \/ HaTools(p) \/ HaPreflight(p) \/ HaCreated(p) \/ HaRaise(p)
    \/ PreloadNats(p) \/ HaImages(p) \/ UpgradeCandidate(p) \/ HaPlatform(p) \/ ClusterDns(p)
    \/ StoreCheck(p) \/ StoreCreate(p) \/ ReconcileStore(p)
    \/ SecretContracts(p) \/ StoreEndpoint(p) \/ CertManager(p)
    \/ InstallCnpg(p) \/ CnpgWebhook(p) \/ BarmanPlugin(p) \/ InstallBarman(p)
    \/ HaData(p) \/ BarmanSidecars(p) \/ MigrationPartition(p) \/ MigrationRetry(p)
    \/ HaApp(p) \/ DirectProbes(p) \/ HaMarker(p)
    \/ HaUpgrade(p) \/ HaRollback(p) \/ ApiTransition(p) \/ Replaced(p) \/ HaAlign(p)
    \/ CreateNatsBox(p) \/ DomainStream(p) \/ HaStopNode(p) \/ StartElection(p) \/ FailedOver(p)
    \/ SecondMessage(p) \/ CountMessages(p) \/ FinishElection(p) \/ BarmanLeader(p) \/ HaStartNode(p)
    \/ HaBackup(p) \/ HaAfter(p) \/ HaArchived(p) \/ CloseWindow(p)
    \/ HaRetire(p) \/ HaRetired(p) \/ HaRestoreData(p)
    \/ HaReceipt(p) \/ HaFinally(p) \/ HaCleanup(p) \/ HaCleaned(p) \/ HaExit(p)
=============================================================================
