---------------------------- MODULE KindReference ----------------------------
(***************************************************************************)
(* The commands of scripts/platform/kind_reference.py: proof builds a       *)
(* cluster, installs the platform and the application in it, proves         *)
(* restart, drift repair and gateway, writes a receipt and deletes the      *)
(* cluster; down deletes what an earlier invocation of the same owner left  *)
(* behind.  Kubernetes, Flux and kind are external: a phase that waits for  *)
(* them succeeds on the cluster the kubeconfig points to or runs into its   *)
(* deadline.                                                                *)
(***************************************************************************)
EXTENDS KindCluster

CONSTANTS ReferenceSites,   \* the sites the proofs use
          Options,          \* --mode and --keep of the proofs
          Strict            \* controlled_oci_strict(): WELTGEWEBE_PROOF_OCI_STRICT

ASSUME ReferenceAssumption ==
    /\ ReferenceSites \subseteq Sites
    /\ Options \subseteq [mode: {"direct", "gitops"}, keep: BOOLEAN]
    /\ Strict \in BOOLEAN

VARIABLES option,     \* invocation -> --mode and --keep
          evidence,   \* invocation -> creators of the clusters its phases ran on
          receipts    \* invocations that wrote a receipt with status "pass"

referenceVars == <<option, evidence, receipts>>

NoOption == [mode |-> "direct", keep |-> FALSE]

ReferenceInit ==
    /\ option = [p \in Procs |-> NoOption]
    /\ evidence = [p \in Procs |-> {}]
    /\ receipts = {}

(* has_exactly_one_value and validate_source_binding: direct mode takes     *)
(* neither --source-ref nor --source-commit, gitops exactly one of them.    *)
SourceBindingValid(mode, ref, commit) ==
    IF mode = "direct" THEN ~ref /\ ~commit ELSE ref # commit

(* The invocations of one owner at one site follow one another (the         *)
(* workflow runs down after proof with the same owner id).                  *)
OwnerIdle(s, o) ==
    \A q \in Procs : pc[q] # "idle" /\ arg[q].site = s /\ arg[q].owner = o
                        => pc[q] \in Terminal

StartProof(p) ==
    \E s \in ReferenceSites, o \in Owners, c \in Commits, opt \in Options :
        /\ OwnerIdle(s, o)
        /\ Start(p, "proof", "proof", s, o, c)
        /\ option' = [option EXCEPT ![p] = opt]
        /\ UNCHANGED <<evidence, receipts>>

(* proof until its try block: source and workspace binding, a clean work    *)
(* tree, host tools and the tool receipt; then, when strict, the offline    *)
(* check of the OCI images on the host (prepare_controlled_oci_host).       *)
Preflight(p) ==
    /\ pc[p] = "proof"
    /\ \E ref, commit, clean, tools \in BOOLEAN :
          IF /\ SourceBindingValid(option[p].mode, ref, commit)
             /\ clean
             /\ tools
            THEN Goto(p, IF Strict THEN "oci_host" ELSE "reserve") /\ UNCHANGED error
            ELSE Goto(p, "raise") /\ Fail(p, "permanent")
    /\ UNCHANGED <<hostVars, arg, attempt, referenceVars>>

PrepareOciHost(p) ==
    /\ pc[p] = "oci_host"
    /\ \/ Goto(p, "reserve") /\ UNCHANGED error
       \/ Goto(p, "raise") /\ Fail(p, "permanent")
    /\ UNCHANGED <<hostVars, arg, attempt, referenceVars>>

(* The except and finally blocks: keep the cluster, or delete it as owner.  *)
Finally(p) == IF option[p].keep THEN "kept" ELSE "delete"

(* One phase, after create_kind_cluster has returned: kubectl and helm      *)
(* reach the cluster the site's kubeconfig names, when that cluster still   *)
(* exists and already holds what the phase builds on; any other outcome     *)
(* raises into the finally block.                                           *)
Phase(p, from, ph, needs, next) ==
    /\ pc[p] = from /\ arg[p].cmd = "proof"
    /\ \/ /\ kubeconfig[Site(p)] = cluster[Name(p)]
          /\ needs \subseteq inside[Name(p)].phases
          /\ inside' = [inside EXCEPT ![Name(p)].phases = @ \cup {ph}]
          /\ evidence' = [evidence EXCEPT ![p] = @ \cup {cluster[Name(p)]}]
          /\ Goto(p, next)
          /\ UNCHANGED error
       \/ /\ Goto(p, Finally(p))
          /\ Fail(p, "permanent")
          /\ evidence' = [evidence EXCEPT ![p] = {}]
          /\ UNCHANGED inside
    /\ UNCHANGED <<cluster, marker, kubeconfig, lock, arg, attempt, option, receipts>>

(* load_controlled_oci_into_kind: every expected image, on every node, with *)
(* its locked digest, and a registry blockade on every node.                *)
LoadControlledOci(p) == 
    Strict /\ Phase(p, "created", "oci", {}, "images")

(* The images a strict cluster may run: pull policy Never, so only the      *)
(* mirror's images already on its nodes.                                    *)
Mirrored == IF Strict THEN {"oci"} ELSE {}

(* build_images: both images built from the commit and loaded by kind.      *)
BuildImages(p) == Phase(p, IF Strict THEN "images" ELSE "created", "images", {}, "platform")

(* install_platform_components: gateway CRDs, then Cilium, then Flux.       *)
InstallPlatform(p) == Phase(p, "platform", "platform", Mirrored, "data")

(* apply_flux_data, or apply_direct and migrate_direct.                     *)
ApplyData(p) == Phase(p, "data", "data", {"platform"} \cup Mirrored, "app")

(* apply_app_and_gateway and wait_apps: two replicas of the loaded image    *)
(* against the migrated database.                                           *)
ApplyApp(p) == Phase(p, "app", "app", {"images", "platform", "data"}, "restart")

(* prove_restart: no ready pod survives the rollout, the commit is the same.*)
ProveRestart(p) ==
    Phase(p, "restart", "restart", {"app"}, IF option[p].mode = "gitops" THEN "drift" ELSE "gateway")

(* prove_flux_drift, in gitops mode only: Flux scales one replica to two.   *)
ProveFluxDrift(p) == Phase(p, "drift", "drift", {"app"}, "gateway")

(* prove_gateway: programmed gateway and route conditions of the current    *)
(* generation, then the one listener's port and the status addresses, then  *)
(* an HTTP answer through one of them.                                      *)
RouteAccepted(p) == Phase(p, "gateway", "route", {"app"}, "listener")
GatewayListener(p) == Phase(p, "listener", "listener", {"route"}, "probe")
ProveGateway(p) == Phase(p, "probe", "gateway", {"app", "listener"}, "receipt")

(* write_json_atomic of the receipt: a new file replaces the old or nothing.*)
WriteReceipt(p) ==
    /\ pc[p] = "receipt"
    /\ \/ receipts' = receipts \cup {p} /\ UNCHANGED <<error, evidence>>
       \/ /\ Fail(p, "permanent")
          /\ evidence' = [evidence EXCEPT ![p] = {}]
          /\ UNCHANGED receipts
    /\ Goto(p, Finally(p))
    /\ UNCHANGED <<hostVars, arg, attempt, option>>

(* main returns: 0 when no exception is left, else 1.                       *)
Exit(p) ==
    /\ arg[p].cmd \in {"proof", "down"}
    /\ \/ /\ pc[p] \in {"kept", "deleted", "absent"}
          /\ End(p, IF error[p] = "none" THEN "done" ELSE "failed")
       \/ pc[p] = "raise" /\ End(p, "failed")
    /\ option' = [option EXCEPT ![p] = NoOption]
    /\ UNCHANGED <<hostVars, arg, evidence, receipts>>

(* down --commit --owner-id: delete_owned_cluster_if_present.               *)
StartDown(p) ==
    \E s \in ReferenceSites, o \in Owners, c \in Commits :
        /\ OwnerIdle(s, o)
        /\ Start(p, "down", "delete_if_present", s, o, c)
        /\ UNCHANGED referenceVars

ReferenceStep(p) ==
    \/ Preflight(p) \/ PrepareOciHost(p)
    \/ LoadControlledOci(p) \/ BuildImages(p) \/ InstallPlatform(p)
    \/ ApplyData(p) \/ ApplyApp(p)
    \/ ProveRestart(p) \/ ProveFluxDrift(p)
    \/ RouteAccepted(p) \/ GatewayListener(p) \/ ProveGateway(p)
    \/ WriteReceipt(p) \/ Exit(p)
==============================================================================
