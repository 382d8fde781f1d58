----------------------------- MODULE KindCluster -----------------------------
(***************************************************************************)
(* Ownership of kind clusters on one host, as scripts/platform/             *)
(* kind_reference.py keeps it: a marker file per cluster name, a flock      *)
(* around every change of it, creation with bounded retries and a rollback, *)
(* and deletion that requires the exact binding of the marker.  The tools   *)
(* that own clusters (KindReference, StagingCell) EXTEND this module.       *)
(*                                                                          *)
(* A site is a directory of markers (a work tree's cache, or the state root *)
(* of the staging cell) together with the cluster name used in it; NameOf   *)
(* is the name.  Two sites may share a name: markers and locks are per      *)
(* site, while the clusters belong to the host.                             *)
(***************************************************************************)
EXTENDS Naturals, FiniteSets

CONSTANTS Procs,        \* invocations of the tools
          Sites,        \* (marker directory, cluster name) pairs
          NameOf,       \* the cluster name of a site
          Owners,       \* owner ids
          Commits,      \* Git object ids
          NoProc, NoOwner, NoCommit, NoCluster

CONSTANT KindCreateAttempts     \* KIND_CREATE_ATTEMPTS, 3 in the code

ASSUME SiteAssumption == NameOf \in [Sites -> {NameOf[s] : s \in Sites}]
ASSUME AttemptAssumption == KindCreateAttempts \in Nat \ {0}
ASSUME NullAssumption == /\ NoProc \notin Procs
                         /\ NoOwner \notin Owners
                         /\ NoCommit \notin Commits
                         /\ NoCluster \notin Procs

Names == {NameOf[s] : s \in Sites}

(* What validate_ownership_binding admits, and the absence of a marker.     *)
Binding == [owner: Owners, commit: Commits]
NoBinding == [owner |-> NoOwner, commit |-> NoCommit]

VARIABLES cluster,      \* name -> the invocation whose kind create made it
          inside,       \* name -> what has been installed in that cluster
          marker,       \* site -> the binding in the marker file
          kubeconfig,   \* site -> the creator of the cluster it points to
          lock,         \* site -> the invocation holding the flock
          pc,           \* invocation -> next step
          arg,          \* invocation -> command, site and binding
          attempt,      \* invocation -> index of the kind create attempt
          error         \* invocation -> the exception in flight

hostVars == <<cluster, inside, marker, kubeconfig, lock>>
procVars == <<pc, arg, attempt, error>>
kindVars == <<hostVars, procVars>>

(* In a cluster: the proof phases and Kubernetes objects whose effect the   *)
(* tools look at again.  secret is the injected credential (0: none), ref   *)
(* the commit the Flux source is pinned to, current whether Flux has        *)
(* applied that commit.                                                     *)
Empty == [phases |-> {}, secret |-> 0, ref |-> NoCommit, current |-> FALSE]

Site(p) == arg[p].site
Name(p) == NameOf[Site(p)]
Bound(p) == [owner |-> arg[p].owner, commit |-> arg[p].commit]
NoArg == [cmd |-> "none", owner |-> NoOwner, commit |-> NoCommit]

Terminal == {"done", "failed", "crashed"}

Goto(p, step) == pc' = [pc EXCEPT ![p] = step]
Fail(p, why) == error' = [error EXCEPT ![p] = why]
End(p, how) == Goto(p, how) /\ Fail(p, "none") /\ attempt' = [attempt EXCEPT ![p] = 0]
Unlock(p) == lock' = [lock EXCEPT ![Site(p)] = NoProc]

KindInit ==
    /\ cluster = [n \in Names |-> NoCluster]
    /\ inside = [n \in Names |-> Empty]
    /\ marker = [s \in Sites |-> NoBinding]
    /\ kubeconfig = [s \in Sites |-> NoProc]
    /\ lock = [s \in Sites |-> NoProc]
    /\ pc = [p \in Procs |-> "idle"]
    /\ arg = [p \in Procs |-> NoArg]
    /\ attempt = [p \in Procs |-> 0]
    /\ error = [p \in Procs |-> "none"]

-----------------------------------------------------------------------------
(* main parses a command; generate_owner_id and --owner-id give the owner.  *)
Start(p, cmd, first, s, o, c) ==
    /\ pc[p] = "idle"
    /\ arg' = [arg EXCEPT ![p] = [cmd |-> cmd, site |-> s, owner |-> o, commit |-> c]]
    /\ Goto(p, first)
    /\ UNCHANGED <<hostVars, attempt, error>>

(* cluster_creation_reservation up to its yield: under the flock, refuse an *)
(* existing cluster and any marker, else publish the marker (os.link of a   *)
(* complete file) and keep the lock.                                        *)
Reserve(p) ==
    /\ pc[p] = "reserve"
    /\ lock[Site(p)] = NoProc
    /\ IF cluster[Name(p)] # NoCluster \/ marker[Site(p)] # NoBinding
         THEN /\ Goto(p, "raise")
              /\ Fail(p, "permanent")
              /\ UNCHANGED <<marker, lock>>
         ELSE /\ marker' = [marker EXCEPT ![Site(p)] = Bound(p)]
              /\ lock' = [lock EXCEPT ![Site(p)] = p]
              /\ Goto(p, "create")
              /\ UNCHANGED error
    /\ UNCHANGED <<cluster, inside, kubeconfig, arg, attempt>>

(* kind create cluster.  It refuses a name in use; it may fail or time out  *)
(* before or after its node containers exist; the failure text decides      *)
(* whether _is_transient_kind_create_error calls it transient.              *)
KindCreate(p) ==
    /\ pc[p] = "create"
    /\ \/ /\ cluster[Name(p)] = NoCluster
          /\ cluster' = [cluster EXCEPT ![Name(p)] = p]
          /\ inside' = [inside EXCEPT ![Name(p)] = Empty]
          /\ \/ Goto(p, "access") /\ UNCHANGED error
             \/ Goto(p, "rollback") /\ Fail(p, "transient")
       \/ /\ Goto(p, "rollback")
          /\ \E why \in {"transient", "permanent"} : Fail(p, why)
          /\ UNCHANGED <<cluster, inside>>
    /\ UNCHANGED <<marker, kubeconfig, lock, arg, attempt>>

(* configure_cluster_access, still inside the reservation; leaving the      *)
(* context manager releases the lock and create_kind_cluster returns.       *)
ConfigureAccess(p) ==
    /\ pc[p] = "access"
    /\ \/ /\ cluster[Name(p)] # NoCluster
          /\ kubeconfig' = [kubeconfig EXCEPT ![Site(p)] = cluster[Name(p)]]
          /\ Unlock(p)
          /\ Goto(p, "created")
          /\ UNCHANGED error
       \/ /\ Goto(p, "rollback")
          /\ \E why \in {"transient", "permanent"} : Fail(p, why)
          /\ UNCHANGED <<kubeconfig, lock>>
    /\ UNCHANGED <<cluster, inside, marker, arg, attempt>>

(* The except branch of the reservation: delete the cluster of that name if *)
(* one is listed; when listing or deleting fails, keep the marker.          *)
RollbackForgets(p) ==
    /\ pc[p] = "rollback"
    /\ \/ /\ cluster' = [cluster EXCEPT ![Name(p)] = NoCluster]
          /\ inside' = [inside EXCEPT ![Name(p)] = Empty]
       \/ UNCHANGED <<cluster, inside>>
    /\ Goto(p, "rollback_marker")
    /\ UNCHANGED <<lock, marker, kubeconfig, arg, attempt, error>>

Rollback(p) ==
    /\ pc[p] = "rollback"
    /\ \/ /\ cluster' = [cluster EXCEPT ![Name(p)] = NoCluster]
          /\ inside' = [inside EXCEPT ![Name(p)] = Empty]
          /\ Goto(p, "rollback_marker")
          /\ UNCHANGED lock
       \/ /\ Unlock(p)
          /\ Goto(p, "again")
          /\ UNCHANGED <<cluster, inside>>
    /\ UNCHANGED <<marker, kubeconfig, arg, attempt, error>>

(* _remove_cluster_state_files_durably: the marker goes first, then the     *)
(* kubeconfig; a crash may fall between the two.                            *)
RemoveMarker(p) ==
    /\ \/ pc[p] = "rollback_marker" /\ Goto(p, "rollback_kubeconfig")
       \/ pc[p] = "delete_marker" /\ Goto(p, "delete_kubeconfig")
    /\ marker' = [marker EXCEPT ![Site(p)] = NoBinding]
    /\ UNCHANGED <<cluster, inside, kubeconfig, lock, arg, attempt, error>>

RemoveKubeconfig(p) ==
    /\ \/ pc[p] = "rollback_kubeconfig" /\ Goto(p, "again")
       \/ pc[p] = "delete_kubeconfig" /\ Goto(p, "deleted")
    /\ kubeconfig' = [kubeconfig EXCEPT ![Site(p)] = NoProc]
    /\ Unlock(p)
    /\ UNCHANGED <<cluster, inside, marker, arg, attempt, error>>

(* The handler of create_kind_cluster: retry a transient failure while      *)
(* attempts are left and no marker is in the way (looked up without lock).  *)
TryAgain(p) ==
    /\ pc[p] = "again"
    /\ IF /\ error[p] = "transient"
          /\ attempt[p] + 1 < KindCreateAttempts
          /\ marker[Site(p)] = NoBinding
         THEN /\ attempt' = [attempt EXCEPT ![p] = @ + 1]
              /\ Fail(p, "none")
              /\ Goto(p, "reserve")
         ELSE /\ Goto(p, "raise")
              /\ UNCHANGED <<attempt, error>>
    /\ UNCHANGED <<hostVars, arg>>

-----------------------------------------------------------------------------
(* _require_marker_binding: every field of the marker equals the caller's.  *)
MarkerExists(p) == marker[Site(p)] # NoBinding
MarkerBinds(p) == marker[Site(p)] # NoBinding /\ marker[Site(p)] = Bound(p)

(* require_owned_cluster: under the lock, the cluster is listed and the     *)
(* marker binds; the kubeconfig is exported only after the lock is released.*)
RequireOwned(p) ==
    /\ pc[p] = "require_owned"
    /\ lock[Site(p)] = NoProc
    /\ IF cluster[Name(p)] # NoCluster /\ MarkerBinds(p)
         THEN Goto(p, "export") /\ UNCHANGED error
         ELSE Goto(p, "raise") /\ Fail(p, "permanent")
    /\ UNCHANGED <<hostVars, arg, attempt>>

ExportKubeconfig(p) ==
    /\ pc[p] = "export"
    /\ \/ /\ cluster[Name(p)] # NoCluster
          /\ kubeconfig' = [kubeconfig EXCEPT ![Site(p)] = cluster[Name(p)]]
          /\ Goto(p, "owned")
          /\ UNCHANGED error
       \/ /\ Goto(p, "raise")
          /\ Fail(p, "permanent")
          /\ UNCHANGED kubeconfig
    /\ UNCHANGED <<cluster, inside, marker, lock, arg, attempt>>

(* delete_owned_cluster ("delete") and delete_owned_cluster_if_present      *)
(* ("delete_if_present"): without a marker the first always refuses, the    *)
(* second refuses a cluster nobody marked and else reports it absent.       *)
DeleteOwned(p) ==
    /\ pc[p] \in {"delete", "delete_if_present"}
    /\ lock[Site(p)] = NoProc
    /\ \/ /\ MarkerBinds(p)
          /\ lock' = [lock EXCEPT ![Site(p)] = p]
          /\ Goto(p, "kind_delete")
          /\ UNCHANGED error
       \/ /\ pc[p] = "delete_if_present"
          /\ marker[Site(p)] = NoBinding
          /\ cluster[Name(p)] = NoCluster
          /\ Goto(p, "absent")
          /\ UNCHANGED <<lock, error>>
       \/ /\ ~MarkerBinds(p)
          /\ \/ pc[p] = "delete"
             \/ marker[Site(p)] # NoBinding
             \/ cluster[Name(p)] # NoCluster
          /\ Goto(p, "raise")
          /\ Fail(p, "permanent")
          /\ UNCHANGED lock
    /\ UNCHANGED <<cluster, inside, marker, kubeconfig, arg, attempt>>

(* kind delete cluster; when it fails the marker and the kubeconfig stay.   *)
KindDelete(p) ==
    /\ pc[p] = "kind_delete"
    /\ \/ /\ cluster' = [cluster EXCEPT ![Name(p)] = NoCluster]
          /\ inside' = [inside EXCEPT ![Name(p)] = Empty]
          /\ Goto(p, "delete_marker")
          /\ UNCHANGED <<lock, error>>
       \/ /\ Unlock(p)
          /\ Goto(p, "raise")
          /\ Fail(p, "permanent")
          /\ UNCHANGED <<cluster, inside>>
    /\ UNCHANGED <<marker, kubeconfig, arg, attempt>>

KindStep(p) ==
    \/ Reserve(p) \/ KindCreate(p) \/ ConfigureAccess(p)
    \/ Rollback(p) \/ RemoveMarker(p) \/ RemoveKubeconfig(p) \/ TryAgain(p)
    \/ RequireOwned(p) \/ ExportKubeconfig(p) \/ DeleteOwned(p) \/ KindDelete(p)

(* The process dies with its child processes; the kernel drops its flocks,  *)
(* while markers, kubeconfigs and clusters stay as they are.                *)
KindCrash(p) ==
    /\ pc[p] \notin Terminal \cup {"idle"}
    /\ lock' = [s \in Sites |-> IF lock[s] = p THEN NoProc ELSE lock[s]]
    /\ End(p, "crashed")
    /\ UNCHANGED <<cluster, inside, marker, kubeconfig, arg>>
==============================================================================
