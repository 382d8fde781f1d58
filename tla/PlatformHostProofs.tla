-------------------------- MODULE PlatformHostProofs --------------------------
(***************************************************************************)
(* Ownership of the clusters and of the object store, and the credential   *)
(* of the staging cell, for any number of invocations, owners, commits and *)
(* sites of the proofs.                                                     *)
(*                                                                          *)
(* The invariant has five layers.  Host: the shape of the state, and that   *)
(* every invocation is at a step of its own command.  Owned: an invocation  *)
(* between reservation and release holds the lock of its site, and what it  *)
(* read under the lock still holds, so that marker and cluster agree.       *)
(* Proven: the invocations of one owner exclude each other, so that nobody  *)
(* takes a cluster from under a proof, or a part of the object store from   *)
(* between its inspection and its removal.  Celled: up and down hold the    *)
(* lifecycle lock, so that the credential, the receipt, the cluster and the *)
(* data agree on one credential.  Kept: at every step of the                *)
(* high-availability tool, which of its resources it still has, which it    *)
(* has removed, and which mutations are in the object store.                *)
(***************************************************************************)
EXTENDS PlatformHost, TLAPS

-----------------------------------------------------------------------------
(* The assumptions: sites have names of their own (two work trees with one  *)
(* name do break NoForeignDelete), and each tool has sites of its own.      *)

DistinctNames == \A s, t \in Sites : NameOf[s] = NameOf[t] => s = t

SeparateSites ==
    /\ ReferenceSites \cap {StagingSite, HaPrimary, HaRestore} = {}
    /\ StagingSite \notin {HaPrimary, HaRestore}

-----------------------------------------------------------------------------
(* Host: shapes and programs *)

Commands == {"proof", "down", "up", "staging_down", "status", "ha_proof", "ha_down"}
Args == [cmd : Commands, site : Sites, owner : Owners, commit : Commits]
\* Which phases there are does not matter.
Contents(in) == /\ DOMAIN in = {"phases", "secret", "ref", "current"}
                /\ in.secret \in Nat /\ in.current \in BOOLEAN
Cells == [status : {"bootstrap-in-progress", "ready"}, owner : Owners, commit : Commits, secret : Nat]
Labels == Binding \cup {NoBinding}

HostTypes ==
    /\ cluster \in [Names -> Procs \cup {NoCluster}]
    /\ DOMAIN inside = Names /\ \A n \in Names : Contents(inside[n])
    /\ marker \in [Sites -> Labels]
    /\ lock \in [Sites -> Procs \cup {NoProc}]
    /\ DOMAIN pc = Procs
    /\ arg \in [Procs -> Args \cup {NoArg}]

CellTypes == /\ cell \in Cells \cup {NoCell} /\ secret \in Nat /\ pgdata \in Nat /\ minted \in Nat
             /\ DOMAIN report = Procs

\* The steps of KindCluster's three calls, and of the tools.
Creating == {"reserve", "create", "access", "rollback", "rollback_marker", "rollback_kubeconfig", "again", "created"}
Requiring == {"require_owned", "export", "owned"}
Deleting == {"delete", "delete_if_present", "kind_delete", "delete_marker", "delete_kubeconfig", "deleted", "absent"}
Proving == {"images", "platform", "data", "app", "restart", "drift", "gateway", "listener", "probe", "receipt"}
Upping == {"up_check", "up_cell", "up_secret", "up_bind", "up_config", "up_platform", "up_inject", "up_flux",
           "up_volumes", "up_reconcile", "up_receipt"}
Ended == Terminal \cup {"raise"}
NotHa == {"idle", "proof", "oci_host", "kept", "up", "staging_down", "down_check", "status"}
            \cup Requiring \cup Proving \cup Upping

\* Every invocation is at a step of its command.
Program(p) ==
    /\ arg[p].cmd = "none" => pc[p] = "idle"
    /\ arg[p].cmd = "proof" => pc[p] \in {"proof", "oci_host", "kept"} \cup Creating \cup Proving \cup Deleting \cup Ended
    /\ arg[p].cmd = "down" => pc[p] \in Deleting \cup Ended
    /\ arg[p].cmd = "up" => pc[p] \in {"up"} \cup Upping \cup Creating \cup Requiring \cup Ended
    /\ arg[p].cmd = "staging_down" => pc[p] \in {"staging_down", "down_check"} \cup Deleting \cup Ended
    /\ arg[p].cmd = "status" => pc[p] \in {"status"} \cup Requiring \cup Ended
    /\ arg[p].cmd \in {"ha_proof", "ha_down"} => pc[p] \notin NotHa

\* Every command works at its sites.
AtItsSite(p) ==
    /\ arg[p].cmd \in {"proof", "down"} => arg[p].site \in ReferenceSites
    /\ arg[p].cmd \in {"up", "staging_down", "status"} => arg[p].site = StagingSite
    /\ arg[p].cmd \in {"ha_proof", "ha_down"} => arg[p].site \in {HaPrimary, HaRestore}

Host == HostTypes /\ CellTypes /\ \A p \in Procs : Program(p) /\ AtItsSite(p)

-----------------------------------------------------------------------------
(* Owned: locks, markers and clusters *)

Holding == {"create", "access", "rollback", "rollback_marker", "rollback_kubeconfig",
            "kind_delete", "delete_marker", "delete_kubeconfig"}
\* Before these steps are over an invocation has created nothing.
Fresh == {"idle", "up", "staging_down", "status", "down_check"}

\* What an invocation that holds the lock of its site knows.
Reserved(p) ==
    /\ pc[p] \in Holding => lock[Site(p)] = p
    /\ pc[p] \in {"create", "access", "rollback", "rollback_marker", "kind_delete"} => marker[Site(p)] = Bound(p)
    /\ pc[p] = "create" => cluster[Name(p)] = NoCluster
    /\ pc[p] \in {"access", "rollback"} => cluster[Name(p)] \in {NoCluster, p}
    /\ pc[p] \in {"rollback_marker", "delete_marker"} => cluster[Name(p)] = NoCluster

\* The site of a cluster carries the marker of its creator.
Marked(s) ==
    cluster[NameOf[s]] # NoCluster =>
        /\ marker[s] = Bound(cluster[NameOf[s]])
        /\ pc[cluster[NameOf[s]]] \notin Fresh

Owned == /\ \A p \in Procs : Reserved(p)
         /\ \A s \in Sites : Marked(s)

-----------------------------------------------------------------------------
(* Proven: one owner at a time *)

Active(p) == pc[p] \notin Terminal
ProofTool(p) == arg[p].cmd \in {"proof", "down"}

\* The invocations of one owner follow one another.
OneAtATime(p, q) ==
    p # q /\ Active(p) /\ Active(q) /\ arg[p].owner = arg[q].owner =>
        /\ ~(HaTool(p) /\ HaTool(q))
        /\ ~(ProofTool(p) /\ ProofTool(q) /\ arg[p].site = arg[q].site)

\* What was inspected is still there when it is removed.
Inspected(p) ==
    /\ pc[p] = "rm_container" => store["container"] = Bound(p)
    /\ pc[p] = "rm_volume" => store["volume"] = Bound(p)

StoreTypes == store \in [{"container", "volume"} -> Labels]

\* Nobody takes the cluster from under a proof, which is all its evidence.
Evident(p) ==
    /\ arg[p].cmd = "proof" /\ pc[p] \in Proving \cup {"created"} => cluster[Name(p)] = p
    /\ evidence[p] \in {{}, {p}}
    /\ pc[p] \in Proving => evidence[p] = {p}
    /\ p \in receipts => /\ evidence[p] = {p} /\ arg[p].cmd = "proof"
                         /\ pc[p] \in {"kept"} \cup Deleting \cup Ended

EvidenceTypes == evidence \in [Procs -> SUBSET Procs] /\ receipts \subseteq Procs

Proven == /\ StoreTypes /\ EvidenceTypes
          /\ \A p, q \in Procs : OneAtATime(p, q)
          /\ \A p \in Procs : Inspected(p) /\ Evident(p)

-----------------------------------------------------------------------------
(* Celled: one credential *)

StagingName == NameOf[StagingSite]

\* up and down work under the lifecycle lock.
LifecycleHeld(p) ==
    /\ arg[p].cmd = "up" /\ pc[p] \notin {"up"} \cup Terminal => lifecycle = p
    /\ arg[p].cmd = "staging_down" /\ pc[p] \notin {"staging_down"} \cup Terminal => lifecycle = p

Same(c, d) == c = 0 \/ d = 0 \/ c = d
OneCredential ==
    /\ Same(secret, cell.secret) /\ Same(secret, inside[StagingName].secret) /\ Same(secret, pgdata)
    /\ Same(cell.secret, inside[StagingName].secret) /\ Same(cell.secret, pgdata)
    /\ Same(inside[StagingName].secret, pgdata)

Nothing == cluster[StagingName] = NoCluster => inside[StagingName].secret = 0

\* How far up has got.
Bootstrapped(p) ==
    /\ pc[p] = "up_secret" /\ cell = NoCell => inside[StagingName].secret = 0
    /\ pc[p] \in {"up_secret", "up_bind"} /\ cell = NoCell => ~existing[p]
    /\ pc[p] \in {"up_secret", "up_bind"} /\ cell # NoCell => cell.owner = arg[p].owner
    /\ arg[p].cmd = "up" /\ pc[p] \in (Upping \ {"up_check", "up_cell", "up_secret", "up_bind"}) \cup Creating \cup Requiring =>
          cell # NoCell /\ cell.owner = arg[p].owner /\ cell.commit = arg[p].commit
    /\ pc[p] \in {"up_flux", "up_volumes", "up_reconcile", "up_receipt"} => inside[StagingName].secret = cell.secret

Initialised == inside[StagingName].current => pgdata # 0

\* The invocation's part, and the cell's.
Holds(p) == LifecycleHeld(p) /\ Bootstrapped(p) /\ (report[p] # "none" => arg[p].cmd = "status")
Credentials == OneCredential /\ Nothing /\ Initialised

Celled == DOMAIN existing = Procs /\ Credentials /\ \A p \in Procs : Holds(p)

-----------------------------------------------------------------------------
(* Facts about one invocation *)

LEMMA ArgOf ==
  ASSUME Host, NEW p \in Procs, pc[p] # "idle"
  PROVE  /\ arg[p] \in Args /\ Site(p) \in Sites /\ Name(p) \in Names
         /\ Bound(p) \in Binding /\ Bound(p) # NoBinding
<1>1. arg[p] \in Args \cup {NoArg} /\ Program(p)
  BY DEF Host, HostTypes
<1>2. arg[p] # NoArg
  BY <1>1 DEF Program, NoArg
<1>3. arg[p] \in Args /\ Site(p) \in Sites /\ Name(p) \in Names
  BY <1>1, <1>2 DEF Args, Site, Name, Names
<1>4. arg[p].owner \in Owners /\ arg[p].commit \in Commits
  BY <1>3 DEF Args
<1>5. Bound(p) \in Binding
  BY <1>4 DEF Bound, Binding
<1>6. Bound(p) # NoBinding
  <2>1. Bound(p).owner = arg[p].owner /\ NoBinding.owner = NoOwner
    BY DEF Bound, NoBinding
  <2> QED
    BY <1>4, <2>1, NullAssumption
<1> QED
  BY <1>3, <1>5, <1>6

\* A step of p that leaves clusters, markers and locks alone.
OwnStep(p) ==
    /\ UNCHANGED <<cluster, marker, lock>>
    /\ DOMAIN pc' = Procs /\ arg' \in [Procs -> Args \cup {NoArg}]
    /\ \A q \in Procs \ {p} : pc'[q] = pc[q] /\ arg'[q] = arg[q]
    /\ pc[p] \notin Holding \cup Terminal /\ pc'[p] \notin Holding
    /\ pc'[p] \in Fresh => pc[p] \in Fresh
    /\ pc[p] \notin Fresh => arg'[p].owner = arg[p].owner /\ arg'[p].commit = arg[p].commit
    /\ pc[p] # "idle" => arg'[p].cmd = arg[p].cmd /\ (HaTool(p) \/ arg'[p].site = arg[p].site)
    /\ Program(p)' /\ AtItsSite(p)'

\* In the clusters it changes at most which phases are done.
OnlyPhases ==
    inside' = inside \/ \E n \in Names : \E ph : inside' = [inside EXCEPT ![n].phases = ph]

LEMMA PhasesKeepContents ==
  ASSUME HostTypes, OnlyPhases
  PROVE  /\ DOMAIN inside' = Names /\ \A n \in Names : Contents(inside'[n])
         /\ \A n \in Names : inside'[n].secret = inside[n].secret /\ inside'[n].current = inside[n].current
<1>1. CASE inside' = inside
  BY <1>1 DEF HostTypes
<1>2. ASSUME NEW n \in Names, NEW ph, inside' = [inside EXCEPT ![n].phases = ph]
      PROVE  /\ DOMAIN inside' = Names /\ \A m \in Names : Contents(inside'[m])
             /\ \A m \in Names : inside'[m].secret = inside[m].secret /\ inside'[m].current = inside[m].current
  <2>1. DOMAIN inside = Names /\ \A m \in Names : Contents(inside[m])
    BY DEF HostTypes
  <2>2. /\ Contents([inside[n] EXCEPT !.phases = ph])
        /\ [inside[n] EXCEPT !.phases = ph].secret = inside[n].secret
        /\ [inside[n] EXCEPT !.phases = ph].current = inside[n].current
    BY <2>1 DEF Contents
  <2>3. inside' = [inside EXCEPT ![n] = [inside[n] EXCEPT !.phases = ph]]
    BY <1>2
  <2>4. DOMAIN inside' = Names /\ inside'[n] = [inside[n] EXCEPT !.phases = ph]
        /\ \A m \in Names \ {n} : inside'[m] = inside[m]
    BY <2>1, <2>3
  <2> QED
    BY <2>1, <2>2, <2>4
<1> QED
  BY <1>1, <1>2 DEF OnlyPhases

-----------------------------------------------------------------------------
(* The steps of the reference proof *)

\* What they all do.
ReferenceMoves(p) ==
    /\ ProofTool(p) /\ UNCHANGED <<cluster, marker, lock, arg>> /\ OnlyPhases
    /\ pc[p] \in {"proof", "oci_host", "kept", "created", "deleted", "absent", "raise"} \cup Proving
    /\ \/ \E t \in {"done", "failed"} : pc' = [pc EXCEPT ![p] = t]
       \/ /\ arg[p].cmd = "proof"
          /\ \E t \in {"oci_host", "reserve", "raise", "kept", "delete"} \cup Proving : pc' = [pc EXCEPT ![p] = t]

LEMMA PhaseMoves ==
  ASSUME Host, NEW p \in Procs, NEW from \in {"created"} \cup Proving, NEW ph, NEW needs,
         NEW next \in Proving, Phase(p, from, ph, needs, next)
  PROVE  ReferenceMoves(p)
<1>1. /\ ProofTool(p) /\ UNCHANGED <<cluster, marker, lock, arg>> /\ pc[p] = from /\ arg[p].cmd = "proof"
      /\ \E u \in {"kept", "delete"} \cup Proving : pc' = [pc EXCEPT ![p] = u]
  BY DEF Phase, ProofTool, Goto, Finally
<1>2. OnlyPhases
  <2>1. CASE inside' = inside
    BY <2>1 DEF OnlyPhases
  <2>2. CASE inside' = [inside EXCEPT ![Name(p)].phases = @ \cup {ph}]
    <3>0. pc[p] # "idle"
      BY <1>1 DEF Proving
    <3>1. Name(p) \in Names
      BY <3>0, ArgOf
    <3>2. \E x : inside' = [inside EXCEPT ![Name(p)].phases = x]
      BY <2>2
    <3> QED
      BY <3>1, <3>2 DEF OnlyPhases
  <2> QED
    BY <2>1, <2>2 DEF Phase
<1> QED
  BY <1>1, <1>2 DEF ReferenceMoves

LEMMA ReferenceStepMoves ==
  ASSUME Host, NEW p \in Procs, ReferenceStep(p)
  PROVE  ReferenceMoves(p)
<1>0. Program(p)
  BY DEF Host
<1>1. CASE LoadControlledOci(p)
  BY <1>1, PhaseMoves DEF LoadControlledOci, Proving
<1>2. CASE BuildImages(p)
  BY <1>2, PhaseMoves DEF BuildImages, Proving
<1>3. CASE InstallPlatform(p)
  BY <1>3, PhaseMoves DEF InstallPlatform, Proving
<1>4. CASE ApplyData(p)
  BY <1>4, PhaseMoves DEF ApplyData, Proving
<1>5. CASE ApplyApp(p)
  BY <1>5, PhaseMoves DEF ApplyApp, Proving
<1>6. CASE ProveRestart(p)
  BY <1>6, PhaseMoves DEF ProveRestart, Proving
<1>7. CASE ProveFluxDrift(p)
  BY <1>7, PhaseMoves DEF ProveFluxDrift, Proving
<1>8. CASE RouteAccepted(p)
  BY <1>8, PhaseMoves DEF RouteAccepted, Proving
<1>9. CASE GatewayListener(p)
  BY <1>9, PhaseMoves DEF GatewayListener, Proving
<1>10. CASE ProveGateway(p)
  BY <1>10, PhaseMoves DEF ProveGateway, Proving
<1>11. CASE Preflight(p) \/ PrepareOciHost(p) \/ WriteReceipt(p)
  <2>1. /\ pc[p] \in {"proof", "oci_host", "receipt"} /\ UNCHANGED <<cluster, marker, lock, arg, inside>>
        /\ \E u \in {"oci_host", "reserve", "raise", "kept", "delete"} : pc' = [pc EXCEPT ![p] = u]
    BY <1>11 DEF Preflight, PrepareOciHost, WriteReceipt, Goto, Finally, hostVars
  <2>2. arg[p].cmd = "proof"
    <3>1. arg[p] \in Args
      <4>1. pc[p] # "idle"
        BY <2>1
      <4> QED
        BY <4>1, ArgOf
    <3> QED
      BY <1>0, <2>1, <3>1 DEF Program, Args, Commands, NotHa, Proving, Upping, Creating, Requiring, Deleting, Ended, Terminal
  <2> QED
    BY <2>1, <2>2 DEF ReferenceMoves, ProofTool, OnlyPhases, Proving
<1>12. CASE Exit(p)
  <2>1. /\ pc[p] \in {"kept", "deleted", "absent", "raise"} /\ ProofTool(p)
        /\ UNCHANGED <<cluster, marker, lock, arg, inside>>
    BY <1>12 DEF Exit, hostVars, ProofTool
  <2>2. pc' = [pc EXCEPT ![p] = "done"] \/ pc' = [pc EXCEPT ![p] = "failed"]
    BY <1>12 DEF Exit, End, Goto
  <2> QED
    BY <2>1, <2>2 DEF ReferenceMoves, OnlyPhases
<1> QED
  BY <1>1, <1>2, <1>3, <1>4, <1>5, <1>6, <1>7, <1>8, <1>9, <1>10, <1>11, <1>12 DEF ReferenceStep

LEMMA ReferenceIsOwn ==
  ASSUME Host, NEW p \in Procs, ReferenceMoves(p)
  PROVE  OwnStep(p)
<1>1. DOMAIN pc = Procs /\ arg \in [Procs -> Args \cup {NoArg}] /\ Program(p) /\ AtItsSite(p)
  BY DEF Host, HostTypes
<1>2. PICK t \in {"done", "failed", "oci_host", "reserve", "raise", "kept", "delete"} \cup Proving :
        pc' = [pc EXCEPT ![p] = t] /\ (t \in {"done", "failed"} \/ arg[p].cmd = "proof")
  BY DEF ReferenceMoves
<1>4. DOMAIN pc' = Procs /\ pc'[p] = t /\ \A q \in Procs \ {p} : pc'[q] = pc[q]
  BY <1>1, <1>2
<1>5. arg' = arg /\ UNCHANGED <<cluster, marker, lock>> /\ ProofTool(p)
  BY DEF ReferenceMoves
<1>6. pc[p] \notin Holding \cup Terminal \cup Fresh /\ t \notin Holding \cup Fresh
  BY DEF ReferenceMoves, Holding, Terminal, Fresh, Proving
<1>7. Program(p)' /\ AtItsSite(p)'
  BY <1>1, <1>2, <1>4, <1>5 DEF Program, AtItsSite, ProofTool, Creating, Proving, Deleting, Ended, Terminal
<1> QED
  BY <1>1, <1>4, <1>5, <1>6, <1>7 DEF OwnStep

-----------------------------------------------------------------------------
(* The steps of the high-availability proof *)

\* Steps that are not inside it, and its steps on the object store.
NotInside == NotHa \cup Creating \cup Deleting \cup Ended
Removing == {"rm_container", "rm_volume"}

\* What they all do.
HaMoves(p) ==
    /\ HaTool(p) /\ UNCHANGED <<cluster, marker, lock>> /\ OnlyPhases
    /\ pc[p] \notin NotHa \cup Holding \cup Terminal
    /\ \E t : t \notin NotHa \cup Holding \cup {"created"} /\ pc' = [pc EXCEPT ![p] = t]
    /\ arg' = arg \/ \E s \in {HaPrimary, HaRestore} : arg' = [arg EXCEPT ![p].site = s]
    /\ (store' = store /\ pc'[p] \notin Removing) \/ StoreCreate(p) \/ ReconcileStore(p)

LEMMA InsideHa ==
  ASSUME Host, NEW p \in Procs, pc[p] \notin NotInside
  PROVE  HaTool(p) /\ pc[p] \notin NotHa \cup Holding \cup Terminal /\ Name(p) \in Names
<1>1. pc[p] # "idle"
  BY DEF NotInside, NotHa
<1>2. arg[p] \in Args /\ Name(p) \in Names /\ Program(p)
  BY <1>1, ArgOf DEF Host
<1>3. pc[p] \notin NotHa \cup Creating \cup Deleting \cup Ended
  BY DEF NotInside
<1>4. HaTool(p)
  BY <1>2, <1>3 DEF Args, Commands, Program, HaTool, NotHa, Ended
<1>5. Holding \subseteq Creating \cup Deleting /\ Terminal \subseteq Ended
  BY DEF Holding, Creating, Deleting, Ended
<1> QED
  BY <1>2, <1>3, <1>4, <1>5

\* Steps that stay inside and leave site and store alone.
LEMMA InsideMoves ==
  ASSUME Host, NEW p \in Procs, pc[p] \notin NotInside,
         UNCHANGED <<cluster, marker, lock, arg, store>>, OnlyPhases,
         NEW t, t \notin NotInside \cup Removing, pc' = [pc EXCEPT ![p] = t]
  PROVE  HaMoves(p)
<1>1. HaTool(p) /\ pc[p] \notin NotHa \cup Holding \cup Terminal
  BY InsideHa
<1>2. t \notin NotHa \cup Holding \cup {"created"}
  BY DEF NotInside, Holding, Creating, Deleting
<1>3. pc'[p] = t
  BY DEF Host, HostTypes
<1> QED
  BY <1>1, <1>2, <1>3 DEF HaMoves

LEMMA HaStepMoves ==
  ASSUME Host, NEW p \in Procs, NEW from, NEW needs, NEW adds, NEW removes, NEW undo, NEW next,
         HaStep(p, from, needs, adds, removes, undo, next),
         from \notin NotInside, next \notin NotInside \cup Removing
  PROVE  HaMoves(p)
<1>1. pc[p] \notin NotInside /\ UNCHANGED <<cluster, marker, lock, arg, store>>
  BY DEF HaStep
<1>2. \E t \in {next, "ha_finally"} : pc' = [pc EXCEPT ![p] = t]
  BY DEF HaStep, HaFail, Become, Goto
<1>3. "ha_finally" \notin NotInside \cup Removing
  BY DEF NotInside, Removing, NotHa, Creating, Requiring, Deleting, Proving, Upping, Ended, Terminal
<1>4. \E x : inside' = [inside EXCEPT ![Name(p)].phases = x]
  BY DEF HaStep
<1>5. OnlyPhases
  BY <1>1, <1>4, InsideHa DEF OnlyPhases
<1> QED
  BY <1>1, <1>2, <1>3, <1>5, InsideMoves

\* The steps that fill a cluster.
HaBuilds(p) ==
    \/ PreloadNats(p) \/ HaImages(p) \/ UpgradeCandidate(p) \/ HaPlatform(p) \/ ClusterDns(p)
    \/ SecretContracts(p) \/ StoreEndpoint(p) \/ CertManager(p) \/ InstallCnpg(p) \/ CnpgWebhook(p)
    \/ BarmanPlugin(p) \/ InstallBarman(p) \/ HaData(p) \/ BarmanSidecars(p) \/ MigrationPartition(p)

LEMMA HaBuildsMoves ==
  ASSUME Host, NEW p \in Procs, HaBuilds(p)
  PROVE  HaMoves(p)
<1> USE HaStepMoves DEF NotInside, Removing, NotHa, Creating, Requiring, Deleting, Proving, Upping, Ended, Terminal
<1>1. CASE PreloadNats(p)
  BY <1>1 DEF PreloadNats
<1>2. CASE HaImages(p)
  BY <1>2 DEF HaImages
<1>3. CASE UpgradeCandidate(p)
  BY <1>3 DEF UpgradeCandidate
<1>4. CASE HaPlatform(p)
  BY <1>4 DEF HaPlatform
<1>5. CASE ClusterDns(p)
  BY <1>5 DEF ClusterDns
<1>6. CASE SecretContracts(p)
  BY <1>6 DEF SecretContracts
<1>7. CASE StoreEndpoint(p)
  BY <1>7 DEF StoreEndpoint
<1>8. CASE CertManager(p)
  BY <1>8 DEF CertManager
<1>9. CASE InstallCnpg(p)
  BY <1>9 DEF InstallCnpg
<1>10. CASE CnpgWebhook(p)
  BY <1>10 DEF CnpgWebhook
<1>11. CASE BarmanPlugin(p)
  BY <1>11 DEF BarmanPlugin
<1>12. CASE InstallBarman(p)
  BY <1>12 DEF InstallBarman
<1>13. CASE HaData(p)
  BY <1>13 DEF HaData
<1>14. CASE BarmanSidecars(p)
  BY <1>14 DEF BarmanSidecars
<1>15. CASE MigrationPartition(p)
  BY <1>15 DEF MigrationPartition
<1> QED
  BY <1>1, <1>2, <1>3, <1>4, <1>5, <1>6, <1>7, <1>8, <1>9, <1>10, <1>11, <1>12, <1>13, <1>14, <1>15 DEF HaBuilds

\* The steps that use it.
HaMeasures(p) ==
    \/ MigrationRetry(p) \/ HaApp(p) \/ DirectProbes(p) \/ HaMarker(p) \/ HaUpgrade(p)
    \/ HaRollback(p) \/ ApiTransition(p) \/ Replaced(p) \/ CreateNatsBox(p) \/ DomainStream(p)
    \/ StartElection(p) \/ FailedOver(p) \/ FinishElection(p) \/ HaAfter(p) \/ CloseWindow(p)

LEMMA HaMeasuresMoves ==
  ASSUME Host, NEW p \in Procs, HaMeasures(p)
  PROVE  HaMoves(p)
<1> USE HaStepMoves DEF NotInside, Removing, NotHa, Creating, Requiring, Deleting, Proving, Upping, Ended, Terminal
<1>1. CASE MigrationRetry(p)
  BY <1>1 DEF MigrationRetry
<1>2. CASE HaApp(p)
  BY <1>2 DEF HaApp
<1>3. CASE DirectProbes(p)
  BY <1>3 DEF DirectProbes
<1>4. CASE HaMarker(p)
  BY <1>4 DEF HaMarker
<1>5. CASE HaUpgrade(p)
  BY <1>5 DEF HaUpgrade
<1>6. CASE HaRollback(p)
  BY <1>6 DEF HaRollback
<1>7. CASE ApiTransition(p)
  BY <1>7 DEF ApiTransition
<1>8. CASE Replaced(p)
  BY <1>8 DEF Replaced
<1>9. CASE CreateNatsBox(p)
  BY <1>9 DEF CreateNatsBox
<1>10. CASE DomainStream(p)
  BY <1>10 DEF DomainStream
<1>11. CASE StartElection(p)
  BY <1>11 DEF StartElection
<1>12. CASE FailedOver(p)
  BY <1>12 DEF FailedOver
<1>13. CASE FinishElection(p)
  BY <1>13 DEF FinishElection
<1>14. CASE HaAfter(p)
  BY <1>14 DEF HaAfter
<1>15. CASE CloseWindow(p)
  BY <1>15 DEF CloseWindow
<1> QED
  BY <1>1, <1>2, <1>3, <1>4, <1>5, <1>6, <1>7, <1>8, <1>9, <1>10, <1>11, <1>12, <1>13, <1>14, <1>15 DEF HaMeasures

\* Steps with outcomes of their own.
HaOthers(p) ==
    \/ HaTools(p) \/ StoreCheck(p) \/ HaAlign(p) \/ HaStopNode(p) \/ SecondMessage(p) \/ CountMessages(p)
    \/ BarmanLeader(p) \/ HaStartNode(p) \/ HaBackup(p) \/ HaArchived(p) \/ HaRestoreData(p)
    \/ HaReceipt(p) \/ HaFinally(p)

LEMMA HaOthersMove ==
  ASSUME Host, NEW p \in Procs, HaOthers(p)
  PROVE  HaMoves(p)
<1> DEFINE From == {"ha", "ha_store", "ha_align", "ha_stop", "ha_message", "ha_count", "ha_leader", "ha_start",
                    "ha_backup", "ha_wal", "ha_restore", "ha_receipt", "ha_finally"}
           To == From \cup {"ha_capacity", "ha_exit", "ha_volume", "ha_box", "ha_failover", "ha_election",
                            "ha_after", "ha_close", "ha_cleanup"}
<1>1. pc[p] \in From /\ UNCHANGED <<cluster, marker, lock, arg, store>>
  BY DEF HaOthers, HaTools, BeforeTry, StoreCheck, HaAlign, BackupComplete, HaStopNode, SecondMessage, CountMessages,
         BarmanLeader, HaStartNode, HaBackup, HaArchived, HaRestoreData, HaReceipt, HaFinally, hostVars
<1>2. \E t \in To : pc' = [pc EXCEPT ![p] = t]
  <2> USE DEF HaFail, Become, Goto
  <2>1. CASE HaTools(p) \/ StoreCheck(p) \/ HaAlign(p) \/ HaStopNode(p)
    BY <2>1 DEF HaTools, BeforeTry, StoreCheck, HaAlign, BackupComplete, HaStopNode
  <2>2. CASE SecondMessage(p) \/ CountMessages(p) \/ BarmanLeader(p) \/ HaStartNode(p)
    BY <2>2 DEF SecondMessage, CountMessages, BarmanLeader, BackupComplete, HaStartNode
  <2>3. CASE HaBackup(p) \/ HaArchived(p) \/ HaRestoreData(p) \/ HaReceipt(p) \/ HaFinally(p)
    BY <2>3 DEF HaBackup, BackupComplete, HaArchived, HaRestoreData, HaReceipt, HaFinally
  <2> QED
    BY <2>1, <2>2, <2>3 DEF HaOthers
<1>3. inside' = inside \/ \E n \in {Name(p), NameOf[HaPrimary]} : \E x : inside' = [inside EXCEPT ![n].phases = x]
  <2>1. CASE HaTools(p) \/ StoreCheck(p) \/ HaAlign(p) \/ HaStopNode(p)
    BY <2>1 DEF HaTools, BeforeTry, StoreCheck, HaAlign, BackupComplete, HaStopNode, hostVars
  <2>2. CASE SecondMessage(p) \/ CountMessages(p) \/ BarmanLeader(p) \/ HaStartNode(p)
    BY <2>2 DEF SecondMessage, CountMessages, BarmanLeader, BackupComplete, HaStartNode, hostVars
  <2>3. CASE HaBackup(p) \/ HaArchived(p) \/ HaRestoreData(p) \/ HaReceipt(p) \/ HaFinally(p)
    BY <2>3 DEF HaBackup, BackupComplete, HaArchived, HaRestoreData, HaReceipt, HaFinally, hostVars
  <2> QED
    BY <2>1, <2>2, <2>3 DEF HaOthers
<1>4. From \cap NotInside = {} /\ To \cap (NotInside \cup Removing) = {}
  BY DEF NotInside, Removing, NotHa, Creating, Requiring, Deleting, Proving, Upping, Ended, Terminal
<1>5. pc[p] \notin NotInside /\ NameOf[HaPrimary] \in Names
  BY <1>1, <1>4, HaAssumption DEF Names
<1>6. OnlyPhases
  BY <1>3, <1>5, InsideHa DEF OnlyPhases
<1> HIDE DEF From, To
<1> QED
  BY <1>1, <1>2, <1>4, <1>5, <1>6, InsideMoves

\* It calls KindCluster, returns from it, and ends.
HaCalls(p) ==
    \/ HaPreflight(p) \/ HaRetire(p) \/ HaCleanup(p) \/ HaExit(p)
    \/ HaCreated(p) \/ HaRaise(p) \/ HaRetired(p) \/ HaCleaned(p)

LEMMA HaCallsMove ==
  ASSUME Host, NEW p \in Procs, HaCalls(p)
  PROVE  HaMoves(p)
<1>1. /\ pc[p] \in {"ha_capacity", "ha_retire", "ha_cleanup", "ha_exit"}
         \/ (pc[p] \in {"created", "raise", "deleted", "absent"} /\ HaTool(p))
      /\ UNCHANGED <<cluster, marker, lock, store, inside>>
  BY DEF HaCalls, HaPreflight, BeforeTry, HaRetire, HaCleanup, HaExit, HaCreated, HaRaise, HaRetired, HaCleaned,
         HaProof, HaTool, hostVars
<1>2. HaTool(p) /\ pc[p] \notin NotHa \cup Holding \cup Terminal
  <2>1. CASE pc[p] \in {"ha_capacity", "ha_retire", "ha_cleanup", "ha_exit"}
    <3>1. pc[p] \notin NotInside
      BY <2>1 DEF NotInside, NotHa, Creating, Requiring, Deleting, Proving, Upping, Ended, Terminal
    <3> QED
      BY <3>1, InsideHa
  <2>2. CASE pc[p] \in {"created", "raise", "deleted", "absent"} /\ HaTool(p)
    BY <2>2 DEF NotHa, Holding, Requiring, Proving, Upping, Terminal
  <2> QED
    BY <1>1, <2>1, <2>2
<1>3. \E t \in {"reserve", "delete_if_present", "store_container", "ha_exit", "ha_preload", "ha_dns", "ha_finally",
                "ha_cleanup", "done", "failed"} : pc' = [pc EXCEPT ![p] = t]
  <2> USE DEF HaFail, Become, Goto
  <2>1. CASE HaPreflight(p) \/ HaRetire(p) \/ HaCleanup(p)
    BY <2>1 DEF HaPreflight, BeforeTry, HaRetire, HaCleanup
  <2>2. CASE HaExit(p)
    <3>1. pc' = [pc EXCEPT ![p] = "done"] \/ pc' = [pc EXCEPT ![p] = "failed"]
      BY <2>2 DEF HaExit, End
    <3> QED
      BY <3>1
  <2>3. CASE HaCreated(p) \/ HaRaise(p) \/ HaRetired(p) \/ HaCleaned(p)
    BY <2>3 DEF HaCreated, HaRaise, HaRetired, HaCleaned
  <2> QED
    BY <2>1, <2>2, <2>3 DEF HaCalls
<1>4. PICK t \in {"reserve", "delete_if_present", "store_container", "ha_exit", "ha_preload", "ha_dns", "ha_finally",
                  "ha_cleanup", "done", "failed"} : pc' = [pc EXCEPT ![p] = t]
  BY <1>3
<1>5. t \notin NotHa \cup Holding \cup {"created"} \cup Removing /\ pc'[p] = t
  BY <1>4 DEF NotHa, Requiring, Proving, Upping, Holding, Removing, Host, HostTypes
<1>6. arg' = arg \/ \E s \in {HaPrimary, HaRestore} : arg' = [arg EXCEPT ![p].site = s]
  BY DEF HaCalls, HaPreflight, BeforeTry, HaRetire, HaCleanup, HaExit, HaCreated, HaRaise, HaRetired, HaCleaned
<1> QED
  BY <1>1, <1>2, <1>4, <1>5, <1>6 DEF HaMoves, OnlyPhases

LEMMA HaStoreMoves ==
  ASSUME Host, NEW p \in Procs, StoreCreate(p) \/ ReconcileStore(p)
  PROVE  HaMoves(p)
<1> DEFINE From == {"ha_volume", "ha_container", "store_container", "rm_container", "store_volume", "rm_volume", "store_done"}
<1>1. pc[p] \in From /\ UNCHANGED <<cluster, marker, lock, arg, inside>>
  BY DEF StoreCreate, ReconcileStore, StoreInspect, StoreRemove, StoreReconciled, hostVars
<1>2. \E t \in From \cup {"ha_secrets", "ha_finally", "ha_exit"} : pc' = [pc EXCEPT ![p] = t]
  BY DEF StoreCreate, ReconcileStore, StoreInspect, StoreRemove, StoreReconciled, HaFail, Become, Goto
<1>3. From \cap NotInside = {} /\ (From \cup {"ha_secrets", "ha_finally", "ha_exit"}) \cap (NotHa \cup Holding \cup {"created"}) = {}
  BY DEF NotInside, NotHa, Creating, Requiring, Deleting, Proving, Upping, Ended, Terminal, Holding
<1>4. HaTool(p) /\ pc[p] \notin NotHa \cup Holding \cup Terminal
  BY <1>1, <1>3, InsideHa
<1> HIDE DEF From
<1> QED
  BY <1>1, <1>2, <1>3, <1>4 DEF HaMoves, OnlyPhases

LEMMA HaToolStepMoves ==
  ASSUME Host, NEW p \in Procs, HaToolStep(p)
  PROVE  HaMoves(p)
<1>1. HaBuilds(p) \/ HaMeasures(p) \/ HaOthers(p) \/ HaCalls(p) \/ StoreCreate(p) \/ ReconcileStore(p)
  BY DEF HaToolStep, HaBuilds, HaMeasures, HaOthers, HaCalls
<1> QED
  BY <1>1, HaBuildsMoves, HaMeasuresMoves, HaOthersMove, HaCallsMove, HaStoreMoves

LEMMA HaIsOwn ==
  ASSUME Host, NEW p \in Procs, HaMoves(p)
  PROVE  OwnStep(p)
<1>1. DOMAIN pc = Procs /\ arg \in [Procs -> Args \cup {NoArg}] /\ AtItsSite(p)
  BY DEF Host, HostTypes
<1>2. PICK t : t \notin NotHa \cup Holding \cup {"created"} /\ pc' = [pc EXCEPT ![p] = t]
  BY DEF HaMoves
<1>3. DOMAIN pc' = Procs /\ pc'[p] = t /\ \A q \in Procs \ {p} : pc'[q] = pc[q]
  BY <1>1, <1>2
<1>4. pc[p] \notin NotHa \cup Holding \cup Terminal /\ UNCHANGED <<cluster, marker, lock>> /\ HaTool(p)
  BY DEF HaMoves
<1>5. Fresh \subseteq NotHa /\ "idle" \in NotHa
  BY DEF Fresh, NotHa
<1>6. arg[p] \in Args
  BY <1>4, <1>5, ArgOf
<1>7. /\ arg' \in [Procs -> Args \cup {NoArg}]
      /\ \A q \in Procs \ {p} : arg'[q] = arg[q]
      /\ arg'[p].owner = arg[p].owner /\ arg'[p].commit = arg[p].commit /\ arg'[p].cmd = arg[p].cmd
      /\ arg'[p].site \in {HaPrimary, HaRestore}
  <2>1. CASE arg' = arg
    BY <1>1, <1>4, <2>1 DEF AtItsSite, HaTool
  <2>2. ASSUME NEW s \in {HaPrimary, HaRestore}, arg' = [arg EXCEPT ![p].site = s]
        PROVE  <1>7!:
    <3>1. s \in Sites
      BY HaAssumption
    <3>2. /\ [arg[p] EXCEPT !.site = s] \in Args /\ [arg[p] EXCEPT !.site = s].site = s
          /\ [arg[p] EXCEPT !.site = s].owner = arg[p].owner /\ [arg[p] EXCEPT !.site = s].commit = arg[p].commit
          /\ [arg[p] EXCEPT !.site = s].cmd = arg[p].cmd
      BY <1>6, <3>1 DEF Args
    <3>3. arg' = [arg EXCEPT ![p] = [arg[p] EXCEPT !.site = s]]
      BY <2>2
    <3> QED
      BY <1>1, <3>2, <3>3
  <2> QED
    BY <2>1, <2>2 DEF HaMoves
<1>8. Program(p)' /\ AtItsSite(p)'
  BY <1>2, <1>3, <1>4, <1>7 DEF Program, AtItsSite, HaTool
<1> QED
  BY <1>2, <1>3, <1>4, <1>5, <1>7, <1>8 DEF OwnStep

-----------------------------------------------------------------------------
(* The steps of the staging cell *)

StagingTool(p) == arg[p].cmd \in {"up", "staging_down", "status"}

\* What they all do, by command.
UpMoves(p) ==
    /\ StagingUp(p) /\ arg' = arg
    /\ pc[p] \in {"up", "created", "owned", "raise"} \cup Upping
    /\ \E t \in Upping \cup {"require_owned", "reserve", "done", "failed"} : pc' = [pc EXCEPT ![p] = t]
DownMoves(p) ==
    /\ arg[p].cmd = "staging_down"
    /\ arg' = arg \/ (pc[p] = "down_check" /\ cell # NoCell /\ arg' = [arg EXCEPT ![p].commit = cell.commit])
    /\ pc[p] \in {"staging_down", "down_check", "deleted", "absent", "raise"}
    /\ \/ \E t \in {"delete_if_present", "done", "failed"} : pc' = [pc EXCEPT ![p] = t]
       \/ pc[p] = "staging_down" /\ pc' = [pc EXCEPT ![p] = "down_check"]
StatusMoves(p) ==
    /\ arg[p].cmd = "status"
    /\ \/ arg' = arg
       \/ /\ pc[p] = "status" /\ cell # NoCell
          /\ arg' = [arg EXCEPT ![p].owner = cell.owner, ![p].commit = cell.commit]
    /\ pc[p] \in {"status", "owned", "raise"}
    /\ \E t \in {"require_owned", "done", "failed"} : pc' = [pc EXCEPT ![p] = t]

LEMMA CommandOf ==
  ASSUME Host, NEW p \in Procs
  PROVE  /\ pc[p] \in {"up"} \cup Upping => StagingUp(p)
         /\ pc[p] \in {"staging_down", "down_check"} => arg[p].cmd = "staging_down"
         /\ pc[p] = "status" => arg[p].cmd = "status"
<1> SUFFICES ASSUME pc[p] \in {"up", "staging_down", "down_check", "status"} \cup Upping
             PROVE  /\ pc[p] \in {"up"} \cup Upping => StagingUp(p)
                    /\ pc[p] \in {"staging_down", "down_check"} => arg[p].cmd = "staging_down"
                    /\ pc[p] = "status" => arg[p].cmd = "status"
  OBVIOUS
<1>1. pc[p] # "idle"
  BY DEF Upping
<1>2. arg[p] \in Args /\ Program(p)
  BY <1>1, ArgOf DEF Host
<1>3. arg[p].cmd \in Commands
  BY <1>2 DEF Args
<1>4. pc[p] \notin {"proof", "oci_host", "kept"} \cup Creating \cup Requiring \cup Proving \cup Deleting \cup Ended
  BY DEF Upping, Creating, Requiring, Proving, Deleting, Ended, Terminal
<1> QED
  BY <1>2, <1>3, <1>4 DEF Commands, Program, StagingUp, NotHa, Upping

LEMMA StagingStepMoves ==
  ASSUME Host, NEW p \in Procs, StagingStep(p)
  PROVE  UNCHANGED <<cluster, marker, lock>> /\ (UpMoves(p) \/ DownMoves(p) \/ StatusMoves(p))
<1>0. UNCHANGED <<cluster, marker, lock>>
  BY DEF StagingStep, LifecycleLock, ToolReceipt, UpCheck, UpSecret, UpBind, RenderKindConfig, PrepareVolumes, UpPlatform,
         InjectSecrets, ApplyFlux, VolumesBound, ReconcileData, UpStep, UpReceipt, StagingRaise, DownCheck, DownReceipt,
         StatusCheck, StatusHealth, hostVars
<1>1. CASE LifecycleLock(p)
  <2>1. /\ pc[p] \in {"up", "staging_down"} /\ arg' = arg
        /\ pc' = [pc EXCEPT ![p] = IF StagingUp(p) THEN "up_check" ELSE "down_check"] \/ pc' = [pc EXCEPT ![p] = "failed"]
    BY <1>1 DEF LifecycleLock, Goto, Refuse, Leave, End
  <2>2. CASE pc[p] = "up"
    <3>1. StagingUp(p)
      BY <2>2, CommandOf
    <3>2. "up_check" \in Upping
      BY DEF Upping
    <3>3. \E t \in Upping \cup {"require_owned", "reserve", "done", "failed"} : pc' = [pc EXCEPT ![p] = t]
      BY <2>1, <3>1, <3>2
    <3> QED
      BY <1>0, <2>1, <2>2, <3>1, <3>3 DEF UpMoves
  <2>3. CASE pc[p] = "staging_down"
    <3>1. arg[p].cmd = "staging_down" /\ ~StagingUp(p)
      BY <2>3, CommandOf DEF StagingUp
    <3>2. pc' = [pc EXCEPT ![p] = "down_check"] \/ \E t \in {"delete_if_present", "done", "failed"} : pc' = [pc EXCEPT ![p] = t]
      BY <2>1, <3>1
    <3> QED
      BY <1>0, <2>1, <2>3, <3>1, <3>2 DEF DownMoves
  <2> QED
    BY <2>1, <2>2, <2>3
<1>2. CASE ToolReceipt(p) \/ UpCheck(p) \/ UpSecret(p) \/ UpBind(p) \/ RenderKindConfig(p) \/ UpReceipt(p)
  <2>1. pc[p] \in Upping /\ arg' = arg
    BY <1>2 DEF ToolReceipt, UpCheck, UpSecret, UpBind, RenderKindConfig, UpReceipt, Upping
  <2>2. StagingUp(p)
    BY <2>1, CommandOf
  <2>3. \E t \in Upping \cup {"require_owned", "reserve", "done", "failed"} : pc' = [pc EXCEPT ![p] = t]
    BY <1>2 DEF ToolReceipt, UpCheck, UpSecret, UpBind, RenderKindConfig, UpReceipt, Upping, Goto, Proceed, Refuse, Leave, End
  <2> QED
    BY <1>0, <2>1, <2>2, <2>3 DEF UpMoves
<1>3. CASE PrepareVolumes(p) \/ UpPlatform(p) \/ InjectSecrets(p) \/ ApplyFlux(p) \/ VolumesBound(p) \/ ReconcileData(p)
  <2>1. StagingUp(p) /\ arg' = arg /\ pc[p] \in {"created", "owned"} \cup Upping
    BY <1>3 DEF PrepareVolumes, UpPlatform, InjectSecrets, ApplyFlux, VolumesBound, ReconcileData, UpStep, Upping
  <2>2. \E t \in Upping \cup {"failed"} : pc' = [pc EXCEPT ![p] = t]
    BY <1>3 DEF PrepareVolumes, UpPlatform, InjectSecrets, ApplyFlux, VolumesBound, ReconcileData, UpStep, Upping,
                Goto, Proceed, Refuse, Leave, End
  <2> QED
    BY <1>0, <2>1, <2>2 DEF UpMoves
<1>4. CASE StagingRaise(p)
  <2>1. arg' = arg /\ pc[p] = "raise" /\ pc' = [pc EXCEPT ![p] = "failed"] /\ arg[p].cmd \in {"up", "staging_down", "status"}
    BY <1>4 DEF StagingRaise, Goto, Refuse, Leave, End
  <2> QED
    BY <1>0, <2>1 DEF UpMoves, DownMoves, StatusMoves, StagingUp
<1>5. CASE DownCheck(p) \/ DownReceipt(p)
  <2>1. pc[p] \in {"down_check", "deleted", "absent"} /\ arg[p].cmd = "staging_down"
    BY <1>5, CommandOf DEF DownCheck, DownReceipt
  <2>2. arg' = arg \/ (pc[p] = "down_check" /\ cell # NoCell /\ arg' = [arg EXCEPT ![p].commit = cell.commit])
    BY <1>5 DEF DownCheck, DownReceipt
  <2>3. \E t \in {"delete_if_present", "done", "failed"} : pc' = [pc EXCEPT ![p] = t]
    BY <1>5 DEF DownCheck, DownReceipt, Goto, Proceed, Refuse, Leave, End
  <2> QED
    BY <1>0, <2>1, <2>2, <2>3 DEF DownMoves
<1>6. CASE StatusCheck(p) \/ StatusHealth(p)
  <2>1. pc[p] \in {"status", "owned"} /\ arg[p].cmd = "status"
    BY <1>6, CommandOf DEF StatusCheck, StatusHealth
  <2>2. \/ arg' = arg
        \/ /\ pc[p] = "status" /\ cell # NoCell
           /\ arg' = [arg EXCEPT ![p].owner = cell.owner, ![p].commit = cell.commit]
    BY <1>6 DEF StatusCheck, StatusHealth
  <2>3. \E t \in {"require_owned", "done", "failed"} : pc' = [pc EXCEPT ![p] = t]
    BY <1>6 DEF StatusCheck, StatusHealth, Goto, Refuse, Leave, End
  <2> QED
    BY <1>0, <2>1, <2>2, <2>3 DEF StatusMoves
<1> QED
  BY <1>0, <1>1, <1>2, <1>3, <1>4, <1>5, <1>6 DEF StagingStep

LEMMA StagingIsOwn ==
  ASSUME Host, NEW p \in Procs, UNCHANGED <<cluster, marker, lock>>, UpMoves(p) \/ DownMoves(p) \/ StatusMoves(p)
  PROVE  OwnStep(p)
<1>1. DOMAIN pc = Procs /\ arg \in [Procs -> Args \cup {NoArg}] /\ AtItsSite(p)
  BY DEF Host, HostTypes
<1>2. pc[p] \notin Holding \cup Terminal \cup {"idle"}
  BY DEF UpMoves, DownMoves, StatusMoves, Holding, Terminal, Upping
<1>3. arg[p] \in Args
  BY <1>2, ArgOf
<1>4. CASE UpMoves(p)
  <2>1. PICK t \in Upping \cup {"require_owned", "reserve", "done", "failed"} : pc' = [pc EXCEPT ![p] = t]
    BY <1>4 DEF UpMoves
  <2>2. DOMAIN pc' = Procs /\ pc'[p] = t /\ \A q \in Procs \ {p} : pc'[q] = pc[q]
    BY <1>1, <2>1
  <2>3. t \notin Holding \cup Fresh /\ arg' = arg /\ StagingUp(p)
    BY <1>4 DEF UpMoves, Holding, Fresh, Upping
  <2>4. Program(p)' /\ AtItsSite(p)'
    BY <1>1, <2>1, <2>2, <2>3 DEF Program, AtItsSite, StagingUp, Creating, Requiring, Ended, Terminal
  <2> QED
    BY <1>1, <1>2, <2>2, <2>3, <2>4 DEF OwnStep
<1>5. CASE DownMoves(p)
  <2>1. PICK t \in {"delete_if_present", "done", "failed", "down_check"} :
          pc' = [pc EXCEPT ![p] = t] /\ (t = "down_check" => pc[p] = "staging_down")
    BY <1>5 DEF DownMoves
  <2>2. DOMAIN pc' = Procs /\ pc'[p] = t /\ \A q \in Procs \ {p} : pc'[q] = pc[q]
    BY <1>1, <2>1
  <2>3. t \notin Holding /\ (t \in Fresh => pc[p] \in Fresh) /\ arg[p].cmd = "staging_down"
    BY <1>5, <2>1 DEF DownMoves, Holding, Fresh
  <2>4. /\ arg' \in [Procs -> Args \cup {NoArg}]
        /\ \A q \in Procs \ {p} : arg'[q] = arg[q]
        /\ arg'[p].site = arg[p].site /\ arg'[p].cmd = arg[p].cmd
        /\ pc[p] \notin Fresh => arg'[p] = arg[p]
    <3>1. CASE arg' = arg
      BY <1>1, <3>1
    <3>2. CASE pc[p] = "down_check" /\ cell # NoCell /\ arg' = [arg EXCEPT ![p].commit = cell.commit]
      <4>1. cell.commit \in Commits
        BY <3>2 DEF Host, CellTypes, Cells
      <4>2. /\ [arg[p] EXCEPT !.commit = cell.commit] \in Args
            /\ [arg[p] EXCEPT !.commit = cell.commit].site = arg[p].site
            /\ [arg[p] EXCEPT !.commit = cell.commit].cmd = arg[p].cmd
        BY <1>3, <4>1 DEF Args
      <4>3. arg' = [arg EXCEPT ![p] = [arg[p] EXCEPT !.commit = cell.commit]]
        BY <3>2
      <4> QED
        BY <1>1, <3>2, <4>2, <4>3 DEF Fresh
    <3> QED
      BY <1>5, <3>1, <3>2 DEF DownMoves
  <2>5. Program(p)' /\ AtItsSite(p)'
    BY <1>1, <2>1, <2>2, <2>3, <2>4 DEF Program, AtItsSite, Deleting, Ended, Terminal
  <2> QED
    BY <1>1, <1>2, <2>2, <2>3, <2>4, <2>5 DEF OwnStep
<1>6. CASE StatusMoves(p)
  <2>1. PICK t \in {"require_owned", "done", "failed"} : pc' = [pc EXCEPT ![p] = t]
    BY <1>6 DEF StatusMoves
  <2>2. DOMAIN pc' = Procs /\ pc'[p] = t /\ \A q \in Procs \ {p} : pc'[q] = pc[q]
    BY <1>1, <2>1
  <2>3. t \notin Holding \cup Fresh /\ arg[p].cmd = "status"
    BY <1>6 DEF StatusMoves, Holding, Fresh
  <2>4. /\ arg' \in [Procs -> Args \cup {NoArg}]
        /\ \A q \in Procs \ {p} : arg'[q] = arg[q]
        /\ arg'[p].site = arg[p].site /\ arg'[p].cmd = arg[p].cmd
        /\ pc[p] \notin Fresh => arg'[p] = arg[p]
    <3>1. CASE arg' = arg
      BY <1>1, <3>1
    <3>2. CASE pc[p] = "status" /\ cell # NoCell /\ arg' = [arg EXCEPT ![p].owner = cell.owner, ![p].commit = cell.commit]
      <4> DEFINE new == [arg[p] EXCEPT !.owner = cell.owner, !.commit = cell.commit]
      <4>1. cell.commit \in Commits /\ cell.owner \in Owners
        BY <3>2 DEF Host, CellTypes, Cells
      <4>2. new \in Args /\ new.site = arg[p].site /\ new.cmd = arg[p].cmd
        BY <1>3, <4>1 DEF Args
      <4>3. arg' = [arg EXCEPT ![p] = new]
        BY <1>1, <3>2
      <4> HIDE DEF new
      <4> QED
        BY <1>1, <3>2, <4>2, <4>3 DEF Fresh
    <3> QED
      BY <1>6, <3>1, <3>2 DEF StatusMoves
  <2>5. Program(p)' /\ AtItsSite(p)'
    BY <1>1, <2>1, <2>2, <2>3, <2>4 DEF Program, AtItsSite, Requiring, Ended, Terminal
  <2> QED
    BY <1>1, <1>2, <2>2, <2>3, <2>4, <2>5 DEF OwnStep
<1> QED
  BY <1>4, <1>5, <1>6

-----------------------------------------------------------------------------
(* Every step keeps Host *)

LEMMA StartIsOwn ==
  ASSUME Host, NEW p \in Procs, StartTool(p)
  PROVE  OwnStep(p) /\ inside' = inside
<1> DEFINE Firsts == {<<"proof", "proof">>, <<"down", "delete_if_present">>, <<"up", "up">>,
                      <<"staging_down", "staging_down">>, <<"status", "status">>,
                      <<"ha_proof", "ha">>, <<"ha_down", "ha_finally">>}
<1>1. PICK f \in Firsts, s \in Sites, o \in Owners, c \in Commits :
        /\ Start(p, f[1], f[2], s, o, c)
        /\ f[1] \in {"proof", "down"} => s \in ReferenceSites
        /\ f[1] \in {"up", "staging_down", "status"} => s = StagingSite
        /\ f[1] \in {"ha_proof", "ha_down"} => s = HaPrimary
  <2>1. CASE StartProof(p)
    <3>1. PICK s \in ReferenceSites, o \in Owners, c \in Commits : Start(p, "proof", "proof", s, o, c)
      BY <2>1 DEF StartProof
    <3>2. <<"proof", "proof">> \in Firsts /\ s \in Sites
      BY ReferenceAssumption
    <3> QED
      BY <3>1, <3>2
  <2>2. CASE StartDown(p)
    <3>1. PICK s \in ReferenceSites, o \in Owners, c \in Commits : Start(p, "down", "delete_if_present", s, o, c)
      BY <2>2 DEF StartDown
    <3>2. <<"down", "delete_if_present">> \in Firsts /\ s \in Sites
      BY ReferenceAssumption
    <3> QED
      BY <3>1, <3>2
  <2>3. CASE StartStaging(p)
    <3>1. PICK cmd \in {"up", "staging_down", "status"}, o \in Owners, c \in Commits : Start(p, cmd, cmd, StagingSite, o, c)
      BY <2>3 DEF StartStaging
    <3>2. <<cmd, cmd>> \in Firsts /\ StagingSite \in Sites
      BY StagingAssumption
    <3> QED
      BY <3>1, <3>2
  <2>4. CASE StartHa(p)
    <3>1. PICK o \in Owners, c \in Commits :
            Start(p, "ha_proof", "ha", HaPrimary, o, c) \/ Start(p, "ha_down", "ha_finally", HaPrimary, o, c)
      BY <2>4 DEF StartHa
    <3>2. <<"ha_proof", "ha">> \in Firsts /\ <<"ha_down", "ha_finally">> \in Firsts /\ HaPrimary \in Sites
      BY HaAssumption
    <3> QED
      BY <3>1, <3>2
  <2> QED
    BY <2>1, <2>2, <2>3, <2>4 DEF StartTool
<1> DEFINE new == [cmd |-> f[1], site |-> s, owner |-> o, commit |-> c]
<1>2. /\ pc[p] = "idle" /\ pc' = [pc EXCEPT ![p] = f[2]] /\ arg' = [arg EXCEPT ![p] = new]
      /\ UNCHANGED <<cluster, marker, lock, inside>>
  BY <1>1 DEF Start, Goto, hostVars
<1>3. f[1] \in Commands /\ new \in Args /\ new.cmd = f[1] /\ new.site = s
  BY DEF Commands, Args
<1> HIDE DEF new
<1>4. DOMAIN pc = Procs /\ arg \in [Procs -> Args \cup {NoArg}]
  BY DEF Host, HostTypes
<1>5. /\ DOMAIN pc' = Procs /\ pc'[p] = f[2] /\ \A q \in Procs \ {p} : pc'[q] = pc[q]
      /\ arg' \in [Procs -> Args \cup {NoArg}] /\ arg'[p] = new /\ \A q \in Procs \ {p} : arg'[q] = arg[q]
  BY <1>2, <1>3, <1>4
<1>6. pc[p] \notin Holding \cup Terminal /\ f[2] \notin Holding /\ pc[p] \in Fresh
  BY <1>2 DEF Holding, Terminal, Fresh
<1>7. Program(p)'
  BY <1>3, <1>5 DEF Program, Deleting, NotHa, Requiring, Proving, Upping
<1>8. AtItsSite(p)'
  BY <1>1, <1>3, <1>5 DEF AtItsSite
<1> QED
  BY <1>2, <1>5, <1>6, <1>7, <1>8 DEF OwnStep

LEMMA OwnKeepsHost ==
  ASSUME Host, NEW p \in Procs, OwnStep(p),
         DOMAIN inside' = Names, \A n \in Names : Contents(inside'[n]), CellTypes'
  PROVE  Host'
<1>1. HostTypes'
  BY DEF Host, HostTypes, OwnStep
<1>2. ASSUME NEW q \in Procs
      PROVE  (Program(q) /\ AtItsSite(q))'
  <2>1. CASE q = p
    BY <2>1 DEF OwnStep
  <2>2. CASE q # p
    <3>1. pc'[q] = pc[q] /\ arg'[q] = arg[q]
      BY <2>2 DEF OwnStep
    <3> QED
      BY <3>1 DEF Host, Program, AtItsSite
  <2> QED
    BY <2>1, <2>2
<1> QED
  BY <1>1, <1>2 DEF Host

\* The steps of KindCluster: where they lead and what they may change.
KindMoves(p) ==
    /\ arg' = arg
    /\ \/ /\ pc[p] \in Creating \ {"created"}
          /\ \E t \in Creating \cup {"raise"} : pc' = [pc EXCEPT ![p] = t]
       \/ /\ pc[p] \in Requiring \ {"owned"}
          /\ \E t \in Requiring \cup {"raise"} : pc' = [pc EXCEPT ![p] = t]
       \/ /\ pc[p] \in Deleting \ {"deleted", "absent"}
          /\ \E t \in Deleting \cup {"raise"} : pc' = [pc EXCEPT ![p] = t]
    /\ cluster' = cluster \/ \E c \in {p, NoCluster} : cluster' = [cluster EXCEPT ![Name(p)] = c]
    /\ inside' = inside \/ inside' = [inside EXCEPT ![Name(p)] = Empty]
    /\ marker' = marker \/ \E b \in {Bound(p), NoBinding} : marker' = [marker EXCEPT ![Site(p)] = b]
    /\ lock' = lock \/ \E l \in {p, NoProc} : lock' = [lock EXCEPT ![Site(p)] = l]

LEMMA KindStepMoves ==
  ASSUME NEW p \in Procs, KindStep(p)
  PROVE  KindMoves(p)
<1>1. CASE Reserve(p)
  BY <1>1 DEF Reserve, KindMoves, Goto, Creating
<1>2. CASE KindCreate(p)
  BY <1>2 DEF KindCreate, KindMoves, Goto, Creating
<1>3. CASE ConfigureAccess(p)
  BY <1>3 DEF ConfigureAccess, KindMoves, Goto, Unlock, Creating
<1>4. CASE Rollback(p)
  BY <1>4 DEF Rollback, KindMoves, Goto, Unlock, Creating
<1>5. CASE RemoveMarker(p)
  BY <1>5 DEF RemoveMarker, KindMoves, Goto, Creating, Deleting
<1>6. CASE RemoveKubeconfig(p)
  BY <1>6 DEF RemoveKubeconfig, KindMoves, Goto, Unlock, Creating, Deleting
<1>7. CASE TryAgain(p)
  BY <1>7 DEF TryAgain, KindMoves, Goto, Creating, hostVars
<1>8. CASE RequireOwned(p)
  BY <1>8 DEF RequireOwned, KindMoves, Goto, Requiring, hostVars
<1>9. CASE ExportKubeconfig(p)
  BY <1>9 DEF ExportKubeconfig, KindMoves, Goto, Requiring
<1>10. CASE DeleteOwned(p)
  BY <1>10 DEF DeleteOwned, KindMoves, Goto, Deleting
<1>11. CASE KindDelete(p)
  BY <1>11 DEF KindDelete, KindMoves, Goto, Unlock, Deleting
<1> QED
  BY <1>1, <1>2, <1>3, <1>4, <1>5, <1>6, <1>7, <1>8, <1>9, <1>10, <1>11 DEF KindStep

LEMMA KindKeepsHost ==
  ASSUME Host, NEW p \in Procs, KindMoves(p), UNCHANGED stagingVars
  PROVE  Host' /\ pc[p] # "idle"
<1>1. pc[p] \in Creating \cup Requiring \cup Deleting
  BY DEF KindMoves
<1>2. pc[p] # "idle"
  BY <1>1 DEF Creating, Requiring, Deleting
<1>3. Site(p) \in Sites /\ Name(p) \in Names /\ Bound(p) \in Labels /\ NoBinding \in Labels
  BY <1>2, ArgOf DEF Labels
<1>4. HostTypes
  BY DEF Host
<1>5. cluster' \in [Names -> Procs \cup {NoCluster}]
  BY <1>3, <1>4 DEF KindMoves, HostTypes
<1>6. marker' \in [Sites -> Labels]
  BY <1>3, <1>4 DEF KindMoves, HostTypes
<1>7. lock' \in [Sites -> Procs \cup {NoProc}]
  BY <1>3, <1>4 DEF KindMoves, HostTypes
<1>8. DOMAIN inside' = Names /\ \A n \in Names : Contents(inside'[n])
  <2>1. Contents(Empty)
    BY DEF Contents, Empty
  <2>2. inside' = inside \/ inside' = [inside EXCEPT ![Name(p)] = Empty]
    BY DEF KindMoves
  <2> QED
    BY <1>3, <1>4, <2>1, <2>2 DEF HostTypes
<1>9. PICK t : /\ pc' = [pc EXCEPT ![p] = t]
               /\ \/ pc[p] \in Creating /\ t \in Creating \cup {"raise"}
                  \/ pc[p] \in Requiring /\ t \in Requiring \cup {"raise"}
                  \/ pc[p] \in Deleting /\ t \in Deleting \cup {"raise"}
  BY DEF KindMoves
<1>10. arg' = arg /\ DOMAIN pc' = Procs /\ pc'[p] = t /\ \A q \in Procs \ {p} : pc'[q] = pc[q]
  BY <1>4, <1>9 DEF HostTypes, KindMoves
<1>11. HostTypes'
  BY <1>4, <1>5, <1>6, <1>7, <1>8, <1>10 DEF HostTypes
<1>12. CellTypes'
  BY DEF Host, CellTypes, stagingVars
<1>13. ASSUME NEW q \in Procs
       PROVE  Program(q)' /\ AtItsSite(q)'
  <2>0. Program(q) /\ AtItsSite(q)
    BY DEF Host
  <2>1. CASE q = p
    <3>0. arg[p].cmd \in Commands
      BY <1>2, ArgOf DEF Args
    <3>1. CASE pc[p] \in Creating /\ t \in Creating \cup {"raise"}
      <4>1. pc[p] \notin Deleting \cup Requiring \cup Ended \cup {"status"} /\ t \notin NotHa
        BY <3>1 DEF Creating, Deleting, Requiring, Ended, Terminal, NotHa, Proving, Upping
      <4>2. arg[p].cmd \in {"proof", "up", "ha_proof", "ha_down"}
        BY <2>0, <2>1, <3>0, <3>1, <4>1 DEF Program, Commands, Creating
      <4> QED
        BY <1>10, <2>0, <2>1, <3>1, <4>1, <4>2 DEF Program, AtItsSite, Ended
    <3>2. CASE pc[p] \in Requiring /\ t \in Requiring \cup {"raise"}
      <4>1. pc[p] \notin Deleting \cup Creating \cup Proving \cup Ended \cup {"proof", "oci_host", "kept"}
                \cup {"staging_down", "down_check"} /\ pc[p] \in NotHa
        BY <3>2 DEF Creating, Deleting, Requiring, Ended, Terminal, NotHa, Proving, Upping
      <4>2. arg[p].cmd \in {"up", "status"}
        BY <2>0, <2>1, <3>0, <4>1 DEF Program, Commands
      <4> QED
        BY <1>10, <2>0, <2>1, <3>2, <4>2 DEF Program, AtItsSite, Ended
    <3>3. CASE pc[p] \in Deleting /\ t \in Deleting \cup {"raise"}
      <4>1. pc[p] \notin Requiring \cup Creating \cup Upping \cup Ended \cup {"up", "status"} /\ t \notin NotHa
        BY <3>3 DEF Creating, Deleting, Requiring, Ended, Terminal, NotHa, Proving, Upping
      <4>2. arg[p].cmd \in {"proof", "down", "staging_down", "ha_proof", "ha_down"}
        BY <2>0, <2>1, <3>0, <3>3, <4>1 DEF Program, Commands, Deleting
      <4> QED
        BY <1>10, <2>0, <2>1, <3>3, <4>1, <4>2 DEF Program, AtItsSite, Ended
    <3> QED
      BY <1>9, <3>1, <3>2, <3>3
  <2>2. CASE q # p
    BY <1>10, <2>0, <2>2 DEF Program, AtItsSite
  <2> QED
    BY <2>1, <2>2
<1> QED
  BY <1>2, <1>11, <1>12, <1>13 DEF Host

LEMMA StagingKeepsTypes ==
  ASSUME Host, NEW p \in Procs, StagingStep(p)
  PROVE  DOMAIN inside' = Names /\ (\A n \in Names : Contents(inside'[n])) /\ CellTypes'
<1>0. DOMAIN inside = Names /\ (\A n \in Names : Contents(inside[n])) /\ CellTypes
  BY DEF Host, HostTypes
<1>1. ASSUME NEW from, NEW ok, NEW after, NEW to, UpStep(p, from, ok, after, to), Contents(after)
      PROVE  DOMAIN inside' = Names /\ (\A n \in Names : Contents(inside'[n])) /\ CellTypes'
  <2>1. UNCHANGED <<cellVars, report>> /\ (inside' = inside \/ inside' = [inside EXCEPT ![Name(p)] = after])
    BY <1>1 DEF UpStep
  <2>2. CellTypes'
    BY <1>0, <2>1 DEF CellTypes, cellVars
  <2> QED
    BY <1>0, <1>1, <2>1, <2>2
<1>2. ASSUME StagingUp(p), pc[p] \in {"created", "owned"} \cup Upping
      PROVE  Name(p) \in Names /\ Contents(Here(p)) /\ arg[p] \in Args
  <2>1. pc[p] # "idle"
    BY <1>2 DEF Upping
  <2> QED
    BY <1>0, <2>1, ArgOf DEF Here
<1>3. CASE PrepareVolumes(p) \/ VolumesBound(p) \/ ReconcileData(p)
  <2>1. StagingUp(p) /\ pc[p] \in {"created", "owned"} \cup Upping
    BY <1>3 DEF PrepareVolumes, VolumesBound, ReconcileData, UpStep, Upping
  <2> QED
    BY <1>1, <1>2, <1>3, <2>1 DEF PrepareVolumes, VolumesBound, ReconcileData
<1>4. CASE UpPlatform(p) \/ InjectSecrets(p) \/ ApplyFlux(p)
  <2>1. StagingUp(p) /\ pc[p] \in {"created", "owned"} \cup Upping
    BY <1>4 DEF UpPlatform, InjectSecrets, ApplyFlux, UpStep, Upping
  <2>2. Contents(Here(p)) /\ secret \in Nat
    BY <1>0, <1>2, <2>1 DEF CellTypes
  <2>3. Contents([Here(p) EXCEPT !.phases = @ \cup {"platform"}]) /\ Contents([Here(p) EXCEPT !.secret = secret])
    BY <2>2 DEF Contents
  <2>4. Contents([Here(p) EXCEPT !.ref = arg[p].commit, !.current = @ /\ Here(p).ref = arg[p].commit])
    BY <2>2 DEF Contents
  <2> QED
    BY <1>1, <1>4, <2>3, <2>4 DEF UpPlatform, InjectSecrets, ApplyFlux
<1>5. ASSUME NEW st \in {"bootstrap-in-progress", "ready"}, NEW cr \in Nat, pc[p] \in Upping, ReplaceCell(p, st, cr)
      PROVE  cell' \in Cells
  <2>1. arg[p].owner \in Owners /\ arg[p].commit \in Commits
    <3>1. pc[p] # "idle"
      BY <1>5 DEF Upping
    <3> QED
      BY <3>1, ArgOf DEF Args
  <2> QED
    BY <1>5, <2>1 DEF ReplaceCell, Cells
<1>6. CASE UpSecret(p)
  BY <1>0, <1>6 DEF UpSecret, MintSecret, CellTypes, hostVars
<1>7. CASE UpBind(p)
  <2>1. pc[p] \in Upping /\ UNCHANGED <<inside, secret, pgdata, minted, report>>
        /\ (cell' = cell \/ ReplaceCell(p, "bootstrap-in-progress", secret))
    BY <1>7 DEF UpBind, Upping, hostVars
  <2> QED
    BY <1>0, <1>5, <2>1 DEF CellTypes
<1>8. CASE UpReceipt(p)
  <2>1. pc[p] \in Upping /\ UNCHANGED <<inside, secret, pgdata, minted, report>>
        /\ ReplaceCell(p, "ready", inside[Name(p)].secret)
    BY <1>8 DEF UpReceipt, Upping, hostVars
  <2>2. inside[Name(p)].secret \in Nat
    <3>1. StagingUp(p)
      BY <2>1, CommandOf
    <3> QED
      BY <1>2, <2>1, <3>1 DEF Here, Contents
  <2> QED
    BY <1>0, <1>5, <2>1, <2>2 DEF CellTypes
<1>9. CASE LifecycleLock(p) \/ ToolReceipt(p) \/ UpCheck(p) \/ RenderKindConfig(p) \/ StagingRaise(p) \/ DownCheck(p)
           \/ DownReceipt(p) \/ StatusCheck(p) \/ StatusHealth(p)
  <2>1. UNCHANGED <<inside, cell, secret, pgdata, minted>>
    BY <1>9 DEF LifecycleLock, ToolReceipt, UpCheck, RenderKindConfig, StagingRaise, DownCheck, DownReceipt,
                StatusCheck, StatusHealth, hostVars, cellVars
  <2>2. DOMAIN report' = Procs
    <3>1. report' = report \/ \E r : report' = [report EXCEPT ![p] = r]
      BY <1>9 DEF LifecycleLock, ToolReceipt, UpCheck, RenderKindConfig, StagingRaise, DownCheck, DownReceipt,
                  StatusCheck, StatusHealth
    <3> QED
      BY <1>0, <3>1 DEF CellTypes
  <2> QED
    BY <1>0, <2>1, <2>2 DEF CellTypes
<1> QED
  BY <1>3, <1>4, <1>6, <1>7, <1>8, <1>9 DEF StagingStep

\* The steps of the host, by what they may change.
LEMMA StepsOfHost ==
  ASSUME Host, Next
  PROVE  \/ \E p \in Procs : OwnStep(p) /\ DOMAIN inside' = Names /\ (\A n \in Names : Contents(inside'[n])) /\ CellTypes'
         \/ \E p \in Procs : KindStep(p) /\ KindMoves(p) /\ UNCHANGED <<referenceVars, stagingVars, haVars>>
         \/ \E p \in Procs : Crash(p)
         \/ Environment
<1>0. CellTypes /\ HostTypes
  BY DEF Host
<1>1. ASSUME NEW p \in Procs, StartTool(p)
      PROVE  OwnStep(p) /\ DOMAIN inside' = Names /\ (\A n \in Names : Contents(inside'[n])) /\ CellTypes'
  <2>1. UNCHANGED <<cell, secret, pgdata, minted, report>>
    BY <1>1 DEF StartTool, StartStaging, stagingVars
  <2> QED
    BY <1>0, <1>1, <2>1, StartIsOwn DEF HostTypes, CellTypes
<1>2. ASSUME NEW p \in Procs, ReferenceStep(p), UNCHANGED stagingVars
      PROVE  OwnStep(p) /\ DOMAIN inside' = Names /\ (\A n \in Names : Contents(inside'[n])) /\ CellTypes'
  <2>1. ReferenceMoves(p)
    BY <1>2, ReferenceStepMoves
  <2>2. OwnStep(p) /\ OnlyPhases
    BY <2>1, ReferenceIsOwn DEF ReferenceMoves
  <2> QED
    BY <1>0, <1>2, <2>2, PhasesKeepContents DEF CellTypes, stagingVars
<1>3. ASSUME NEW p \in Procs, HaToolStep(p), UNCHANGED stagingVars
      PROVE  OwnStep(p) /\ DOMAIN inside' = Names /\ (\A n \in Names : Contents(inside'[n])) /\ CellTypes'
  <2>1. HaMoves(p)
    BY <1>3, HaToolStepMoves
  <2>2. OwnStep(p) /\ OnlyPhases
    BY <2>1, HaIsOwn DEF HaMoves
  <2> QED
    BY <1>0, <1>3, <2>2, PhasesKeepContents DEF CellTypes, stagingVars
<1>4. ASSUME NEW p \in Procs, StagingStep(p)
      PROVE  OwnStep(p) /\ DOMAIN inside' = Names /\ (\A n \in Names : Contents(inside'[n])) /\ CellTypes'
  BY <1>4, StagingStepMoves, StagingIsOwn, StagingKeepsTypes
<1>5. ASSUME NEW p \in Procs, StartTool(p) \/ ToolStep(p) \/ Crash(p)
      PROVE  \/ OwnStep(p) /\ DOMAIN inside' = Names /\ (\A n \in Names : Contents(inside'[n])) /\ CellTypes'
             \/ KindStep(p) /\ KindMoves(p) /\ UNCHANGED <<referenceVars, stagingVars, haVars>>
             \/ Crash(p)
  BY <1>1, <1>2, <1>3, <1>4, <1>5, KindStepMoves DEF ToolStep
<1> QED
  BY <1>5 DEF Next

LEMMA CrashOf ==
  ASSUME Host, NEW p \in Procs, Crash(p)
  PROVE  /\ UNCHANGED <<cluster, inside, marker, arg, cellVars, report, store, receipts>>
         /\ pc[p] \notin Terminal \cup {"idle"}
         /\ DOMAIN pc' = Procs /\ pc'[p] = "crashed" /\ \A q \in Procs \ {p} : pc'[q] = pc[q]
         /\ lock' \in [Sites -> Procs \cup {NoProc}]
         /\ \A s \in Sites : lock'[s] = IF lock[s] = p THEN NoProc ELSE lock[s]
<1>1. DOMAIN pc = Procs /\ lock \in [Sites -> Procs \cup {NoProc}]
  BY DEF Host, HostTypes
<1>2. /\ UNCHANGED <<cluster, inside, marker, arg, cellVars, report, store, receipts>>
      /\ pc[p] \notin Terminal \cup {"idle"} /\ pc' = [pc EXCEPT ![p] = "crashed"]
      /\ lock' = [s \in Sites |-> IF lock[s] = p THEN NoProc ELSE lock[s]]
  BY DEF Crash, KindCrash, End, Goto
<1> QED
  BY <1>1, <1>2

LEMMA EnvironmentOf ==
  ASSUME Host, Environment
  PROVE  /\ UNCHANGED <<cluster, marker, lock, pc, arg, store, receipts, evidence, report, lifecycle>>
         /\ DOMAIN inside' = Names /\ (\A n \in Names : Contents(inside'[n])) /\ CellTypes'
         /\ \A n \in Names : inside'[n].secret = inside[n].secret
<1>0. DOMAIN inside = Names /\ (\A n \in Names : Contents(inside[n])) /\ CellTypes
  BY DEF Host, HostTypes
<1>1. ASSUME NEW n \in Names, FluxReconciles(n), UNCHANGED <<referenceVars, haVars>>
      PROVE  /\ UNCHANGED <<cluster, marker, lock, pc, arg, store, receipts, evidence, report, lifecycle>>
             /\ DOMAIN inside' = Names /\ (\A m \in Names : Contents(inside'[m])) /\ CellTypes'
             /\ \A m \in Names : inside'[m].secret = inside[m].secret
  <2>1. UNCHANGED <<cluster, marker, lock, pc, arg, store, receipts, evidence, report, lifecycle, cell, secret, minted>>
    BY <1>1 DEF FluxReconciles, procVars, referenceVars, haVars
  <2> DEFINE new == [inside[n] EXCEPT !.current = TRUE, !.phases = @ \cup {"volumes"}]
  <2>2. Contents(new) /\ new.secret = inside[n].secret
    BY <1>0 DEF Contents
  <2>3. inside' = [inside EXCEPT ![n] = new]
    BY <1>0, <1>1 DEF FluxReconciles
  <2> HIDE DEF new
  <2>4. DOMAIN inside' = Names /\ inside'[n] = new /\ \A m \in Names \ {n} : inside'[m] = inside[m]
    BY <1>0, <2>3
  <2>5. pgdata' \in Nat
    BY <1>0, <1>1 DEF FluxReconciles, CellTypes, Contents
  <2> QED
    BY <1>0, <2>1, <2>2, <2>4, <2>5 DEF CellTypes
<1>2. CASE (LoseSecret \/ LoseReceipt) /\ UNCHANGED <<referenceVars, haVars>>
  <2>1. /\ UNCHANGED <<cluster, marker, lock, pc, arg, store, receipts, evidence, report, lifecycle, inside, pgdata, minted>>
        /\ (cell' = cell \/ cell' = NoCell) /\ (secret' = secret \/ secret' = 0)
    BY <1>2 DEF LoseSecret, LoseReceipt, referenceVars, haVars, kindVars, hostVars, procVars
  <2> QED
    BY <1>0, <2>1 DEF CellTypes
<1>3. CASE WalArchived /\ UNCHANGED <<referenceVars, stagingVars>>
  <2>1. /\ UNCHANGED <<cluster, marker, lock, pc, arg, store, receipts, evidence, report, lifecycle, inside, cell, secret,
                       pgdata, minted>>
    BY <1>3 DEF WalArchived, referenceVars, stagingVars, kindVars, hostVars, procVars
  <2> QED
    BY <1>0, <2>1 DEF CellTypes
<1> QED
  BY <1>1, <1>2, <1>3 DEF Environment

LEMMA InitHost ==
  ASSUME Init
  PROVE  Host
<1>1. /\ cluster = [n \in Names |-> NoCluster] /\ inside = [n \in Names |-> Empty]
      /\ marker = [s \in Sites |-> NoBinding] /\ lock = [s \in Sites |-> NoProc]
      /\ pc = [p \in Procs |-> "idle"] /\ arg = [p \in Procs |-> NoArg]
  BY DEF Init, KindInit
<1>2. Contents(Empty)
  BY DEF Contents, Empty
<1>3. HostTypes
  BY <1>1, <1>2 DEF HostTypes, Labels
<1>4. CellTypes
  BY DEF Init, StagingInit, CellTypes
<1>5. ASSUME NEW p \in Procs
      PROVE  Program(p) /\ AtItsSite(p)
  <2>1. arg[p].cmd = "none" /\ pc[p] = "idle"
    BY <1>1 DEF NoArg
  <2> QED
    BY <2>1 DEF Program, AtItsSite
<1> QED
  BY <1>3, <1>4, <1>5 DEF Host

LEMMA NextHost ==
  ASSUME Host, [Next]_platformVars
  PROVE  Host'
<1>1. ASSUME NEW p \in Procs, Crash(p)
      PROVE  Host'
  <2>1. HostTypes' /\ CellTypes'
    BY <1>1, CrashOf DEF Host, HostTypes, CellTypes, cellVars
  <2>2. ASSUME NEW q \in Procs
        PROVE  (Program(q) /\ AtItsSite(q))'
    <3>0. Program(q) /\ AtItsSite(q) /\ arg' = arg
      BY <1>1, CrashOf DEF Host
    <3>1. CASE q = p
      <4>1. pc'[p] = "crashed" /\ pc[p] # "idle"
        BY <1>1, CrashOf
      <4>2. "crashed" \in Ended /\ "crashed" \notin NotHa
        BY DEF Ended, Terminal, NotHa, Requiring, Proving, Upping
      <4> QED
        BY <3>0, <3>1, <4>1, <4>2 DEF Program, AtItsSite
    <3>2. CASE q # p
      <4>1. pc'[q] = pc[q]
        BY <1>1, <3>2, CrashOf
      <4> QED
        BY <3>0, <4>1 DEF Program, AtItsSite
    <3> QED
      BY <3>1, <3>2
  <2> QED
    BY <2>1, <2>2 DEF Host
<1>2. CASE Environment
  <2>1. /\ UNCHANGED <<cluster, marker, lock, pc, arg>>
        /\ DOMAIN inside' = Names /\ (\A n \in Names : Contents(inside'[n])) /\ CellTypes'
    BY <1>2, EnvironmentOf
  <2>2. HostTypes'
    BY <2>1 DEF Host, HostTypes
  <2>3. ASSUME NEW q \in Procs
        PROVE  (Program(q) /\ AtItsSite(q))'
    BY <2>1 DEF Host, Program, AtItsSite
  <2> QED
    BY <2>1, <2>2, <2>3 DEF Host
<1>3. CASE UNCHANGED platformVars
  <2>1. UNCHANGED <<cluster, inside, marker, lock, pc, arg, cell, secret, pgdata, minted, report>>
    BY <1>3 DEF platformVars, kindVars, hostVars, procVars, stagingVars
  <2>2. HostTypes' /\ CellTypes'
    BY <2>1 DEF Host, HostTypes, CellTypes
  <2>3. ASSUME NEW q \in Procs
        PROVE  (Program(q) /\ AtItsSite(q))'
    BY <2>1 DEF Host, Program, AtItsSite
  <2> QED
    BY <2>2, <2>3 DEF Host
<1> QED
  BY <1>1, <1>2, <1>3, StepsOfHost, OwnKeepsHost, KindKeepsHost

-----------------------------------------------------------------------------
(* Owned: every step keeps locks, markers and clusters in agreement *)

LEMMA InitOwned ==
  ASSUME Init
  PROVE  Owned
<1>1. /\ cluster = [n \in Names |-> NoCluster] /\ pc = [p \in Procs |-> "idle"]
  BY DEF Init, KindInit
<1>2. ASSUME NEW p \in Procs
      PROVE  Reserved(p)
  BY <1>1 DEF Reserved, Holding
<1>3. ASSUME NEW s \in Sites
      PROVE  Marked(s)
  BY <1>1 DEF Marked, Names
<1> QED
  BY <1>2, <1>3 DEF Owned

LEMMA OwnKeepsOwned ==
  ASSUME Host, Owned, NEW p \in Procs, OwnStep(p)
  PROVE  Owned'
<1>0. /\ UNCHANGED <<cluster, marker, lock>> /\ cluster \in [Names -> Procs \cup {NoCluster}]
      /\ \A q \in Procs \ {p} : pc'[q] = pc[q] /\ arg'[q] = arg[q]
      /\ pc'[p] \notin Holding
      /\ pc[p] \notin Fresh => pc'[p] \notin Fresh /\ arg'[p].owner = arg[p].owner /\ arg'[p].commit = arg[p].commit
  BY DEF OwnStep, Host, HostTypes
<1>1. ASSUME NEW q \in Procs
      PROVE  Reserved(q)'
  <2>1. CASE q = p
    BY <1>0, <2>1 DEF Reserved, Holding
  <2>2. CASE q # p
    <3>1. Reserved(q) /\ pc'[q] = pc[q] /\ arg'[q] = arg[q]
      BY <1>0, <2>2 DEF Owned
    <3> QED
      BY <1>0, <3>1 DEF Reserved, Site, Name, Bound
  <2> QED
    BY <2>1, <2>2
<1>2. ASSUME NEW s \in Sites
      PROVE  Marked(s)'
  <2> SUFFICES ASSUME cluster[NameOf[s]] # NoCluster
               PROVE  /\ marker[s] = Bound(cluster[NameOf[s]])'
                      /\ pc'[cluster[NameOf[s]]] \notin Fresh
    BY <1>0 DEF Marked
  <2> DEFINE c == cluster[NameOf[s]]
  <2>1. c \in Procs /\ marker[s] = Bound(c) /\ pc[c] \notin Fresh
    BY <1>0 DEF Owned, Marked, Names
  <2> HIDE DEF c
  <2>2. arg'[c].owner = arg[c].owner /\ arg'[c].commit = arg[c].commit /\ pc'[c] \notin Fresh
    BY <1>0, <2>1
  <2>3. Bound(c)' = Bound(c)
    BY <1>0, <2>2 DEF Bound, c
  <2> QED
    BY <1>0, <2>1, <2>2, <2>3 DEF c
<1> QED
  BY <1>1, <1>2 DEF Owned

\* Who works at a site keeps the others and their sites out of it.
LEMMA KindKeepsOthers ==
  ASSUME Host, Owned, DistinctNames, NEW p \in Procs, KindMoves(p),
         lock[Site(p)] \in {p, NoProc} \/ UNCHANGED <<cluster, marker, lock>>
  PROVE  /\ \A q \in Procs \ {p} : Reserved(q)'
         /\ \A s \in Sites \ {Site(p)} : Marked(s)'
         /\ pc'[p] \notin Fresh /\ arg' = arg
<1>0. HostTypes
  BY DEF Host
<1>1. pc[p] \in Creating \cup Requiring \cup Deleting
  BY DEF KindMoves
<1>2. pc[p] # "idle"
  BY <1>1 DEF Creating, Requiring, Deleting
<1>3. Site(p) \in Sites /\ Name(p) \in Names
  BY <1>2, ArgOf
<1>4. PICK t \in Creating \cup Requiring \cup Deleting \cup {"raise"} : pc' = [pc EXCEPT ![p] = t]
  BY DEF KindMoves
<1>5. arg' = arg /\ pc'[p] = t /\ \A q \in Procs \ {p} : pc'[q] = pc[q]
  BY <1>0, <1>4 DEF KindMoves, HostTypes
<1>6. t \notin Fresh
  BY DEF Creating, Requiring, Deleting, Fresh
<1>7. ASSUME NEW s \in Sites, s # Site(p)
      PROVE  cluster'[NameOf[s]] = cluster[NameOf[s]] /\ marker'[s] = marker[s] /\ lock'[s] = lock[s]
  <2>1. NameOf[s] # Name(p) /\ NameOf[s] \in Names
    BY <1>3, <1>7 DEF DistinctNames, Name, Names
  <2> QED
    BY <1>0, <1>3, <1>7, <2>1 DEF KindMoves, HostTypes
<1>8. ASSUME NEW q \in Procs, q # p
      PROVE  Reserved(q)'
  <2>0. pc'[q] = pc[q] /\ arg'[q] = arg[q] /\ Reserved(q)
    BY <1>5, <1>8 DEF Owned
  <2>1. CASE UNCHANGED <<cluster, marker, lock>>
    BY <2>0, <2>1 DEF Reserved, Site, Name, Bound
  <2>2. CASE pc[q] \in Holding /\ lock[Site(p)] \in {p, NoProc}
    <3>1. lock[Site(q)] = q /\ Site(q) # Site(p)
      BY <1>8, <2>0, <2>2, NullAssumption DEF Reserved
    <3>2. pc[q] # "idle"
      BY <2>2 DEF Holding
    <3>3. Site(q) \in Sites
      BY <3>2, ArgOf
    <3>4. cluster'[Name(q)] = cluster[Name(q)] /\ marker'[Site(q)] = marker[Site(q)] /\ lock'[Site(q)] = lock[Site(q)]
      BY <1>7, <3>1, <3>3 DEF Name
    <3>5. Site(q)' = Site(q) /\ Name(q)' = Name(q) /\ Bound(q)' = Bound(q)
      BY <1>5 DEF Site, Name, Bound
    <3> QED
      BY <2>0, <3>4, <3>5 DEF Reserved
  <2>3. CASE pc[q] \notin Holding
    BY <2>0, <2>3 DEF Reserved, Holding
  <2> QED
    BY <2>1, <2>2, <2>3
<1>9. ASSUME NEW s \in Sites, s # Site(p)
      PROVE  Marked(s)'
  <2> SUFFICES ASSUME cluster[NameOf[s]] # NoCluster
               PROVE  /\ marker[s] = [owner |-> arg'[cluster[NameOf[s]]].owner, commit |-> arg'[cluster[NameOf[s]]].commit]
                      /\ pc'[cluster[NameOf[s]]] \notin Fresh
    BY <1>7, <1>9 DEF Marked, Bound
  <2> DEFINE c == cluster[NameOf[s]]
  <2>1. c \in Procs /\ marker[s] = Bound(c) /\ pc[c] \notin Fresh
    BY <1>0 DEF Owned, Marked, Names, HostTypes
  <2> HIDE DEF c
  <2>2. pc'[c] \notin Fresh
    BY <1>5, <1>6, <2>1
  <2> QED
    BY <1>5, <2>1, <2>2 DEF c, Bound
<1> QED
  BY <1>5, <1>6, <1>8, <1>9

LEMMA KindKeepsOwned ==
  ASSUME Host, Owned, DistinctNames, NEW p \in Procs, KindStep(p)
  PROVE  Owned'
<1>0. HostTypes /\ KindMoves(p) /\ Reserved(p)
  BY KindStepMoves DEF Host, Owned
<1>1. pc[p] # "idle"
  BY <1>0 DEF KindMoves, Creating, Requiring, Deleting
<1>2. Site(p) \in Sites /\ Name(p) \in Names /\ Bound(p) # NoBinding /\ NameOf[Site(p)] = Name(p) /\ Marked(Site(p))
  BY <1>1, ArgOf DEF Name, Owned
<1>3. /\ arg' = arg /\ Site(p)' = Site(p) /\ Name(p)' = Name(p) /\ \A q \in Procs : Bound(q)' = Bound(q)
  BY <1>0 DEF KindMoves, Site, Name, Bound
<1> DEFINE Fine == /\ lock[Site(p)] \in {p, NoProc} \/ UNCHANGED <<cluster, marker, lock>>
                   /\ Reserved(p)'
                   /\ cluster'[Name(p)] # NoCluster =>
                         /\ \/ cluster'[Name(p)] = p /\ marker'[Site(p)] = Bound(p)
                            \/ cluster'[Name(p)] = cluster[Name(p)] /\ marker'[Site(p)] = marker[Site(p)]
<1>4. ASSUME NEW t, pc' = [pc EXCEPT ![p] = t]
      PROVE  pc'[p] = t
  BY <1>0, <1>4 DEF HostTypes
<1>5. ASSUME Reserve(p)
      PROVE  Fine
  <2>1. lock[Site(p)] = NoProc
    BY <1>5 DEF Reserve
  <2>2. CASE cluster[Name(p)] # NoCluster \/ marker[Site(p)] # NoBinding
    <3>1. pc'[p] = "raise" /\ UNCHANGED <<cluster, marker, lock>>
      BY <1>4, <1>5, <2>2 DEF Reserve, Goto
    <3> QED
      BY <2>1, <3>1 DEF Reserved, Holding
  <2>3. CASE cluster[Name(p)] = NoCluster /\ marker[Site(p)] = NoBinding
    <3>1. pc'[p] = "create" /\ cluster' = cluster /\ marker' = [marker EXCEPT ![Site(p)] = Bound(p)]
          /\ lock' = [lock EXCEPT ![Site(p)] = p]
      BY <1>4, <1>5, <2>3 DEF Reserve, Goto
    <3>2. marker'[Site(p)] = Bound(p) /\ lock'[Site(p)] = p
      BY <1>0, <1>2, <3>1 DEF HostTypes
    <3> QED
      BY <1>3, <2>1, <2>3, <3>1, <3>2 DEF Reserved, Holding
  <2> QED
    BY <2>2, <2>3
<1>6. ASSUME KindCreate(p)
      PROVE  Fine
  <2>1. pc[p] = "create" /\ UNCHANGED <<marker, lock>> /\ (pc'[p] \in {"access", "rollback"})
        /\ (cluster' = cluster \/ cluster' = [cluster EXCEPT ![Name(p)] = p])
    BY <1>4, <1>6 DEF KindCreate, Goto
  <2>2. lock[Site(p)] = p /\ marker[Site(p)] = Bound(p) /\ cluster[Name(p)] = NoCluster
    BY <1>0, <2>1 DEF Reserved, Holding
  <2>3. cluster'[Name(p)] \in {NoCluster, p}
    BY <1>0, <1>2, <2>1, <2>2 DEF HostTypes
  <2> QED
    BY <1>3, <2>1, <2>2, <2>3 DEF Reserved, Holding
<1>7. ASSUME ConfigureAccess(p)
      PROVE  Fine
  <2>1. pc[p] = "access" /\ UNCHANGED <<cluster, marker>>
        /\ (pc'[p] = "created" \/ (pc'[p] = "rollback" /\ lock' = lock))
    BY <1>4, <1>7 DEF ConfigureAccess, Goto
  <2>2. lock[Site(p)] = p /\ marker[Site(p)] = Bound(p) /\ cluster[Name(p)] \in {NoCluster, p}
    BY <1>0, <2>1 DEF Reserved, Holding
  <2> QED
    BY <1>3, <2>1, <2>2 DEF Reserved, Holding
<1>8. ASSUME Rollback(p)
      PROVE  Fine
  <2>1. /\ pc[p] = "rollback" /\ marker' = marker
        /\ \/ pc'[p] = "rollback_marker" /\ lock' = lock /\ cluster' = [cluster EXCEPT ![Name(p)] = NoCluster]
           \/ pc'[p] = "again" /\ cluster' = cluster
    BY <1>4, <1>8 DEF Rollback, Goto
  <2>2. lock[Site(p)] = p /\ marker[Site(p)] = Bound(p)
    BY <1>0, <2>1 DEF Reserved, Holding
  <2>3. cluster' = [cluster EXCEPT ![Name(p)] = NoCluster] => cluster'[Name(p)] = NoCluster
    BY <1>0, <1>2 DEF HostTypes
  <2> QED
    BY <1>3, <2>1, <2>2, <2>3 DEF Reserved, Holding
<1>9. ASSUME RemoveMarker(p)
      PROVE  Fine
  <2>1. pc[p] \in {"rollback_marker", "delete_marker"} /\ pc'[p] \in {"rollback_kubeconfig", "delete_kubeconfig"}
        /\ UNCHANGED <<cluster, lock>>
    BY <1>4, <1>9 DEF RemoveMarker, Goto
  <2>2. lock[Site(p)] = p /\ cluster[Name(p)] = NoCluster
    BY <1>0, <2>1 DEF Reserved, Holding
  <2> QED
    BY <1>3, <2>1, <2>2 DEF Reserved, Holding
<1>10. ASSUME RemoveKubeconfig(p)
       PROVE  Fine
  <2>1. pc[p] \in {"rollback_kubeconfig", "delete_kubeconfig"} /\ pc'[p] \in {"again", "deleted"} /\ UNCHANGED <<cluster, marker>>
    BY <1>4, <1>10 DEF RemoveKubeconfig, Goto
  <2>2. lock[Site(p)] = p
    BY <1>0, <2>1 DEF Reserved, Holding
  <2> QED
    BY <1>3, <2>1, <2>2 DEF Reserved, Holding
<1>11. ASSUME TryAgain(p) \/ RequireOwned(p) \/ ExportKubeconfig(p)
       PROVE  Fine
  <2>1. pc'[p] \in {"reserve", "raise", "export", "owned"} /\ UNCHANGED <<cluster, marker, lock>>
    BY <1>4, <1>11 DEF TryAgain, RequireOwned, ExportKubeconfig, Goto, hostVars
  <2> QED
    BY <2>1 DEF Reserved, Holding
<1>12. ASSUME DeleteOwned(p)
       PROVE  Fine
  <2>1. /\ UNCHANGED <<cluster, marker>> /\ lock[Site(p)] = NoProc
        /\ \/ pc'[p] = "kind_delete" /\ lock' = [lock EXCEPT ![Site(p)] = p] /\ marker[Site(p)] = Bound(p)
           \/ pc'[p] \in {"absent", "raise"}
    BY <1>4, <1>12 DEF DeleteOwned, MarkerBinds, Goto
  <2>2. lock' = [lock EXCEPT ![Site(p)] = p] => lock'[Site(p)] = p
    BY <1>0, <1>2 DEF HostTypes
  <2> QED
    BY <1>3, <2>1, <2>2 DEF Reserved, Holding
<1>13. ASSUME KindDelete(p)
       PROVE  Fine
  <2>1. /\ pc[p] = "kind_delete" /\ marker' = marker
        /\ \/ pc'[p] = "delete_marker" /\ lock' = lock /\ cluster' = [cluster EXCEPT ![Name(p)] = NoCluster]
           \/ pc'[p] = "raise" /\ cluster' = cluster
    BY <1>4, <1>13 DEF KindDelete, Goto
  <2>2. lock[Site(p)] = p
    BY <1>0, <2>1 DEF Reserved, Holding
  <2>3. cluster' = [cluster EXCEPT ![Name(p)] = NoCluster] => cluster'[Name(p)] = NoCluster
    BY <1>0, <1>2 DEF HostTypes
  <2> QED
    BY <1>3, <2>1, <2>2, <2>3 DEF Reserved, Holding
<1>14. Fine
  BY <1>5, <1>6, <1>7, <1>8, <1>9, <1>10, <1>11, <1>12, <1>13 DEF KindStep
<1>15. /\ \A q \in Procs \ {p} : Reserved(q)'
       /\ \A s \in Sites \ {Site(p)} : Marked(s)'
       /\ pc'[p] \notin Fresh
  BY <1>0, <1>14, KindKeepsOthers
<1>16. Marked(Site(p))'
  <2> DEFINE c == cluster[Name(p)]
  <2>0. \A q \in Procs \ {p} : pc'[q] = pc[q]
    BY <1>0 DEF KindMoves, HostTypes
  <2>1. CASE cluster'[Name(p)] = p /\ marker'[Site(p)] = Bound(p)
    BY <1>2, <1>3, <1>15, <2>1 DEF Marked, Bound
  <2>2. CASE cluster'[Name(p)] # NoCluster /\ cluster'[Name(p)] = c /\ marker'[Site(p)] = marker[Site(p)]
    <3>1. c \in Procs /\ marker[Site(p)] = Bound(c) /\ pc[c] \notin Fresh
      BY <1>0, <1>2, <2>2 DEF Marked, HostTypes
    <3>2. pc'[c] \notin Fresh
      BY <1>15, <2>0, <3>1
    <3>3. marker'[Site(p)] = [owner |-> arg'[c].owner, commit |-> arg'[c].commit]
      BY <1>3, <2>2, <3>1 DEF Bound
    <3> HIDE DEF c
    <3> QED
      BY <1>2, <1>3, <2>2, <3>2, <3>3 DEF Marked, Bound
  <2>3. CASE cluster'[Name(p)] = NoCluster
    BY <1>2, <1>3, <2>3 DEF Marked
  <2> QED
    BY <1>14, <2>1, <2>2, <2>3
<1>17. \A s \in Sites : Marked(s)'
  <2> SUFFICES ASSUME NEW s \in Sites PROVE Marked(s)'
    OBVIOUS
  <2>1. CASE s = Site(p)
    <3>1. Marked(s)' = Marked(Site(p))'
      BY <1>3, <2>1 DEF Marked
    <3> QED
      BY <1>16, <3>1
  <2> QED
    BY <1>15, <2>1
<1> QED
  BY <1>14, <1>15, <1>17 DEF Owned

LEMMA CrashKeepsOwned ==
  ASSUME Host, Owned, NEW p \in Procs, Crash(p)
  PROVE  Owned'
<1>0. /\ UNCHANGED <<cluster, marker, arg>> /\ pc'[p] = "crashed" /\ HostTypes
      /\ \A q \in Procs \ {p} : pc'[q] = pc[q]
      /\ \A s \in Sites : lock'[s] = IF lock[s] = p THEN NoProc ELSE lock[s]
  BY CrashOf DEF Host
<1>1. \A q \in Procs : Site(q)' = Site(q) /\ Name(q)' = Name(q) /\ Bound(q)' = Bound(q)
  BY <1>0 DEF Site, Name, Bound
<1>2. ASSUME NEW q \in Procs
      PROVE  Reserved(q)'
  <2>1. CASE q = p \/ pc[q] \notin Holding
    <3>1. pc'[q] \notin Holding
      BY <1>0, <2>1 DEF Holding
    <3> QED
      BY <3>1 DEF Reserved, Holding
  <2>2. CASE q # p /\ pc[q] \in Holding
    <3>1. pc[q] # "idle"
      BY <2>2 DEF Holding
    <3>2. Site(q) \in Sites /\ lock[Site(q)] = q
      BY <2>2, <3>1, ArgOf DEF Owned, Reserved
    <3>3. lock'[Site(q)] = lock[Site(q)] /\ pc'[q] = pc[q] /\ Reserved(q)
      BY <1>0, <2>2, <3>2 DEF Owned
    <3> QED
      BY <1>0, <1>1, <3>3 DEF Reserved
  <2> QED
    BY <2>1, <2>2
<1>3. ASSUME NEW s \in Sites
      PROVE  Marked(s)'
  <2>1. Marked(s) /\ cluster[NameOf[s]] \in Procs \cup {NoCluster}
    BY <1>0 DEF Owned, HostTypes, Names
  <2>2. \A c \in Procs : pc[c] \notin Fresh => pc'[c] \notin Fresh
    BY <1>0 DEF Fresh
  <2> QED
    BY <1>0, <2>1, <2>2 DEF Marked, Bound
<1> QED
  BY <1>2, <1>3 DEF Owned

LEMMA UnchangedKeepsOwned ==
  ASSUME Owned, UNCHANGED <<cluster, marker, lock, pc, arg>>
  PROVE  Owned'
<1>1. ASSUME NEW q \in Procs
      PROVE  Reserved(q)'
  BY DEF Owned, Reserved, Site, Name, Bound
<1>2. ASSUME NEW s \in Sites
      PROVE  Marked(s)'
  BY DEF Owned, Marked, Bound
<1> QED
  BY <1>1, <1>2 DEF Owned

LEMMA NextOwned ==
  ASSUME Host, Owned, DistinctNames, [Next]_platformVars
  PROVE  Owned'
<1>1. CASE Environment
  BY <1>1, EnvironmentOf, UnchangedKeepsOwned
<1>2. CASE UNCHANGED platformVars
  <2>1. UNCHANGED <<cluster, marker, lock, pc, arg>>
    BY <1>2 DEF platformVars, kindVars, hostVars, procVars
  <2> QED
    BY <2>1, UnchangedKeepsOwned
<1> QED
  BY <1>1, <1>2, StepsOfHost, OwnKeepsOwned, KindKeepsOwned, CrashKeepsOwned

\* A step that replaces or removes a cluster is one of its creator's owner.
LEMMA KindChangesOwn ==
  ASSUME Host, Owned, NEW p \in Procs, KindStep(p), NEW n \in Names, cluster'[n] # cluster[n]
  PROVE  /\ Name(p) = n /\ pc'[p] # pc[p]
         /\ cluster[n] # NoCluster => cluster'[n] = NoCluster /\ Bound(p) = Bound(cluster[n])
<1>0. HostTypes /\ KindMoves(p) /\ Reserved(p)
  BY KindStepMoves DEF Host, Owned
<1>1. pc[p] # "idle"
  BY <1>0 DEF KindMoves, Creating, Requiring, Deleting
<1>2. Site(p) \in Sites /\ Name(p) \in Names /\ NameOf[Site(p)] = Name(p) /\ Marked(Site(p))
  BY <1>1, ArgOf DEF Name, Owned
<1>3. Name(p) = n
  BY <1>0 DEF KindMoves, HostTypes
<1>4. CASE KindCreate(p)
  <2>1. pc[p] = "create" /\ (pc' = [pc EXCEPT ![p] = "access"] \/ pc' = [pc EXCEPT ![p] = "rollback"])
    BY <1>4 DEF KindCreate, Goto
  <2>2. cluster[n] = NoCluster
    BY <1>0, <1>3, <2>1 DEF Reserved
  <2> QED
    BY <1>0, <1>3, <2>1, <2>2 DEF HostTypes
<1>5. CASE Rollback(p) \/ KindDelete(p)
  <2>1. /\ pc[p] \in {"rollback", "kind_delete"} /\ cluster' = [cluster EXCEPT ![Name(p)] = NoCluster]
        /\ \E t \in {"rollback_marker", "delete_marker"} : pc' = [pc EXCEPT ![p] = t]
    BY <1>5 DEF Rollback, KindDelete, Goto
  <2>2. marker[Site(p)] = Bound(p) /\ pc'[p] # pc[p] /\ cluster'[n] = NoCluster
    BY <1>0, <1>3, <2>1 DEF Reserved, HostTypes
  <2> QED
    BY <1>2, <1>3, <2>2 DEF Marked
<1>6. CASE ~(KindCreate(p) \/ Rollback(p) \/ KindDelete(p))
  <2>1. cluster' = cluster
    BY <1>6 DEF KindStep, Reserve, ConfigureAccess, RemoveMarker, RemoveKubeconfig, TryAgain, RequireOwned,
                ExportKubeconfig, DeleteOwned, hostVars
  <2> QED
    BY <2>1
<1> QED
  BY <1>4, <1>5, <1>6

-----------------------------------------------------------------------------
(* Proven: the invocations of one owner *)

LEMMA ToolsAreBusy ==
  ASSUME Host, NEW p \in Procs, HaTool(p) \/ ProofTool(p)
  PROVE  pc[p] \notin Fresh
<1>1. Program(p)
  BY DEF Host
<1>2. Fresh \cap ({"proof", "oci_host", "kept"} \cup Creating \cup Proving \cup Deleting \cup Ended) = {} /\ Fresh \subseteq NotHa
  BY DEF Fresh, Creating, Proving, Deleting, Ended, Terminal, NotHa
<1> QED
  BY <1>1, <1>2 DEF Program, HaTool, ProofTool

\* An invocation that is active was so before, for the same owner.
Follows(q) ==
    (HaTool(q) \/ ProofTool(q))' /\ Active(q)' =>
        /\ Active(q) /\ arg'[q].owner = arg[q].owner /\ HaTool(q)' = HaTool(q) /\ ProofTool(q)' = ProofTool(q)
        /\ ProofTool(q) => arg'[q].site = arg[q].site

LEMMA FollowersTakeTurns ==
  ASSUME \A p, q \in Procs : OneAtATime(p, q), \A q \in Procs : Follows(q)
  PROVE  \A p, q \in Procs : OneAtATime(p, q)'
<1> SUFFICES ASSUME NEW p \in Procs, NEW q \in Procs
             PROVE  OneAtATime(p, q)'
  OBVIOUS
<1>1. OneAtATime(p, q) /\ Follows(p) /\ Follows(q)
  OBVIOUS
<1>2. CASE HaTool(p)' /\ HaTool(q)'
  BY <1>1, <1>2 DEF OneAtATime, Follows
<1>3. CASE ProofTool(p)' /\ ProofTool(q)'
  BY <1>1, <1>3 DEF OneAtATime, Follows
<1> QED
  BY <1>2, <1>3 DEF OneAtATime

LEMMA OwnFollows ==
  ASSUME Host, NEW p \in Procs, OwnStep(p), pc[p] # "idle"
  PROVE  \A q \in Procs : Follows(q)
<1>1. ASSUME NEW q \in Procs, q # p
      PROVE  Follows(q)
  <2>1. pc'[q] = pc[q] /\ arg'[q] = arg[q]
    BY <1>1 DEF OwnStep
  <2> QED
    BY <2>1 DEF Follows, HaTool, ProofTool, Active
<1>2. Follows(p)
  <2>1. arg'[p].cmd = arg[p].cmd /\ (HaTool(p) \/ arg'[p].site = arg[p].site) /\ Active(p)
    BY DEF OwnStep, Active
  <2>2. HaTool(p)' = HaTool(p) /\ ProofTool(p)' = ProofTool(p)
    BY <2>1 DEF HaTool, ProofTool
  <2>3. HaTool(p) \/ ProofTool(p) => arg'[p].owner = arg[p].owner
    BY ToolsAreBusy DEF OwnStep
  <2>4. ~(HaTool(p) /\ ProofTool(p))
    BY DEF HaTool, ProofTool
  <2> QED
    BY <2>1, <2>2, <2>3, <2>4 DEF Follows
<1> QED
  BY <1>1, <1>2

LEMMA KindFollows ==
  ASSUME Host, NEW p \in Procs, KindMoves(p)
  PROVE  \A q \in Procs : Follows(q)
<1>1. arg' = arg /\ Active(p) /\ \A q \in Procs \ {p} : pc'[q] = pc[q]
  BY DEF KindMoves, Active, Creating, Requiring, Deleting, Terminal, Host, HostTypes
<1> QED
  BY <1>1 DEF Follows, HaTool, ProofTool, Active

LEMMA CrashFollows ==
  ASSUME Host, NEW p \in Procs, Crash(p)
  PROVE  \A q \in Procs : Follows(q)
<1>1. arg' = arg /\ Active(p) /\ \A q \in Procs \ {p} : pc'[q] = pc[q]
  BY CrashOf DEF Active
<1> QED
  BY <1>1 DEF Follows, HaTool, ProofTool, Active

LEMMA StartTakesTurns ==
  ASSUME Host, NEW p \in Procs, StartTool(p), \A q, r \in Procs : OneAtATime(q, r)
  PROVE  \A q, r \in Procs : OneAtATime(q, r)'
<1>0. OwnStep(p)
  BY StartIsOwn
<1>1. ASSUME NEW q \in Procs, q # p
      PROVE  Follows(q) /\ pc'[q] = pc[q] /\ arg'[q] = arg[q]
  <2>1. pc'[q] = pc[q] /\ arg'[q] = arg[q]
    BY <1>0, <1>1 DEF OwnStep
  <2> QED
    BY <2>1 DEF Follows, HaTool, ProofTool, Active
<1>2. ASSUME NEW q \in Procs, q # p, HaTool(q) \/ ProofTool(q), Active(q)
      PROVE  /\ HaTool(p)' => arg'[p].owner # arg[q].owner
             /\ ProofTool(p)' => ~(arg'[p].owner = arg[q].owner /\ arg'[p].site = arg[q].site)
  <2>0. pc[q] # "idle" /\ pc[q] \notin Terminal
    BY <1>2, ToolsAreBusy DEF Fresh, Active
  <2>1. CASE StartProof(p) \/ StartDown(p)
    <3>1. PICK s \in ReferenceSites, o \in Owners, c \in Commits, cmd \in {"proof", "down"}, first \in {"proof", "delete_if_present"} :
            OwnerIdle(s, o) /\ Start(p, cmd, first, s, o, c)
      BY <2>1 DEF StartProof, StartDown
    <3>2. arg'[p] = [cmd |-> cmd, site |-> s, owner |-> o, commit |-> c]
      BY <3>1 DEF Start, Host, HostTypes
    <3>3. arg'[p].owner = o /\ arg'[p].site = s /\ ~HaTool(p)'
      BY <3>2 DEF HaTool
    <3> QED
      BY <2>0, <3>1, <3>3 DEF OwnerIdle
  <2>2. CASE StartStaging(p)
    <3>1. PICK cmd \in {"up", "staging_down", "status"}, o \in Owners, c \in Commits : Start(p, cmd, cmd, StagingSite, o, c)
      BY <2>2 DEF StartStaging
    <3>2. arg'[p] = [cmd |-> cmd, site |-> StagingSite, owner |-> o, commit |-> c]
      BY <3>1 DEF Start, Host, HostTypes
    <3> QED
      BY <3>2 DEF HaTool, ProofTool
  <2>3. CASE StartHa(p)
    <3>1. PICK o \in Owners, c \in Commits, cmd \in {"ha_proof", "ha_down"}, first \in {"ha", "ha_finally"} :
            /\ \A r \in Procs : pc[r] \notin Terminal \cup {"idle"} => arg[r].owner # o
            /\ Start(p, cmd, first, HaPrimary, o, c)
      BY <2>3 DEF StartHa
    <3>2. arg'[p] = [cmd |-> cmd, site |-> HaPrimary, owner |-> o, commit |-> c]
      BY <3>1 DEF Start, Host, HostTypes
    <3>3. arg'[p].owner = o /\ ~ProofTool(p)'
      BY <3>2 DEF ProofTool
    <3> QED
      BY <2>0, <3>1, <3>3
  <2> QED
    BY <2>1, <2>2, <2>3 DEF StartTool
<1>3. ASSUME NEW q \in Procs, q # p
      PROVE  OneAtATime(p, q)' /\ OneAtATime(q, p)'
  <2>1. HaTool(q)' = HaTool(q) /\ ProofTool(q)' = ProofTool(q) /\ Active(q)' = Active(q) /\ arg'[q] = arg[q]
    BY <1>1, <1>3 DEF HaTool, ProofTool, Active
  <2> QED
    BY <1>2, <1>3, <2>1 DEF OneAtATime
<1>4. ASSUME NEW q \in Procs, NEW r \in Procs, q # p, r # p
      PROVE  OneAtATime(q, r)'
  <2>1. OneAtATime(q, r) /\ pc'[q] = pc[q] /\ arg'[q] = arg[q] /\ pc'[r] = pc[r] /\ arg'[r] = arg[r]
    BY <1>1, <1>4
  <2> QED
    BY <2>1 DEF OneAtATime, HaTool, ProofTool, Active
<1>5. OneAtATime(p, p)'
  BY DEF OneAtATime
<1> QED
  BY <1>3, <1>4, <1>5

\* The object store: what an owner inspected, nobody else takes away.
LEMMA QuietStore ==
  ASSUME Host, NEW p \in Procs, \A q \in Procs : Inspected(q), StoreTypes, store' = store, pc'[p] \notin Removing,
         \A q \in Procs \ {p} : pc'[q] = pc[q] /\ arg'[q] = arg[q]
  PROVE  StoreTypes' /\ \A q \in Procs : Inspected(q)'
<1>1. ASSUME NEW q \in Procs
      PROVE  Inspected(q)'
  <2>1. CASE q = p
    BY <2>1 DEF Inspected, Removing
  <2>2. CASE q # p
    <3>1. Inspected(q) /\ pc'[q] = pc[q] /\ Bound(q)' = Bound(q)
      BY <2>2 DEF Bound
    <3> QED
      BY <3>1 DEF Inspected
  <2> QED
    BY <2>1, <2>2
<1> QED
  BY <1>1 DEF StoreTypes

LEMMA HaKeepsStore ==
  ASSUME Host, NEW p \in Procs, HaMoves(p), StoreTypes,
         \A q \in Procs : Inspected(q), \A q, r \in Procs : OneAtATime(q, r)
  PROVE  /\ StoreTypes' /\ \A q \in Procs : Inspected(q)'
         /\ \A r \in DOMAIN store : store[r] # NoBinding /\ store'[r] # store[r] => pc'[p] # pc[p] /\ Bound(p) = store[r]
<1>0. /\ HostTypes /\ OwnStep(p) /\ \A q \in Procs \ {p} : pc'[q] = pc[q] /\ arg'[q] = arg[q]
      /\ HaTool(p) /\ Active(p) /\ DOMAIN store = {"container", "volume"}
  BY HaIsOwn DEF Host, OwnStep, HaMoves, Active, StoreTypes
<1>1. CASE store' = store /\ pc'[p] \notin Removing
  BY <1>0, <1>1, QuietStore
<1>2. ASSUME NEW t, pc' = [pc EXCEPT ![p] = t]
      PROVE  pc'[p] = t
  BY <1>0, <1>2 DEF HostTypes
<1>3. ASSUME NEW q \in Procs
      PROVE  pc[q] \in Removing => Bound(q) # NoBinding /\ HaTool(q) /\ Active(q)
  <2>1. Removing \cap NotInside = {} /\ "idle" \notin Removing
    BY DEF Removing, NotInside, NotHa, Creating, Requiring, Deleting, Proving, Upping, Ended, Terminal
  <2> QED
    BY <2>1, InsideHa, ArgOf DEF Active
<1>4. ASSUME NEW q \in Procs, q # p
      PROVE  Inspected(q) /\ pc'[q] = pc[q] /\ Bound(q)' = Bound(q)
  BY <1>0, <1>4 DEF Bound
<1>5. Bound(p) \in Labels /\ NoBinding \in Labels
  <2>1. pc[p] # "idle"
    BY DEF HaMoves, NotHa
  <2> QED
    BY <2>1, ArgOf DEF Labels
<1>6. CASE StoreCreate(p)
  <2>1. /\ store' \in [{"container", "volume"} -> Labels]
        /\ \A r \in {"container", "volume"} : store[r] # NoBinding => store'[r] = store[r]
    BY <1>5, <1>6 DEF StoreCreate, StoreTypes
  <2>2. pc'[p] \notin Removing
    BY <1>2, <1>6 DEF StoreCreate, HaFail, Become, Goto, Removing
  <2>3. ASSUME NEW q \in Procs
        PROVE  Inspected(q)'
    <3>1. CASE q = p
      BY <2>2, <3>1 DEF Inspected, Removing
    <3>2. CASE q # p
      BY <1>3, <1>4, <2>1, <3>2 DEF Inspected, Removing
    <3> QED
      BY <3>1, <3>2
  <2> QED
    BY <1>0, <2>1, <2>3 DEF StoreTypes
<1>7. ASSUME NEW r \in {"container", "volume"}, NEW from, NEW found \in Removing, NEW next, next \notin Removing,
             StoreInspect(p, r, from, found, next), found = IF r = "container" THEN "rm_container" ELSE "rm_volume"
      PROVE  StoreTypes' /\ store' = store /\ \A q \in Procs : Inspected(q)'
  <2>1. store' = store /\ arg' = arg /\ (pc'[p] = next \/ (pc'[p] = found /\ store[r] = Bound(p)))
    BY <1>2, <1>7 DEF StoreInspect, Become, Goto
  <2>2. ASSUME NEW q \in Procs
        PROVE  Inspected(q)'
    <3>1. CASE q = p
      <4>1. Bound(p)' = Bound(p)
        BY <2>1 DEF Bound
      <4> QED
        BY <1>7, <2>1, <3>1, <4>1 DEF Inspected, Removing
    <3>2. CASE q # p
      BY <1>4, <2>1, <3>2 DEF Inspected
    <3> QED
      BY <3>1, <3>2
  <2> QED
    BY <2>1, <2>2 DEF StoreTypes
<1>8. ASSUME NEW r \in {"container", "volume"}, NEW from \in Removing, NEW next, next \notin Removing,
             StoreRemove(p, r, from, next), from = IF r = "container" THEN "rm_container" ELSE "rm_volume"
      PROVE  /\ StoreTypes' /\ \A q \in Procs : Inspected(q)'
             /\ \A x \in DOMAIN store : store[x] # NoBinding /\ store'[x] # store[x] => pc'[p] # pc[p] /\ Bound(p) = store[x]
  <2>1. /\ pc[p] = from /\ arg' = arg /\ pc'[p] = next /\ (store' = store \/ store' = [store EXCEPT ![r] = NoBinding])
    BY <1>2, <1>8 DEF StoreRemove, Become, Goto
  <2>2. Inspected(p) /\ store[r] = Bound(p)
    BY <1>8, <2>1 DEF Inspected
  <2>3. StoreTypes' /\ \A x \in {"container", "volume"} \ {r} : store'[x] = store[x]
    BY <1>5, <2>1 DEF StoreTypes
  <2>4. ASSUME NEW q \in Procs, q # p, pc[q] = from
        PROVE  FALSE
    <3>1. store[r] = Bound(q) /\ HaTool(q) /\ Active(q)
      BY <1>3, <1>4, <1>8, <2>4 DEF Inspected
    <3>2. arg[q].owner = arg[p].owner
      BY <2>2, <3>1 DEF Bound
    <3>3. OneAtATime(p, q)
      OBVIOUS
    <3> QED
      BY <1>0, <2>4, <3>1, <3>2, <3>3 DEF OneAtATime
  <2>5. ASSUME NEW q \in Procs
        PROVE  Inspected(q)'
    <3>1. CASE q = p
      BY <1>8, <2>1, <3>1 DEF Inspected, Removing
    <3>2. CASE q # p
      BY <1>4, <1>8, <2>3, <2>4, <3>2 DEF Inspected
    <3> QED
      BY <3>1, <3>2
  <2> QED
    BY <1>0, <1>8, <2>1, <2>2, <2>3, <2>5
<1>9. CASE ReconcileStore(p)
  <2>1. CASE StoreReconciled(p)
    <3>1. store' = store
      BY <2>1 DEF StoreReconciled
    <3>2. pc'[p] \notin Removing
      BY <1>2, <2>1 DEF StoreReconciled, Become, Goto, Removing
    <3> QED
      BY <1>0, <3>1, <3>2, QuietStore
  <2>2. CASE StoreInspect(p, "container", "store_container", "rm_container", "store_volume")
    BY <1>7, <2>2 DEF Removing
  <2>3. CASE StoreRemove(p, "container", "rm_container", "store_volume")
    BY <1>8, <2>3 DEF Removing
  <2>4. CASE StoreInspect(p, "volume", "store_volume", "rm_volume", "store_done")
    BY <1>7, <2>4 DEF Removing
  <2>5. CASE StoreRemove(p, "volume", "rm_volume", "store_done")
    BY <1>8, <2>5 DEF Removing
  <2> QED
    BY <1>9, <2>1, <2>2, <2>3, <2>4, <2>5 DEF ReconcileStore
<1> QED
  BY <1>1, <1>6, <1>9 DEF HaMoves

\* The evidence of the proofs.
LEMMA OthersStayEvident ==
  ASSUME NEW p \in Procs, \A q \in Procs : Evident(q),
         \A q \in Procs \ {p} :
            /\ pc'[q] = pc[q] /\ arg'[q] = arg[q] /\ evidence'[q] = evidence[q] /\ (q \in receipts' <=> q \in receipts)
            /\ arg[q].cmd = "proof" /\ pc[q] \in Proving \cup {"created"} => cluster'[Name(q)] = cluster[Name(q)]
  PROVE  \A q \in Procs \ {p} : Evident(q)'
<1> SUFFICES ASSUME NEW q \in Procs, q # p
             PROVE  Evident(q)'
  OBVIOUS
<1>1. /\ pc'[q] = pc[q] /\ arg'[q] = arg[q] /\ evidence'[q] = evidence[q] /\ (q \in receipts' <=> q \in receipts)
      /\ arg[q].cmd = "proof" /\ pc[q] \in Proving \cup {"created"} => cluster'[Name(q)] = cluster[Name(q)]
      /\ Evident(q)
  OBVIOUS
<1>2. Name(q)' = Name(q)
  BY <1>1 DEF Name, Site
<1> QED
  BY <1>1, <1>2 DEF Evident

\* A step outside the proofs leaves evidence and clusters alone.
LEMMA OtherToolsKeepEvidence ==
  ASSUME NEW p \in Procs, OwnStep(p), \A q \in Procs : Evident(q), EvidenceTypes, UNCHANGED <<evidence, receipts>>,
         pc'[p] \notin Proving \cup {"created"}, pc[p] = "idle" \/ arg[p].cmd # "proof"
  PROVE  EvidenceTypes' /\ \A q \in Procs : Evident(q)'
<1>1. \A q \in Procs \ {p} : Evident(q)'
  BY OthersStayEvident DEF OwnStep
<1>2. Evident(p)'
  <2>1. Evident(p)
    OBVIOUS
  <2>2. p \notin receipts
    BY <2>1 DEF Evident, Deleting, Ended, Terminal
  <2> QED
    BY <2>1, <2>2 DEF Evident
<1> QED
  BY <1>1, <1>2 DEF EvidenceTypes

LEMMA PhaseIsEvident ==
  ASSUME Host, NEW p \in Procs, Evident(p), EvidenceTypes, NEW from \in {"created"} \cup Proving, NEW ph, NEW needs,
         NEW next \in Proving, Phase(p, from, ph, needs, next)
  PROVE  EvidenceTypes' /\ Evident(p)' /\ receipts' = receipts /\ \A q \in Procs \ {p} : evidence'[q] = evidence[q]
<1>1. pc[p] = from /\ arg[p].cmd = "proof" /\ cluster' = cluster /\ arg' = arg /\ receipts' = receipts
  BY DEF Phase
<1>2. cluster[Name(p)] = p /\ evidence[p] \in {{}, {p}} /\ p \notin receipts /\ Name(p)' = Name(p)
  BY <1>1 DEF Evident, Name, Site, Proving, Deleting, Ended, Terminal
<1>3. evidence \in [Procs -> SUBSET Procs] /\ DOMAIN pc = Procs
  BY DEF EvidenceTypes, Host, HostTypes
<1>4. \/ evidence' = [evidence EXCEPT ![p] = @ \cup {cluster[Name(p)]}] /\ pc' = [pc EXCEPT ![p] = next]
      \/ evidence' = [evidence EXCEPT ![p] = {}] /\ \E t \in {"kept", "delete"} : pc' = [pc EXCEPT ![p] = t]
  BY DEF Phase, Goto, Finally
<1>5. CASE evidence' = [evidence EXCEPT ![p] = @ \cup {cluster[Name(p)]}] /\ pc' = [pc EXCEPT ![p] = next]
  <2>1. evidence[p] \cup {cluster[Name(p)]} = {p}
    BY <1>2
  <2>2. evidence' = [evidence EXCEPT ![p] = {p}]
    BY <1>5, <2>1
  <2>3. evidence' \in [Procs -> SUBSET Procs] /\ evidence'[p] = {p} /\ \A q \in Procs \ {p} : evidence'[q] = evidence[q]
    BY <1>3, <2>2
  <2> QED
    BY <1>1, <1>2, <1>3, <2>3 DEF Evident, EvidenceTypes
<1>6. CASE evidence' = [evidence EXCEPT ![p] = {}] /\ \E t \in {"kept", "delete"} : pc' = [pc EXCEPT ![p] = t]
  <2>1. evidence' \in [Procs -> SUBSET Procs] /\ evidence'[p] = {} /\ \A q \in Procs \ {p} : evidence'[q] = evidence[q]
    BY <1>3, <1>6
  <2>2. pc'[p] \in {"kept", "delete"}
    BY <1>3, <1>6
  <2>3. pc'[p] \notin Proving \cup {"created"}
    BY <2>2 DEF Proving
  <2> QED
    BY <1>1, <1>2, <2>1, <2>3 DEF Evident, EvidenceTypes
<1> QED
  BY <1>4, <1>5, <1>6

LEMMA ReferenceIsEvident ==
  ASSUME Host, NEW p \in Procs, ReferenceStep(p), Evident(p), EvidenceTypes
  PROVE  EvidenceTypes' /\ Evident(p)' /\ \A q \in Procs \ {p} : evidence'[q] = evidence[q] /\ (q \in receipts' <=> q \in receipts)
<1>0. evidence \in [Procs -> SUBSET Procs] /\ DOMAIN pc = Procs /\ receipts \subseteq Procs
  BY DEF EvidenceTypes, Host, HostTypes
<1>a. ASSUME NEW t, pc' = [pc EXCEPT ![p] = t]
      PROVE  pc'[p] = t
  BY <1>0, <1>a
<1>1. CASE LoadControlledOci(p)
  BY <1>1, PhaseIsEvident DEF LoadControlledOci, Proving
<1>2. CASE BuildImages(p)
  BY <1>2, PhaseIsEvident DEF BuildImages, Proving
<1>3. CASE InstallPlatform(p)
  BY <1>3, PhaseIsEvident DEF InstallPlatform, Proving
<1>4. CASE ApplyData(p)
  BY <1>4, PhaseIsEvident DEF ApplyData, Proving
<1>5. CASE ApplyApp(p)
  BY <1>5, PhaseIsEvident DEF ApplyApp, Proving
<1>6. CASE ProveRestart(p)
  BY <1>6, PhaseIsEvident DEF ProveRestart, Proving
<1>7. CASE ProveFluxDrift(p)
  BY <1>7, PhaseIsEvident DEF ProveFluxDrift, Proving
<1>8. CASE RouteAccepted(p)
  BY <1>8, PhaseIsEvident DEF RouteAccepted, Proving
<1>9. CASE GatewayListener(p)
  BY <1>9, PhaseIsEvident DEF GatewayListener, Proving
<1>10. CASE ProveGateway(p)
  BY <1>10, PhaseIsEvident DEF ProveGateway, Proving
<1>11. CASE Preflight(p) \/ PrepareOciHost(p)
  <2>1. pc[p] \in {"proof", "oci_host"} /\ UNCHANGED <<evidence, receipts>>
    BY <1>11 DEF Preflight, PrepareOciHost, referenceVars
  <2>2. pc'[p] \in {"oci_host", "reserve", "raise"}
    BY <1>a, <1>11 DEF Preflight, PrepareOciHost, Goto
  <2>3. p \notin receipts /\ pc'[p] \notin Proving \cup {"created"}
    BY <2>1, <2>2 DEF Evident, Deleting, Ended, Terminal, Proving
  <2> QED
    BY <2>1, <2>3 DEF Evident, EvidenceTypes
<1>12. CASE WriteReceipt(p)
  <2>1. pc[p] = "receipt" /\ UNCHANGED <<cluster, arg>>
    BY <1>12 DEF WriteReceipt, hostVars
  <2>2. evidence[p] = {p} /\ p \notin receipts
    BY <2>1 DEF Evident, Proving, Deleting, Ended, Terminal
  <2>3. arg[p].cmd = "proof"
    <3>1. pc[p] # "idle"
      BY <2>1
    <3>2. arg[p] \in Args /\ Program(p)
      BY <3>1, ArgOf DEF Host
    <3> QED
      BY <2>1, <3>2 DEF Program, Args, Commands, NotHa, Proving, Upping, Creating, Requiring, Deleting, Ended, Terminal
  <2>4. pc'[p] \in {"kept", "delete"}
    BY <1>a, <1>12 DEF WriteReceipt, Finally, Goto
  <2>5. pc'[p] \notin Proving \cup {"created"} /\ pc'[p] \in {"kept"} \cup Deleting
    BY <2>4 DEF Proving, Deleting
  <2>6. CASE receipts' = receipts \cup {p} /\ evidence' = evidence
    BY <1>0, <2>1, <2>2, <2>3, <2>5, <2>6 DEF Evident, EvidenceTypes
  <2>7. CASE receipts' = receipts /\ evidence' = [evidence EXCEPT ![p] = {}]
    <3>1. evidence' \in [Procs -> SUBSET Procs] /\ evidence'[p] = {} /\ \A q \in Procs \ {p} : evidence'[q] = evidence[q]
      BY <1>0, <2>7
    <3> QED
      BY <1>0, <2>2, <2>5, <2>7, <3>1 DEF Evident, EvidenceTypes
  <2> QED
    BY <1>12, <2>6, <2>7 DEF WriteReceipt
<1>13. CASE Exit(p)
  <2>1. arg' = arg /\ UNCHANGED <<evidence, receipts>>
    BY <1>13 DEF Exit
  <2>2. pc'[p] \in {"done", "failed"}
    <3>1. pc' = [pc EXCEPT ![p] = "done"] \/ pc' = [pc EXCEPT ![p] = "failed"]
      BY <1>13 DEF Exit, End, Goto
    <3> QED
      BY <1>a, <3>1
  <2>3. pc'[p] \notin Proving \cup {"created"} /\ pc'[p] \in Ended
    BY <2>2 DEF Proving, Ended, Terminal
  <2> QED
    BY <2>1, <2>3 DEF Evident, EvidenceTypes
<1> QED
  BY <1>1, <1>2, <1>3, <1>4, <1>5, <1>6, <1>7, <1>8, <1>9, <1>10, <1>11, <1>12, <1>13 DEF ReferenceStep

\* Nobody takes a cluster from under a proof.
LEMMA ProofsKeepTheirCluster ==
  ASSUME Host, Owned, DistinctNames, SeparateSites, NEW p \in Procs, KindStep(p), NEW q \in Procs, q # p,
         OneAtATime(p, q), Evident(q), arg[q].cmd = "proof", pc[q] \in Proving \cup {"created"}
  PROVE  cluster'[Name(q)] = cluster[Name(q)]
<1> SUFFICES ASSUME cluster'[Name(q)] # cluster[Name(q)]
             PROVE  FALSE
  OBVIOUS
<1>1. pc[q] # "idle" /\ Active(q)
  BY DEF Proving, Active, Terminal
<1>2. Name(q) \in Names /\ Site(q) \in Sites /\ cluster[Name(q)] = q /\ q # NoCluster
  BY <1>1, ArgOf, NullAssumption DEF Evident
<1>3. Name(p) = Name(q) /\ Bound(p) = Bound(q)
  BY <1>2, KindChangesOwn
<1>4. KindMoves(p)
  BY KindStepMoves
<1>5. pc[p] # "idle" /\ Active(p)
  BY <1>4 DEF KindMoves, Creating, Requiring, Deleting, Active, Terminal
<1>6. Site(p) = Site(q) /\ arg[p] \in Args
  BY <1>2, <1>3, <1>5, ArgOf DEF DistinctNames, Name
<1>7. Site(q) \in ReferenceSites /\ AtItsSite(p)
  BY DEF Host, AtItsSite, Site
<1>8. ProofTool(p)
  BY <1>6, <1>7 DEF AtItsSite, SeparateSites, ProofTool, Args, Commands, Site
<1>9. arg[p].owner = arg[q].owner /\ arg[p].site = arg[q].site /\ ProofTool(q)
  BY <1>3, <1>6 DEF Bound, Site, ProofTool
<1> QED
  BY <1>1, <1>5, <1>8, <1>9 DEF OneAtATime

LEMMA KindIsEvident ==
  ASSUME Host, NEW p \in Procs, KindStep(p), Reserved(p), Evident(p), UNCHANGED <<evidence, receipts>>
  PROVE  Evident(p)'
<1>0. HostTypes /\ KindMoves(p)
  BY KindStepMoves DEF Host
<1>a. ASSUME NEW t, pc' = [pc EXCEPT ![p] = t]
      PROVE  pc'[p] = t
  BY <1>0, <1>a DEF HostTypes
<1>1. pc'[p] \notin Proving
  <2>1. PICK t \in Creating \cup Requiring \cup Deleting \cup {"raise"} : pc' = [pc EXCEPT ![p] = t]
    BY <1>0 DEF KindMoves
  <2> QED
    BY <1>a, <2>1 DEF Creating, Requiring, Deleting, Proving
<1>2. p \in receipts => pc'[p] \in Deleting \cup Ended
  <2>1. p \in receipts => pc[p] \notin Creating \cup Requiring
    BY DEF Evident, Creating, Requiring, Deleting, Ended, Terminal
  <2>2. pc[p] \in Deleting => \E t \in Deleting \cup {"raise"} : pc' = [pc EXCEPT ![p] = t]
    BY <1>0 DEF KindMoves, Creating, Requiring, Deleting
  <2>3. pc[p] \in Creating \cup Requiring \cup Deleting
    BY <1>0 DEF KindMoves
  <2> QED
    BY <1>a, <2>1, <2>2, <2>3 DEF Ended
<1>3. pc'[p] = "created" => cluster'[Name(p)] = p
  <2>1. CASE ConfigureAccess(p)
    <3>1. pc[p] = "access" /\ cluster' = cluster
      BY <2>1 DEF ConfigureAccess
    <3>2. cluster[Name(p)] \in {NoCluster, p}
      BY <3>1 DEF Reserved
    <3>3. pc'[p] = "created" => cluster[Name(p)] # NoCluster
      BY <1>a, <2>1 DEF ConfigureAccess, Goto
    <3> QED
      BY <3>1, <3>2, <3>3
  <2>2. CASE ~ConfigureAccess(p)
    <3>1. pc'[p] # "created"
      BY <1>a, <2>2 DEF KindStep, Reserve, KindCreate, Rollback, RemoveMarker, RemoveKubeconfig, TryAgain, RequireOwned,
                        ExportKubeconfig, DeleteOwned, KindDelete, Goto
    <3> QED
      BY <3>1
  <2> QED
    BY <2>1, <2>2
<1>4. Name(p)' = Name(p) /\ arg' = arg
  BY <1>0 DEF KindMoves, Name, Site
<1> QED
  BY <1>1, <1>2, <1>3, <1>4 DEF Evident

LEMMA InitProven ==
  ASSUME Init
  PROVE  Proven
<1>1. /\ pc = [p \in Procs |-> "idle"] /\ arg = [p \in Procs |-> NoArg]
      /\ evidence = [p \in Procs |-> {}] /\ receipts = {} /\ store = [r \in {"container", "volume"} |-> NoBinding]
  BY DEF Init, KindInit, ReferenceInit, HaInit
<1>2. StoreTypes /\ EvidenceTypes
  BY <1>1 DEF StoreTypes, EvidenceTypes, Labels
<1>3. ASSUME NEW p \in Procs
      PROVE  Inspected(p) /\ Evident(p) /\ ~HaTool(p) /\ ~ProofTool(p)
  BY <1>1 DEF Inspected, Evident, Proving, HaTool, ProofTool, NoArg
<1> QED
  BY <1>2, <1>3 DEF Proven, OneAtATime

LEMMA OwnKeepsProven ==
  ASSUME Host, Proven, NEW p \in Procs, OwnStep(p), pc[p] = "idle" \/ arg[p].cmd # "proof",
         UNCHANGED <<evidence, receipts>>, store' = store, pc'[p] \notin Proving \cup {"created"} \cup Removing,
         \A q, r \in Procs : OneAtATime(q, r)'
  PROVE  Proven'
<1>1. EvidenceTypes' /\ \A q \in Procs : Evident(q)'
  BY OtherToolsKeepEvidence DEF Proven
<1>2. StoreTypes' /\ \A q \in Procs : Inspected(q)'
  <2>1. \A q \in Procs \ {p} : pc'[q] = pc[q] /\ arg'[q] = arg[q]
    BY DEF OwnStep
  <2> QED
    BY <2>1, QuietStore DEF Proven
<1> QED
  BY <1>1, <1>2 DEF Proven

LEMMA StartKeepsProven ==
  ASSUME Host, Proven, NEW p \in Procs, StartTool(p)
  PROVE  Proven'
<1>1. OwnStep(p) /\ \A q, r \in Procs : OneAtATime(q, r)'
  BY StartIsOwn, StartTakesTurns DEF Proven
<1>2. pc[p] = "idle" /\ UNCHANGED <<evidence, receipts>> /\ store' = store
  BY DEF StartTool, StartProof, StartDown, StartStaging, StartHa, Start, referenceVars, haVars
<1>3. \E t \in {"proof", "delete_if_present", "up", "staging_down", "status", "ha", "ha_finally"} : pc' = [pc EXCEPT ![p] = t]
  BY DEF StartTool, StartProof, StartDown, StartStaging, StartHa, Start, Goto
<1>4. pc'[p] \notin Proving \cup {"created"} \cup Removing
  BY <1>3 DEF Proving, Removing, Host, HostTypes
<1> QED
  BY <1>1, <1>2, <1>4, OwnKeepsProven

LEMMA ReferenceKeepsProven ==
  ASSUME Host, Proven, NEW p \in Procs, ReferenceStep(p), store' = store
  PROVE  Proven'
<1>1. ReferenceMoves(p) /\ OwnStep(p)
  BY ReferenceStepMoves, ReferenceIsOwn
<1>2. pc[p] # "idle" /\ pc'[p] \notin Removing
  BY <1>1 DEF ReferenceMoves, Proving, Removing, Host, HostTypes
<1>3. \A q, r \in Procs : OneAtATime(q, r)'
  BY <1>1, <1>2, OwnFollows, FollowersTakeTurns DEF Proven
<1>4. \A q \in Procs \ {p} : pc'[q] = pc[q] /\ arg'[q] = arg[q]
  BY <1>1 DEF OwnStep
<1>5. StoreTypes' /\ \A q \in Procs : Inspected(q)'
  BY <1>2, <1>4, QuietStore DEF Proven
<1>6. EvidenceTypes' /\ Evident(p)' /\ \A q \in Procs \ {p} : evidence'[q] = evidence[q] /\ (q \in receipts' <=> q \in receipts)
  BY ReferenceIsEvident DEF Proven
<1>7. \A q \in Procs \ {p} : Evident(q)'
  <2>1. cluster' = cluster /\ \A q \in Procs : Evident(q)
    BY <1>1 DEF OwnStep, Proven
  <2> QED
    BY <1>4, <1>6, <2>1, OthersStayEvident
<1> QED
  BY <1>3, <1>5, <1>6, <1>7 DEF Proven

LEMMA StagingKeepsProven ==
  ASSUME Host, Proven, NEW p \in Procs, StagingStep(p), UNCHANGED <<evidence, receipts>>, store' = store
  PROVE  Proven'
<1>1. (UpMoves(p) \/ DownMoves(p) \/ StatusMoves(p)) /\ OwnStep(p)
  BY StagingStepMoves, StagingIsOwn
<1>2. pc[p] # "idle" /\ arg[p].cmd # "proof"
  BY <1>1 DEF UpMoves, DownMoves, StatusMoves, StagingUp, Upping
<1>3. \E t \in Upping \cup {"require_owned", "reserve", "done", "failed", "delete_if_present", "down_check"} : pc' = [pc EXCEPT ![p] = t]
  BY <1>1 DEF UpMoves, DownMoves, StatusMoves
<1>4. pc'[p] \notin Proving \cup {"created"} \cup Removing
  BY <1>3 DEF Proving, Upping, Removing, Host, HostTypes
<1>5. \A q, r \in Procs : OneAtATime(q, r)'
  BY <1>1, <1>2, OwnFollows, FollowersTakeTurns DEF Proven
<1> QED
  BY <1>1, <1>2, <1>4, <1>5, OwnKeepsProven

LEMMA HaKeepsProven ==
  ASSUME Host, Proven, NEW p \in Procs, HaToolStep(p), UNCHANGED <<evidence, receipts>>
  PROVE  Proven'
<1>1. HaMoves(p) /\ OwnStep(p)
  BY HaToolStepMoves, HaIsOwn
<1>2. arg[p].cmd # "proof" /\ pc[p] # "idle"
  BY <1>1 DEF HaMoves, HaTool, NotHa
<1>3. pc'[p] \notin Proving \cup {"created"}
  BY <1>1 DEF HaMoves, NotHa, Host, HostTypes
<1>4. \A q, r \in Procs : OneAtATime(q, r)'
  BY <1>1, <1>2, OwnFollows, FollowersTakeTurns DEF Proven
<1>5. EvidenceTypes' /\ \A q \in Procs : Evident(q)'
  BY <1>1, <1>2, <1>3, OtherToolsKeepEvidence DEF Proven
<1>6. StoreTypes' /\ \A q \in Procs : Inspected(q)'
  BY <1>1, HaKeepsStore DEF Proven
<1> QED
  BY <1>4, <1>5, <1>6 DEF Proven

LEMMA KindKeepsProven ==
  ASSUME Host, Owned, Proven, DistinctNames, SeparateSites, NEW p \in Procs, KindStep(p),
         UNCHANGED <<evidence, receipts>>, store' = store
  PROVE  Proven'
<1>1. KindMoves(p) /\ Reserved(p)
  BY KindStepMoves DEF Owned
<1>2. \A q, r \in Procs : OneAtATime(q, r)'
  BY <1>1, KindFollows, FollowersTakeTurns DEF Proven
<1>3. arg' = arg /\ \A q \in Procs \ {p} : pc'[q] = pc[q]
  BY <1>1 DEF KindMoves, Host, HostTypes
<1>4. pc'[p] \notin Removing
  BY <1>1 DEF KindMoves, Host, HostTypes, Creating, Requiring, Deleting, Removing
<1>5. StoreTypes' /\ \A q \in Procs : Inspected(q)'
  BY <1>3, <1>4, QuietStore DEF Proven
<1>6. Evident(p)'
  BY <1>1, KindIsEvident DEF Proven
<1>7. \A q \in Procs \ {p} : Evident(q)'
  <2>1. ASSUME NEW q \in Procs \ {p}, arg[q].cmd = "proof", pc[q] \in Proving \cup {"created"}
        PROVE  cluster'[Name(q)] = cluster[Name(q)]
    <3>1. OneAtATime(p, q) /\ Evident(q) /\ q \in Procs /\ q # p
      BY DEF Proven
    <3> QED
      BY <2>1, <3>1, ProofsKeepTheirCluster
  <2>2. \A q \in Procs : Evident(q)
    BY DEF Proven
  <2> QED
    BY <1>3, <2>1, <2>2, OthersStayEvident
<1> QED
  BY <1>2, <1>5, <1>6, <1>7 DEF Proven, EvidenceTypes

LEMMA CrashKeepsProven ==
  ASSUME Host, Proven, NEW p \in Procs, Crash(p)
  PROVE  Proven'
<1>1. /\ UNCHANGED <<cluster, arg, store, receipts>> /\ pc'[p] = "crashed"
      /\ \A q \in Procs \ {p} : pc'[q] = pc[q]
  BY CrashOf
<1>2. \A q, r \in Procs : OneAtATime(q, r)'
  BY CrashFollows, FollowersTakeTurns DEF Proven
<1>3. StoreTypes' /\ \A q \in Procs : Inspected(q)'
  BY <1>1, QuietStore DEF Proven, Removing
<1>4. /\ evidence' \in [Procs -> SUBSET Procs] /\ evidence'[p] = IF p \in receipts THEN evidence[p] ELSE {}
      /\ \A q \in Procs \ {p} : evidence'[q] = evidence[q]
  <2>1. evidence \in [Procs -> SUBSET Procs]
    BY DEF Proven, EvidenceTypes
  <2>2. evidence' = [evidence EXCEPT ![p] = IF p \in receipts THEN evidence[p] ELSE {}]
    BY DEF Crash
  <2> QED
    BY <2>1, <2>2
<1>5. Evident(p)'
  <2>1. Evident(p) /\ "crashed" \in Ended /\ "crashed" \notin Proving \cup {"created"}
    BY DEF Proven, Ended, Terminal, Proving
  <2> QED
    BY <1>1, <1>4, <2>1 DEF Evident
<1>6. \A q \in Procs \ {p} : Evident(q)'
  <2>1. \A q \in Procs : Evident(q)
    BY DEF Proven
  <2> QED
    BY <1>1, <1>4, <2>1, OthersStayEvident
<1> QED
  BY <1>1, <1>2, <1>3, <1>4, <1>5, <1>6 DEF Proven, EvidenceTypes

LEMMA UnchangedKeepsProven ==
  ASSUME Proven, UNCHANGED <<cluster, pc, arg, store, evidence, receipts>>
  PROVE  Proven'
<1>1. StoreTypes' /\ EvidenceTypes'
  BY DEF Proven, StoreTypes, EvidenceTypes
<1>2. ASSUME NEW p \in Procs, NEW q \in Procs
      PROVE  OneAtATime(p, q)'
  BY DEF Proven, OneAtATime, Active, HaTool, ProofTool
<1>3. ASSUME NEW p \in Procs
      PROVE  Inspected(p)' /\ Evident(p)'
  BY DEF Proven, Inspected, Evident, Bound, Name, Site
<1> QED
  BY <1>1, <1>2, <1>3 DEF Proven

LEMMA NextProven ==
  ASSUME Host, Owned, Proven, DistinctNames, SeparateSites, [Next]_platformVars
  PROVE  Proven'
<1>1. ASSUME NEW p \in Procs, ToolStep(p)
      PROVE  Proven'
  <2>1. CASE KindStep(p) /\ UNCHANGED <<referenceVars, stagingVars, haVars>>
    BY <2>1, KindKeepsProven DEF referenceVars, haVars
  <2>2. CASE ReferenceStep(p) /\ UNCHANGED <<stagingVars, haVars>>
    BY <2>2, ReferenceKeepsProven DEF haVars
  <2>3. CASE StagingStep(p) /\ UNCHANGED <<referenceVars, haVars>>
    BY <2>3, StagingKeepsProven DEF referenceVars, haVars
  <2>4. CASE HaToolStep(p) /\ UNCHANGED <<referenceVars, stagingVars>>
    BY <2>4, HaKeepsProven DEF referenceVars
  <2> QED
    BY <1>1, <2>1, <2>2, <2>3, <2>4 DEF ToolStep
<1>2. CASE Environment
  BY <1>2, EnvironmentOf, UnchangedKeepsProven
<1>3. CASE UNCHANGED platformVars
  <2>1. UNCHANGED <<cluster, pc, arg, store, evidence, receipts>>
    BY <1>3 DEF platformVars, kindVars, hostVars, procVars, referenceVars, haVars
  <2> QED
    BY <2>1, UnchangedKeepsProven
<1> QED
  BY <1>1, <1>2, <1>3, StartKeepsProven, CrashKeepsProven DEF Next

-----------------------------------------------------------------------------
(* Clusters are owned: a cluster that exists carries the marker of its      *)
(* creator's binding at a site of its name, whatever was created, rolled    *)
(* back, deleted or killed before, and the evidence of a passing receipt is *)
(* of the cluster its own invocation made.                                  *)
THEOREM HostClustersAreOwned ==
  ASSUME DistinctNames, SeparateSites
  PROVE  Spec => []ClustersAreOwned
<1>1. Init => Host /\ Owned /\ Proven
  BY InitHost, InitOwned, InitProven
<1>2. Host /\ Owned /\ Proven /\ [Next]_platformVars => Host' /\ Owned' /\ Proven'
  BY NextHost, NextOwned, NextProven
<1>3. Host /\ Owned /\ Proven => ClustersAreOwned
  <2> SUFFICES ASSUME Host, Owned, Proven
               PROVE  ClustersAreOwned
    OBVIOUS
  <2>1. ClusterIsMarked
    BY DEF ClusterIsMarked, Owned, Marked, Names
  <2>2. EvidenceIsOwn
    BY DEF EvidenceIsOwn, Proven, EvidenceTypes, Evident
  <2> QED
    BY <2>1, <2>2 DEF ClustersAreOwned
<1> QED
  BY <1>1, <1>2, <1>3, PTL DEF Spec

\* A step that takes away a cluster or a part of the object store.
LEMMA NobodyDeletesForeign ==
  ASSUME Host, Owned, Proven, [Next]_platformVars
  PROVE  /\ \A n \in Names : cluster[n] # NoCluster /\ cluster'[n] = NoCluster =>
               \E p \in Procs : pc'[p] # pc[p] /\ Name(p) = n /\ Bound(p) = Bound(cluster[n])
         /\ \A r \in DOMAIN store : store[r] # NoBinding /\ store'[r] # store[r] =>
               \E p \in Procs : pc'[p] # pc[p] /\ Bound(p) = store[r]
<1>1. ASSUME NEW n \in Names, cluster[n] # NoCluster, cluster'[n] = NoCluster
      PROVE  \E p \in Procs : pc'[p] # pc[p] /\ Name(p) = n /\ Bound(p) = Bound(cluster[n])
  <2>1. cluster' # cluster
    BY <1>1
  <2>2. Next
    BY <2>1 DEF platformVars, kindVars, hostVars
  <2>3. PICK p \in Procs : KindStep(p)
    BY <2>1, <2>2, StepsOfHost, CrashOf, EnvironmentOf DEF OwnStep
  <2> QED
    BY <1>1, <2>3, KindChangesOwn
<1>2. ASSUME NEW r \in DOMAIN store, store[r] # NoBinding, store'[r] # store[r]
      PROVE  \E p \in Procs : pc'[p] # pc[p] /\ Bound(p) = store[r]
  <2>1. store' # store
    BY <1>2
  <2>2. Next
    BY <2>1 DEF platformVars, haVars
  <2>3. PICK p \in Procs : HaToolStep(p)
    <3>1. ~Environment /\ \A p \in Procs : ~Crash(p)
      BY <2>1, EnvironmentOf, CrashOf
    <3>2. \A p \in Procs : ~StartTool(p)
      BY <2>1 DEF StartTool, StartHa, haVars
    <3>3. \E p \in Procs : ToolStep(p)
      BY <2>2, <3>1, <3>2 DEF Next
    <3> QED
      BY <2>1, <3>3 DEF ToolStep, haVars
  <2>4. HaMoves(p)
    BY <2>3, HaToolStepMoves
  <2> QED
    BY <1>2, <2>4, HaKeepsStore DEF Proven
<1> QED
  BY <1>1, <1>2

(* Nothing foreign is deleted: a step that removes a cluster, or the        *)
(* container or the volume of the object store, is a step of an invocation  *)
(* with the binding of its creator.                                         *)
THEOREM HostNoForeignDelete ==
  ASSUME DistinctNames, SeparateSites
  PROVE  Spec => NoForeignDelete
<1>1. Init => Host /\ Owned /\ Proven
  BY InitHost, InitOwned, InitProven
<1>2. Host /\ Owned /\ Proven /\ [Next]_platformVars => Host' /\ Owned' /\ Proven'
  BY NextHost, NextOwned, NextProven
<1>3. Host /\ Owned /\ Proven /\ [Next]_platformVars =>
        [/\ \A n \in Names : cluster[n] # NoCluster /\ cluster'[n] = NoCluster =>
              \E p \in Procs : /\ pc'[p] # pc[p]
                               /\ Name(p) = n
                               /\ Bound(p) = Bound(cluster[n])
         /\ \A r \in DOMAIN store : store[r] # NoBinding /\ store'[r] # store[r] =>
              \E p \in Procs : pc'[p] # pc[p] /\ Bound(p) = store[r]]_platformVars
  BY NobodyDeletesForeign
<1> QED
  BY <1>1, <1>2, <1>3, PTL DEF Spec, NoForeignDelete

-----------------------------------------------------------------------------
(* Celled: one credential in the staging cell *)

\* Without the lifecycle lock an invocation is in none of its steps.
LEMMA OutsideTheLock ==
  ASSUME Host, NEW q \in Procs, LifecycleHeld(q), lifecycle # q
  PROVE  /\ pc[q] \notin Upping /\ ~(arg[q].cmd = "up" /\ pc[q] \in Creating \cup Requiring)
         /\ arg[q].cmd = "up" => pc[q] \in {"up"} \cup Terminal
         /\ arg[q].cmd = "staging_down" => pc[q] \in {"staging_down"} \cup Terminal
<1>1. (Upping \cup Creating \cup Requiring) \cap ({"up"} \cup Terminal) = {}
  BY DEF Upping, Creating, Requiring, Terminal
<1>2. pc[q] \in Upping => arg[q].cmd = "up"
  BY CommandOf DEF StagingUp
<1> QED
  BY <1>1, <1>2 DEF LifecycleHeld

LEMMA OthersHold ==
  ASSUME Host, NEW p \in Procs, \A q \in Procs : Holds(q),
         \A q \in Procs \ {p} : pc'[q] = pc[q] /\ arg'[q] = arg[q] /\ report'[q] = report[q] /\ existing'[q] = existing[q],
         \/ UNCHANGED <<lifecycle, cell>> /\ inside'[StagingName].secret = inside[StagingName].secret
         \/ lifecycle \in {p, NoProc}
  PROVE  \A q \in Procs \ {p} : Holds(q)'
<1> SUFFICES ASSUME NEW q \in Procs, q # p
             PROVE  Holds(q)'
  OBVIOUS
<1>1. /\ LifecycleHeld(q) /\ Bootstrapped(q) /\ (report[q] # "none" => arg[q].cmd = "status")
      /\ pc'[q] = pc[q] /\ arg'[q] = arg[q] /\ report'[q] = report[q] /\ existing'[q] = existing[q]
  BY DEF Holds
<1>2. CASE UNCHANGED <<lifecycle, cell>> /\ inside'[StagingName].secret = inside[StagingName].secret
  <2>1. LifecycleHeld(q)'
    BY <1>1, <1>2 DEF LifecycleHeld
  <2>2. Bootstrapped(q)'
    BY <1>1, <1>2 DEF Bootstrapped, StagingName
  <2> QED
    BY <1>1, <2>1, <2>2 DEF Holds
<1>3. CASE lifecycle \in {p, NoProc}
  <2>1. lifecycle # q
    BY <1>3, NullAssumption
  <2>2. /\ pc[q] \notin Upping /\ ~(arg[q].cmd = "up" /\ pc[q] \in Creating \cup Requiring)
        /\ arg[q].cmd = "up" => pc[q] \in {"up"} \cup Terminal
        /\ arg[q].cmd = "staging_down" => pc[q] \in {"staging_down"} \cup Terminal
    BY <1>1, <2>1, OutsideTheLock
  <2>3. LifecycleHeld(q)'
    BY <1>1, <2>2 DEF LifecycleHeld
  <2>4. Bootstrapped(q)'
    BY <1>1, <2>2 DEF Bootstrapped, Upping
  <2> QED
    BY <1>1, <2>3, <2>4 DEF Holds
<1> QED
  BY <1>2, <1>3

\* A step that leaves the cell alone.
QuietCell ==
    /\ cluster'[StagingName] = cluster[StagingName]
    /\ inside'[StagingName].secret = inside[StagingName].secret
    /\ inside'[StagingName].current = inside[StagingName].current
    /\ UNCHANGED <<cell, secret, pgdata>>

LEMMA QuietCredentials ==
  ASSUME Credentials, QuietCell
  PROVE  Credentials'
BY DEF Credentials, QuietCell, OneCredential, Same, Nothing, Initialised, StagingName

LEMMA QuietKeepsCelled ==
  ASSUME Host, Celled, NEW p \in Procs, QuietCell, UNCHANGED <<lifecycle, report, existing>>, Holds(p)',
         \A q \in Procs \ {p} : pc'[q] = pc[q] /\ arg'[q] = arg[q]
  PROVE  Celled'
<1>1. Credentials'
  BY QuietCredentials DEF Celled
<1>2. \A q \in Procs \ {p} : Holds(q)'
  <2>1. UNCHANGED <<lifecycle, cell>> /\ inside'[StagingName].secret = inside[StagingName].secret /\ \A q \in Procs : Holds(q)
    BY DEF QuietCell, Celled
  <2> QED
    BY <2>1, OthersHold
<1> QED
  BY <1>1, <1>2 DEF Celled

\* Outside the steps of up and down an invocation need not hold anything.
LEMMA Elsewhere ==
  ASSUME NEW p \in Procs, arg'[p].cmd \notin {"up", "staging_down"}
                          \/ pc'[p] \in {"up", "staging_down", "status"} \cup Terminal,
         arg'[p].cmd = "up" => pc'[p] # "staging_down",
         arg'[p].cmd = "staging_down" => pc'[p] # "up",
         pc'[p] \notin Upping, report'[p] # "none" => arg'[p].cmd = "status",
         arg'[p].cmd \in {"up", "staging_down"} => pc'[p] # "status"
  PROVE  Holds(p)'
<1>1. {"up", "staging_down", "status"} \cup Terminal \subseteq Terminal \cup {"up", "staging_down", "status"}
      /\ ({"up", "staging_down", "status"} \cup Terminal) \cap (Creating \cup Requiring \cup Upping) = {}
  BY DEF Terminal, Creating, Requiring, Upping
<1>2. LifecycleHeld(p)'
  BY DEF LifecycleHeld, Terminal
<1>3. Bootstrapped(p)'
  BY <1>1 DEF Bootstrapped, Upping
<1> QED
  BY <1>2, <1>3 DEF Holds

LEMMA StagingNameOf ==
  ASSUME Host
  PROVE  StagingName \in Names /\ \A p \in Procs : arg[p].cmd \in {"up", "staging_down", "status"} => Name(p) = StagingName
BY StagingAssumption DEF StagingName, Names, Host, AtItsSite, Name, Site

\* Without a command there is no report.
LEMMA IdleIsBlank ==
  ASSUME Host, NEW p \in Procs, pc[p] = "idle"
  PROVE  arg[p].cmd = "none"
<1>1. arg[p] \in Args \cup {NoArg} /\ Program(p)
  BY DEF Host, HostTypes
<1>2. pc[p] \in NotHa /\ pc[p] \notin {"proof", "oci_host", "kept", "up", "staging_down", "down_check", "status"}
         \cup Upping \cup Creating \cup Requiring \cup Proving \cup Deleting \cup Ended
  BY DEF NotHa, Upping, Creating, Requiring, Proving, Deleting, Ended, Terminal
<1>3. arg[p] \in Args => arg[p].cmd \in Commands
  BY DEF Args
<1>4. arg[p] \notin Args
  BY <1>1, <1>2, <1>3 DEF Program, Commands
<1> QED
  BY <1>1, <1>4 DEF NoArg

LEMMA InitCelled ==
  ASSUME Init
  PROVE  Celled
<1>1. /\ pc = [p \in Procs |-> "idle"] /\ arg = [p \in Procs |-> NoArg]
      /\ inside = [n \in Names |-> Empty] /\ cell = NoCell /\ secret = 0 /\ pgdata = 0
      /\ existing = [p \in Procs |-> FALSE] /\ report = [p \in Procs |-> "none"]
  BY DEF Init, KindInit, StagingInit
<1>2. StagingName \in Names
  BY StagingAssumption DEF StagingName, Names
<1>3. inside[StagingName].secret = 0 /\ inside[StagingName].current = FALSE /\ cell.secret = 0
  BY <1>1, <1>2 DEF Empty, NoCell
<1>4. Credentials
  BY <1>1, <1>3 DEF Credentials, OneCredential, Same, Nothing, Initialised
<1>5. ASSUME NEW p \in Procs
      PROVE  Holds(p)
  <2>1. arg[p].cmd = "none" /\ pc[p] = "idle" /\ report[p] = "none"
    BY <1>1 DEF NoArg
  <2> QED
    BY <2>1 DEF Holds, LifecycleHeld, Bootstrapped
<1> QED
  BY <1>1, <1>4, <1>5 DEF Celled

LEMMA PhasesAreQuiet ==
  ASSUME Host, OnlyPhases, cluster' = cluster, UNCHANGED <<cell, secret, pgdata>>
  PROVE  QuietCell
<1>1. HostTypes
  BY DEF Host
<1> QED
  BY <1>1, PhasesKeepContents, StagingNameOf DEF QuietCell

LEMMA StartKeepsCelled ==
  ASSUME Host, Celled, NEW p \in Procs, StartTool(p)
  PROVE  Celled'
<1>1. OwnStep(p) /\ inside' = inside /\ UNCHANGED stagingVars
  BY StartIsOwn DEF StartTool, StartStaging
<1>2. QuietCell
  BY <1>1 DEF QuietCell, OwnStep, stagingVars
<1>3. \E cmd \in Commands, t \in {"proof", "delete_if_present", "up", "staging_down", "status", "ha", "ha_finally"} :
        \E s, o, c :
          /\ Start(p, cmd, t, s, o, c)
          /\ cmd \in {"up", "staging_down"} => t = cmd
  BY DEF StartTool, StartProof, StartDown, StartStaging, StartHa, Commands
<1>a. PICK cmd \in Commands, t \in {"proof", "delete_if_present", "up", "staging_down", "status", "ha", "ha_finally"} :
        \E s, o, c :
          /\ Start(p, cmd, t, s, o, c)
          /\ cmd \in {"up", "staging_down"} => t = cmd
  BY <1>3
<1>4. PICK s, o, c :
        /\ Start(p, cmd, t, s, o, c)
        /\ cmd \in {"up", "staging_down"} => t = cmd
  BY <1>a
<1>5. pc[p] = "idle" /\ pc'[p] = t /\ arg'[p] = [cmd |-> cmd, site |-> s, owner |-> o, commit |-> c]
  BY <1>4 DEF Start, Goto, Host, HostTypes
<1>6. arg'[p].cmd = cmd /\ t \notin Upping
  BY <1>5 DEF Upping
<1>7. report'[p] = "none"
  BY <1>1, <1>5, IdleIsBlank DEF Celled, Holds, stagingVars
<1>8. Holds(p)'
  BY <1>4, <1>5, <1>6, <1>7, Elsewhere
<1> QED
  BY <1>1, <1>2, <1>8, QuietKeepsCelled DEF OwnStep, stagingVars

\* The steps of the proofs.
LEMMA ToolsKeepCelled ==
  ASSUME Host, Celled, NEW p \in Procs, OwnStep(p), OnlyPhases, UNCHANGED stagingVars,
         HaTool(p) \/ ProofTool(p), pc'[p] \notin Upping
  PROVE  Celled'
<1>1. cluster' = cluster /\ UNCHANGED <<cell, secret, pgdata, lifecycle, report, existing>>
  BY DEF OwnStep, stagingVars
<1>2. pc[p] # "idle"
  BY ToolsAreBusy DEF Fresh
<1>3. arg'[p].cmd = arg[p].cmd /\ arg[p].cmd \notin {"up", "staging_down", "status"}
  BY <1>2 DEF OwnStep, HaTool, ProofTool
<1>4. report'[p] = "none"
  BY <1>1, <1>3 DEF Celled, Holds
<1>5. Holds(p)'
  BY <1>3, <1>4, Elsewhere
<1> QED
  BY <1>1, <1>5, PhasesAreQuiet, QuietKeepsCelled DEF OwnStep

LEMMA CrashKeepsCelled ==
  ASSUME Host, Celled, NEW p \in Procs, Crash(p)
  PROVE  Celled'
<1>1. /\ UNCHANGED <<cluster, inside, arg, cell, secret, pgdata, report>> /\ pc'[p] = "crashed"
      /\ \A q \in Procs \ {p} : pc'[q] = pc[q]
  BY CrashOf DEF cellVars
<1>2. lifecycle' = lifecycle \/ lifecycle = p
  BY DEF Crash
<1>3. DOMAIN existing' = Procs /\ \A q \in Procs \ {p} : existing'[q] = existing[q]
  BY DEF Crash, Celled
<1>4. Credentials'
  BY <1>1, QuietCredentials DEF Celled, QuietCell
<1>5. Holds(p)'
  <2>1. "crashed" \in Terminal /\ "crashed" \notin Upping \cup {"up", "staging_down", "status"}
    BY DEF Terminal, Upping
  <2>2. report'[p] # "none" => arg'[p].cmd = "status"
    BY <1>1 DEF Celled, Holds
  <2> QED
    BY <1>1, <2>1, <2>2, Elsewhere
<1>6. \A q \in Procs : Holds(q)
  BY DEF Celled
<1>7. \A q \in Procs \ {p} : Holds(q)'
  BY <1>1, <1>2, <1>3, <1>6, OthersHold
<1> QED
  BY <1>3, <1>4, <1>5, <1>7 DEF Celled

LEMMA EnvironmentKeepsCelled ==
  ASSUME Host, Celled, Environment
  PROVE  Celled'
<1>0. StagingName \in Names /\ HostTypes /\ CellTypes
  BY StagingNameOf DEF Host
<1>1. /\ UNCHANGED <<cluster, pc, arg, report, lifecycle>> /\ DOMAIN existing = Procs
      /\ inside'[StagingName].secret = inside[StagingName].secret
      /\ OneCredential /\ Nothing /\ Initialised /\ \A q \in Procs : Holds(q)
  BY <1>0, EnvironmentOf DEF Celled, Credentials
<1>2. existing' = existing
  BY DEF Environment, FluxReconciles, LoseSecret, LoseReceipt, WalArchived, stagingVars
<1>3. CASE \E n \in Names : FluxReconciles(n)
  <2>1. /\ UNCHANGED <<cell, secret>> /\ inside[StagingName].secret # 0
        /\ pgdata' = IF pgdata = 0 THEN inside[StagingName].secret ELSE pgdata
    BY <1>3 DEF FluxReconciles, StagingName
  <2>2. Credentials'
    BY <1>0, <1>1, <2>1 DEF Credentials, OneCredential, Same, Nothing, Initialised, StagingName
  <2>3. ASSUME NEW q \in Procs
        PROVE  Holds(q)'
    BY <1>1, <1>2, <2>1 DEF Holds, LifecycleHeld, Bootstrapped, StagingName
  <2> QED
    BY <1>1, <1>2, <2>2, <2>3 DEF Celled
<1>4. CASE LoseSecret \/ LoseReceipt
  <2>1. /\ lifecycle = NoProc /\ UNCHANGED <<inside, pgdata>>
        /\ (cell' = cell \/ cell' = NoCell) /\ (secret' = secret \/ secret' = 0)
    BY <1>4 DEF LoseSecret, LoseReceipt, kindVars, hostVars
  <2>2. cell'.secret = cell.secret \/ cell'.secret = 0
    BY <2>1 DEF NoCell
  <2>3. Credentials'
    BY <1>1, <2>1, <2>2 DEF Credentials, OneCredential, Same, Nothing, Initialised, StagingName
  <2>4. ASSUME NEW q \in Procs
        PROVE  Holds(q)'
    <3>1. LifecycleHeld(q) /\ lifecycle # q /\ (report[q] # "none" => arg[q].cmd = "status")
      BY <1>1, <2>1, NullAssumption DEF Holds
    <3>2. /\ pc[q] \notin Upping /\ ~(arg[q].cmd = "up" /\ pc[q] \in Creating \cup Requiring)
      BY <3>1, OutsideTheLock
    <3>3. LifecycleHeld(q)'
      BY <1>1, <3>1 DEF LifecycleHeld
    <3>4. Bootstrapped(q)'
      BY <1>1, <3>2 DEF Bootstrapped, Upping
    <3> QED
      BY <1>1, <3>1, <3>3, <3>4 DEF Holds
  <2> QED
    BY <1>1, <1>2, <2>3, <2>4 DEF Celled
<1>5. CASE WalArchived /\ UNCHANGED <<referenceVars, stagingVars>>
  <2>1. UNCHANGED <<inside, cell, secret, pgdata>>
    BY <1>5 DEF WalArchived, kindVars, hostVars, stagingVars
  <2>2. Credentials'
    BY <1>1, <2>1, QuietCredentials DEF QuietCell, Credentials
  <2>3. ASSUME NEW q \in Procs
        PROVE  Holds(q)'
    BY <1>1, <1>2, <2>1 DEF Holds, LifecycleHeld, Bootstrapped, StagingName
  <2> QED
    BY <1>1, <1>2, <2>2, <2>3 DEF Celled
<1> QED
  BY <1>3, <1>4, <1>5 DEF Environment

\* The steps of KindCluster: only up and down reach the cell's cluster.
LEMMA KindKeepsCelled ==
  ASSUME Host, Celled, DistinctNames, SeparateSites, NEW p \in Procs, KindStep(p), UNCHANGED stagingVars
  PROVE  Celled'
<1>0. HostTypes /\ KindMoves(p) /\ StagingName \in Names /\ Holds(p) /\ Program(p) /\ AtItsSite(p)
  BY KindStepMoves, StagingNameOf DEF Host, Celled
<1>1. pc[p] \in (Creating \cup Requiring \cup Deleting) \ {"created", "owned", "deleted", "absent"}
  BY <1>0 DEF KindMoves, Creating, Requiring, Deleting
<1>2. pc[p] \notin {"idle", "up", "staging_down", "status"} \cup Terminal \cup Upping
  BY <1>1 DEF Creating, Requiring, Deleting, Terminal, Upping
<1>3. arg[p] \in Args /\ arg[p].cmd \in Commands /\ Site(p) \in Sites /\ Name(p) \in Names
  BY <1>2, ArgOf DEF Args
<1>4. /\ arg' = arg /\ \A q \in Procs \ {p} : pc'[q] = pc[q]
      /\ UNCHANGED <<cell, secret, pgdata, lifecycle, report, existing>>
  BY <1>0 DEF KindMoves, HostTypes, stagingVars
<1>5. pc'[p] \notin Upping /\ (pc'[p] \in Creating \cup Requiring => pc[p] \in Creating \cup Requiring)
  <2>1. PICK t : /\ pc' = [pc EXCEPT ![p] = t]
                 /\ \/ pc[p] \in Creating /\ t \in Creating \cup {"raise"}
                    \/ pc[p] \in Requiring /\ t \in Requiring \cup {"raise"}
                    \/ pc[p] \in Deleting /\ t \in Deleting \cup {"raise"}
    BY <1>0 DEF KindMoves
  <2>2. pc'[p] = t
    BY <1>0, <2>1 DEF HostTypes
  <2> QED
    BY <2>1, <2>2 DEF Upping, Creating, Requiring, Deleting
<1>6. Holds(p)'
  <2>1. LifecycleHeld(p)'
    BY <1>0, <1>2, <1>4 DEF Holds, LifecycleHeld
  <2>2. Bootstrapped(p)'
    BY <1>0, <1>4, <1>5 DEF Holds, Bootstrapped, Upping
  <2> QED
    BY <1>0, <1>4, <2>1, <2>2 DEF Holds
<1>7. UNCHANGED <<cluster, inside>> \/ inside' = [inside EXCEPT ![Name(p)] = Empty]
  BY DEF KindStep, Reserve, KindCreate, ConfigureAccess, Rollback, RemoveMarker, RemoveKubeconfig, TryAgain, RequireOwned,
         ExportKubeconfig, DeleteOwned, KindDelete, hostVars
<1>8. CASE QuietCell
  BY <1>4, <1>6, <1>8, QuietKeepsCelled
<1>9. CASE ~QuietCell
  <2>1. inside' = [inside EXCEPT ![Name(p)] = Empty]
    BY <1>4, <1>7, <1>9 DEF QuietCell
  <2>2. Name(p) = StagingName
    <3>1. CASE Name(p) # StagingName
      <4>1. inside'[StagingName] = inside[StagingName] /\ cluster'[StagingName] = cluster[StagingName]
        BY <1>0, <2>1, <3>1 DEF HostTypes, KindMoves
      <4> QED
        BY <1>4, <1>9, <4>1 DEF QuietCell
    <3> QED
      BY <3>1
  <2>3. Site(p) = StagingSite
    BY <1>3, <2>2, StagingAssumption DEF DistinctNames, StagingName, Name
  <2>4. arg[p].cmd \in {"up", "staging_down", "status"}
    BY <1>0, <1>3, <2>3 DEF AtItsSite, SeparateSites, Commands, Site
  <2>5. pc[p] \notin Requiring
    <3>1. pc[p] \in Requiring => RequireOwned(p) \/ ExportKubeconfig(p)
      BY DEF Requiring, KindStep, Reserve, KindCreate, ConfigureAccess, Rollback, RemoveMarker, RemoveKubeconfig, TryAgain,
             DeleteOwned, KindDelete
    <3>2. RequireOwned(p) \/ ExportKubeconfig(p) => UNCHANGED <<cluster, inside>>
      BY DEF RequireOwned, ExportKubeconfig, hostVars
    <3> QED
      BY <1>4, <1>9, <3>1, <3>2 DEF QuietCell
  <2>6. arg[p].cmd # "status"
    BY <1>0, <1>1, <2>5 DEF Program, Creating, Requiring, Deleting, Ended, Terminal
  <2>7. lifecycle = p
    BY <1>0, <1>2, <2>4, <2>6 DEF Holds, LifecycleHeld
  <2>8. inside'[StagingName] = Empty
    BY <1>0, <2>1, <2>2 DEF HostTypes
  <2>9. inside'[StagingName].secret = 0 /\ inside'[StagingName].current = FALSE
    BY <2>8 DEF Empty
  <2>10. Credentials'
    BY <1>4, <2>9 DEF Celled, Credentials, OneCredential, Same, Nothing, Initialised, StagingName
  <2>11. \A q \in Procs : Holds(q)
    BY DEF Celled
  <2>12. \A q \in Procs \ {p} : Holds(q)'
    BY <1>4, <2>7, <2>11, OthersHold
  <2> QED
    BY <1>4, <1>6, <2>10, <2>12 DEF Celled
<1> QED
  BY <1>8, <1>9

\* The steps of the staging cell.
LEMMA LeaveHolds ==
  ASSUME Host, Celled, NEW p \in Procs, NEW how \in {"done", "failed"}, pc' = [pc EXCEPT ![p] = how],
         arg'[p].cmd = arg[p].cmd, report'[p] # "none" => arg[p].cmd = "status"
  PROVE  Holds(p)'
<1>1. pc'[p] = how
  BY DEF Host, HostTypes
<1>2. how \in Terminal /\ how \notin Upping \cup {"up", "staging_down", "status"}
  BY DEF Terminal, Upping
<1> QED
  BY <1>1, <1>2, Elsewhere

\* Inside up the lock is held.
LEMMA InsideTheLock ==
  ASSUME Host, Celled, NEW p \in Procs, pc[p] \in Upping \/ (StagingUp(p) /\ pc[p] \in {"created", "owned"})
  PROVE  /\ lifecycle = p /\ StagingUp(p) /\ Name(p) = StagingName /\ StagingName \in Names /\ arg[p] \in Args
         /\ report[p] = "none"
<1>1. StagingUp(p)
  BY CommandOf
<1>2. pc[p] \notin {"up"} \cup Terminal /\ pc[p] # "idle"
  BY DEF Upping, Terminal
<1>3. lifecycle = p /\ report[p] = "none"
  BY <1>1, <1>2 DEF Celled, Holds, LifecycleHeld, StagingUp
<1> QED
  BY <1>1, <1>2, <1>3, StagingNameOf, ArgOf DEF StagingUp

\* What remains when a step of up has done its work.
LEMMA UpHolds ==
  ASSUME Host, NEW p \in Procs, StagingUp(p), arg' = arg, lifecycle' = p, report'[p] = "none", Bootstrapped(p)'
  PROVE  Holds(p)'
BY DEF Holds, LifecycleHeld, StagingUp

LEMMA UpFirstSteps ==
  ASSUME Host, Celled, NEW p \in Procs, ToolReceipt(p) \/ UpCheck(p) \/ RenderKindConfig(p)
  PROVE  QuietCell /\ Holds(p)' /\ lifecycle = p
<1>1. pc[p] \in {"up_check", "up_cell", "up_config"} /\ UNCHANGED <<cluster, inside, arg, cell, secret, pgdata, report>>
  BY DEF ToolReceipt, UpCheck, RenderKindConfig, hostVars, cellVars
<1>2. pc[p] \in Upping
  BY <1>1 DEF Upping
<1>3. /\ lifecycle = p /\ StagingUp(p) /\ Name(p) = StagingName /\ report[p] = "none"
      /\ DOMAIN pc = Procs /\ DOMAIN existing = Procs /\ Bootstrapped(p) /\ Nothing
  BY <1>2, InsideTheLock DEF Celled, Credentials, Holds, Host, HostTypes
<1>4. QuietCell
  BY <1>1 DEF QuietCell
<1>5. CASE Refuse(p)
  BY <1>1, <1>3, <1>4, <1>5, LeaveHolds DEF Refuse, Leave, End, Goto
<1>6. CASE ~Refuse(p)
  <2>1. lifecycle' = lifecycle
    BY <1>6 DEF ToolReceipt, UpCheck, RenderKindConfig, Proceed
  <2>2. Bootstrapped(p)'
    <3>1. CASE ToolReceipt(p)
      <4>1. pc'[p] = "up_cell"
        BY <1>3, <1>6, <3>1 DEF ToolReceipt, Proceed, Goto
      <4> QED
        BY <4>1 DEF Bootstrapped, Upping, Creating, Requiring
    <3>2. CASE UpCheck(p)
      <4>1. /\ pc' = [pc EXCEPT ![p] = "up_secret"] /\ existing' = [existing EXCEPT ![p] = cluster[Name(p)] # NoCluster]
            /\ cell = NoCell => cluster[Name(p)] = NoCluster
            /\ cell # NoCell => cell.owner = arg[p].owner
        BY <1>6, <3>2 DEF UpCheck, Goto
      <4>2. pc'[p] = "up_secret" /\ (cell = NoCell => ~existing'[p])
        BY <1>3, <4>1
      <4>3. cell = NoCell => inside[StagingName].secret = 0
        BY <1>3, <4>1 DEF Nothing
      <4> QED
        BY <1>1, <4>1, <4>2, <4>3 DEF Bootstrapped, Upping, Creating, Requiring, StagingName
    <3>3. CASE RenderKindConfig(p)
      <4>1. pc'[p] = "reserve" /\ pc[p] = "up_config"
        BY <1>3, <1>6, <3>3 DEF RenderKindConfig, Proceed, Goto
      <4>2. arg[p].cmd = "up" /\ "up_config" \in Upping
        BY <1>3 DEF StagingUp, Upping
      <4>3. cell # NoCell /\ cell.owner = arg[p].owner /\ cell.commit = arg[p].commit
        BY <1>3, <4>1, <4>2 DEF Bootstrapped
      <4> QED
        BY <1>1, <4>1, <4>3 DEF Bootstrapped
    <3> QED
      BY <3>1, <3>2, <3>3
  <2> QED
    BY <1>1, <1>3, <1>4, <2>1, <2>2, UpHolds
<1> QED
  BY <1>5, <1>6

LEMMA UpSecretStep ==
  ASSUME Host, Celled, NEW p \in Procs, UpSecret(p)
  PROVE  Credentials' /\ Holds(p)' /\ lifecycle = p
<1>1. pc[p] = "up_secret" /\ UNCHANGED <<cluster, inside, arg, cell, pgdata, report>>
  BY DEF UpSecret, hostVars
<1>2. pc[p] \in Upping
  BY <1>1 DEF Upping
<1>3. /\ lifecycle = p /\ StagingUp(p) /\ report[p] = "none" /\ DOMAIN pc = Procs /\ Bootstrapped(p)
      /\ OneCredential /\ Nothing /\ Initialised /\ secret \in Nat /\ minted \in Nat
  BY <1>2, InsideTheLock DEF Celled, Credentials, Holds, Host, HostTypes, CellTypes
<1>4. Credentials'
  <2>1. CASE secret' = secret
    <3>1. QuietCell /\ Credentials
      BY <1>1, <2>1 DEF QuietCell, Celled
    <3> QED
      BY <3>1, QuietCredentials
  <2>2. CASE MintSecret
    <3>1. cell = NoCell /\ pgdata = 0
      BY <2>2 DEF MintSecret, RetainedPostgresState, RetainedData
    <3>2. cell.secret = 0 /\ inside[StagingName].secret = 0
      BY <1>1, <1>3, <3>1 DEF Bootstrapped, NoCell
    <3> QED
      BY <1>1, <1>3, <3>1, <3>2 DEF Credentials, OneCredential, Same, Nothing, Initialised, StagingName
  <2> QED
    BY <2>1, <2>2 DEF UpSecret
<1>5. CASE Refuse(p)
  BY <1>1, <1>3, <1>4, <1>5, LeaveHolds DEF Refuse, Leave, End, Goto
<1>6. CASE Proceed(p, "up_bind")
  <2>1. pc'[p] = "up_bind" /\ lifecycle' = lifecycle /\ existing' = existing
    BY <1>3, <1>6 DEF Proceed, Goto
  <2>2. Bootstrapped(p)'
    BY <1>1, <1>3, <2>1 DEF Bootstrapped, Upping, Creating, Requiring
  <2> QED
    BY <1>1, <1>3, <1>4, <2>1, <2>2, UpHolds
<1> QED
  BY <1>5, <1>6 DEF UpSecret

LEMMA UpBindStep ==
  ASSUME Host, Celled, NEW p \in Procs, UpBind(p)
  PROVE  Credentials' /\ Holds(p)' /\ lifecycle = p /\ (cell = NoCell \/ cell' = cell)
<1>1. pc[p] = "up_bind" /\ UNCHANGED <<cluster, inside, arg, secret, pgdata, report>>
  BY DEF UpBind, hostVars
<1>2. pc[p] \in Upping
  BY <1>1 DEF Upping
<1>3. /\ lifecycle = p /\ StagingUp(p) /\ report[p] = "none" /\ DOMAIN pc = Procs /\ Bootstrapped(p)
      /\ OneCredential /\ Nothing /\ Initialised
  BY <1>2, InsideTheLock DEF Celled, Credentials, Holds, Host, HostTypes
<1>4. /\ cell' = cell \/ (cell = NoCell /\ cell'.secret = secret /\ cell' # NoCell
                          /\ cell'.owner = arg[p].owner /\ cell'.commit = arg[p].commit)
  BY DEF UpBind, ReplaceCell, NoCell
<1>5. Credentials'
  BY <1>1, <1>3, <1>4 DEF Credentials, OneCredential, Same, Nothing, Initialised, StagingName
<1>6. CASE Refuse(p)
  BY <1>1, <1>3, <1>4, <1>5, <1>6, LeaveHolds DEF Refuse, Leave, End, Goto
<1>7. CASE ~Refuse(p)
  <2>1. /\ CommitAdmitted(p) /\ lifecycle' = lifecycle
        /\ \/ existing[p] /\ pc' = [pc EXCEPT ![p] = "require_owned"] /\ cell' = cell
           \/ pc' = [pc EXCEPT ![p] = "up_config"] /\ cell' # NoCell
    BY <1>7 DEF UpBind, Proceed, Goto, ReplaceCell, NoCell
  <2>2. pc'[p] \in {"require_owned", "up_config"} /\ cell' # NoCell
    BY <1>1, <1>3, <2>1 DEF Bootstrapped
  <2>3. cell'.owner = arg[p].owner /\ cell'.commit = arg[p].commit
    <3>1. CASE cell' = cell
      BY <1>1, <1>3, <2>1, <2>2, <3>1 DEF Bootstrapped, CommitAdmitted
    <3> QED
      BY <1>4, <3>1
  <2>4. Bootstrapped(p)'
    BY <1>1, <2>2, <2>3 DEF Bootstrapped
  <2> QED
    BY <1>1, <1>3, <1>4, <1>5, <2>1, <2>4, UpHolds
<1> QED
  BY <1>6, <1>7

\* A step on the cluster that keeps its credential, or injects the recorded one.
LEMMA UpClusterStep ==
  ASSUME Host, Celled, NEW p \in Procs, NEW from, NEW ok \in BOOLEAN, NEW after, NEW to, UpStep(p, from, ok, after, to),
         pc[p] \in {"created", "owned", "up_platform", "up_inject", "up_flux", "up_volumes", "up_reconcile"},
         to \in {"up_platform", "up_inject", "up_flux", "up_volumes", "up_reconcile", "up_receipt"},
         ok => \/ after.secret = inside[StagingName].secret
               \/ after.secret = secret,
         ok /\ to \in {"up_flux", "up_volumes", "up_reconcile", "up_receipt"} => after.secret = cell.secret,
         after.current => inside[StagingName].current
  PROVE  Credentials' /\ Holds(p)' /\ lifecycle = p /\ cell' = cell
<1>1. StagingUp(p) /\ UNCHANGED <<cluster, arg, cell, secret, pgdata, report>>
  BY DEF UpStep, cellVars
<1>2. pc[p] \in Upping \/ (StagingUp(p) /\ pc[p] \in {"created", "owned"})
  BY <1>1 DEF Upping
<1>3. /\ lifecycle = p /\ Name(p) = StagingName /\ StagingName \in Names /\ report[p] = "none"
      /\ DOMAIN pc = Procs /\ DOMAIN inside = Names /\ Bootstrapped(p) /\ OneCredential /\ Nothing /\ Initialised
  BY <1>2, InsideTheLock DEF Celled, Credentials, Holds, Host, HostTypes
<1>4. CASE Refuse(p) /\ inside' = inside
  <2>1. QuietCell /\ Credentials
    BY <1>1, <1>4 DEF QuietCell, Celled
  <2>2. Holds(p)'
    BY <1>1, <1>3, <1>4, LeaveHolds DEF Refuse, Leave, End, Goto
  <2> QED
    BY <1>1, <1>3, <2>1, <2>2, QuietCredentials
<1>5. CASE Reaches(p) /\ ok /\ inside' = [inside EXCEPT ![Name(p)] = after] /\ Proceed(p, to)
  <2>1. inside'[StagingName] = after /\ cluster[StagingName] # NoCluster /\ pc'[p] = to /\ lifecycle' = lifecycle
    BY <1>3, <1>5 DEF Reaches, Proceed, Goto
  <2>2. Credentials'
    BY <1>1, <1>3, <1>5, <2>1 DEF Credentials, OneCredential, Same, Nothing, Initialised, StagingName
  <2>3. cell # NoCell /\ cell.owner = arg[p].owner /\ cell.commit = arg[p].commit
    BY <1>1, <1>3 DEF Bootstrapped, StagingUp, Upping, Creating, Requiring
  <2>4. Bootstrapped(p)'
    BY <1>1, <1>5, <2>1, <2>3 DEF Bootstrapped, StagingName
  <2> QED
    BY <1>1, <1>3, <2>1, <2>2, <2>4, UpHolds
<1> QED
  BY <1>4, <1>5 DEF UpStep

LEMMA UpClusterSteps ==
  ASSUME Host, Celled, NEW p \in Procs,
         PrepareVolumes(p) \/ UpPlatform(p) \/ InjectSecrets(p) \/ ApplyFlux(p) \/ VolumesBound(p) \/ ReconcileData(p)
  PROVE  Credentials' /\ Holds(p)' /\ lifecycle = p /\ cell' = cell
<1>1. StagingUp(p) /\ pc[p] \in {"created", "owned", "up_platform", "up_inject", "up_flux", "up_volumes", "up_reconcile"}
  BY DEF PrepareVolumes, UpPlatform, InjectSecrets, ApplyFlux, VolumesBound, ReconcileData, UpStep
<1>2. pc[p] \in Upping \/ (StagingUp(p) /\ pc[p] \in {"created", "owned"})
  BY <1>1 DEF Upping
<1>3. /\ Name(p) = StagingName /\ Here(p) = inside[StagingName] /\ Contents(inside[StagingName]) /\ Bootstrapped(p)
  BY <1>2, InsideTheLock DEF Here, Celled, Holds, Host, HostTypes
<1>4. cell # NoCell
  BY <1>1, <1>3 DEF Bootstrapped, StagingUp, Upping, Creating, Requiring
<1>5. pc[p] \in {"up_flux", "up_volumes", "up_reconcile"} => inside[StagingName].secret = cell.secret
  BY <1>3 DEF Bootstrapped
<1>6. CASE PrepareVolumes(p)
  BY <1>1, <1>3, <1>6, UpClusterStep DEF PrepareVolumes
<1>7. CASE UpPlatform(p)
  <2> DEFINE after == [Here(p) EXCEPT !.phases = @ \cup {"platform"}]
  <2>1. after.secret = inside[StagingName].secret /\ after.current = inside[StagingName].current
    BY <1>3 DEF Contents
  <2>2. UpStep(p, {"up_platform"}, TRUE, after, "up_inject")
    BY <1>7 DEF UpPlatform
  <2> HIDE DEF after
  <2> QED
    BY <1>1, <2>1, <2>2, UpClusterStep
<1>8. CASE InjectSecrets(p)
  <2> DEFINE after == [Here(p) EXCEPT !.secret = secret]
  <2>1. after.secret = secret /\ after.current = inside[StagingName].current
    BY <1>3 DEF Contents
  <2>2. UpStep(p, {"up_inject"}, SecretLoads, after, "up_flux")
    BY <1>8 DEF InjectSecrets
  <2>3. SecretLoads \in BOOLEAN /\ (SecretLoads => cell.secret = secret)
    BY <1>4 DEF SecretLoads
  <2> HIDE DEF after
  <2> QED
    BY <1>1, <2>1, <2>2, <2>3, UpClusterStep
<1>9. CASE ApplyFlux(p)
  <2> DEFINE after == [Here(p) EXCEPT !.ref = arg[p].commit, !.current = @ /\ Here(p).ref = arg[p].commit]
  <2>1. after.secret = inside[StagingName].secret /\ (after.current => inside[StagingName].current)
    BY <1>3 DEF Contents
  <2>2. UpStep(p, {"up_flux"}, TRUE, after, "up_volumes") /\ pc[p] = "up_flux"
    BY <1>9 DEF ApplyFlux, UpStep
  <2> HIDE DEF after
  <2> QED
    BY <1>1, <1>5, <2>1, <2>2, UpClusterStep
<1>10. CASE VolumesBound(p)
  <2>1. /\ UpStep(p, {"up_volumes"}, "volumes" \in inside[Name(p)].phases, Here(p), "up_reconcile") /\ pc[p] = "up_volumes"
        /\ ("volumes" \in inside[Name(p)].phases) \in BOOLEAN
    BY <1>10 DEF VolumesBound, UpStep
  <2> QED
    BY <1>1, <1>3, <1>5, <2>1, UpClusterStep
<1>11. CASE ReconcileData(p)
  <2>1. UpStep(p, {"up_reconcile"}, FluxCurrent(p), Here(p), "up_receipt") /\ pc[p] = "up_reconcile"
    BY <1>11 DEF ReconcileData, UpStep
  <2>2. FluxCurrent(p) \in BOOLEAN
    BY DEF FluxCurrent
  <2> QED
    BY <1>1, <1>3, <1>5, <2>1, <2>2, UpClusterStep
<1> QED
  BY <1>6, <1>7, <1>8, <1>9, <1>10, <1>11

LEMMA UpReceiptStep ==
  ASSUME Host, Celled, NEW p \in Procs, UpReceipt(p)
  PROVE  /\ Credentials' /\ Holds(p)' /\ lifecycle = p
         /\ cell # NoCell /\ cell'.owner = cell.owner /\ cell'.commit = cell.commit /\ cell'.secret = cell.secret
<1>1. /\ pc[p] = "up_receipt" /\ UNCHANGED <<cluster, inside, arg, secret, pgdata, report>>
      /\ ReplaceCell(p, "ready", inside[Name(p)].secret) /\ pc' = [pc EXCEPT ![p] = "done"]
  BY DEF UpReceipt, Leave, End, Goto, hostVars
<1>2. pc[p] \in Upping \/ (StagingUp(p) /\ pc[p] \in {"created", "owned"})
  BY <1>1 DEF Upping
<1>3. /\ lifecycle = p /\ Name(p) = StagingName /\ report[p] = "none" /\ StagingUp(p)
      /\ Bootstrapped(p) /\ OneCredential /\ Nothing /\ Initialised
  BY <1>2, InsideTheLock DEF Celled, Credentials, Holds
<1>4. cell # NoCell /\ cell.owner = arg[p].owner /\ cell.commit = arg[p].commit /\ inside[StagingName].secret = cell.secret
  BY <1>1, <1>3 DEF Bootstrapped, StagingUp, Upping
<1>5. cell'.owner = cell.owner /\ cell'.commit = cell.commit /\ cell'.secret = cell.secret
  BY <1>1, <1>3, <1>4 DEF ReplaceCell
<1>6. Credentials'
  BY <1>1, <1>3, <1>5 DEF Credentials, OneCredential, Same, Nothing, Initialised, StagingName
<1>7. Holds(p)'
  BY <1>1, <1>3, LeaveHolds
<1> QED
  BY <1>3, <1>4, <1>5, <1>6, <1>7

\* The lock, failures, down and status.
LEMMA OtherStagingSteps ==
  ASSUME Host, Celled, NEW p \in Procs,
         LifecycleLock(p) \/ StagingRaise(p) \/ DownCheck(p) \/ DownReceipt(p) \/ StatusCheck(p) \/ StatusHealth(p)
  PROVE  QuietCell /\ Holds(p)' /\ (lifecycle' = lifecycle \/ lifecycle \in {p, NoProc})
<1>0. /\ QuietCell /\ (lifecycle' = lifecycle \/ lifecycle \in {p, NoProc})
  BY DEF QuietCell, LifecycleLock, StagingRaise, DownCheck, DownReceipt, StatusCheck, StatusHealth, Proceed, Refuse, Leave,
         hostVars, cellVars
<1>1. Holds(p) /\ DOMAIN pc = Procs /\ DOMAIN report = Procs /\ (report[p] # "none" => arg[p].cmd = "status")
  BY DEF Celled, Holds, Host, HostTypes, CellTypes
<1>2. OwnStep(p) /\ pc[p] # "idle"
  <2>1. StagingStep(p)
    BY DEF StagingStep
  <2>2. UNCHANGED <<cluster, marker, lock>> /\ (UpMoves(p) \/ DownMoves(p) \/ StatusMoves(p))
    BY <2>1, StagingStepMoves
  <2> QED
    BY <2>2, StagingIsOwn DEF UpMoves, DownMoves, StatusMoves, Upping
<1>3. arg'[p].cmd = arg[p].cmd
  BY <1>2 DEF OwnStep
<1>4. CASE Refuse(p) /\ report' = report
  BY <1>0, <1>1, <1>3, <1>4, LeaveHolds DEF Refuse, Leave, End, Goto
<1>5. CASE LifecycleLock(p) /\ ~(Refuse(p) /\ report' = report)
  <2>1. /\ pc[p] \in {"up", "staging_down"} /\ lifecycle' = p /\ arg' = arg /\ report' = report
        /\ pc' = [pc EXCEPT ![p] = IF StagingUp(p) THEN "up_check" ELSE "down_check"]
    BY <1>5 DEF LifecycleLock, Goto
  <2>2. pc'[p] \in {"up_check", "down_check"}
    BY <1>1, <2>1
  <2>3. LifecycleHeld(p)' /\ Bootstrapped(p)'
    BY <2>1, <2>2 DEF LifecycleHeld, Bootstrapped, Upping, Creating, Requiring
  <2> QED
    BY <1>0, <1>1, <2>1, <2>3 DEF Holds
<1>6. CASE DownCheck(p) /\ ~(Refuse(p) /\ report' = report)
  <2>1. pc[p] = "down_check" /\ pc' = [pc EXCEPT ![p] = "delete_if_present"] /\ UNCHANGED <<lifecycle, report>>
    BY <1>6 DEF DownCheck, Proceed, Goto
  <2>2. pc'[p] = "delete_if_present" /\ arg[p].cmd = "staging_down"
    BY <1>1, <2>1, CommandOf
  <2>3. lifecycle = p
    BY <1>1, <2>1, <2>2 DEF Holds, LifecycleHeld, Terminal
  <2>4. LifecycleHeld(p)' /\ Bootstrapped(p)'
    BY <1>3, <2>1, <2>2, <2>3 DEF LifecycleHeld, Bootstrapped, Upping, Creating, Requiring
  <2> QED
    BY <1>0, <1>1, <1>3, <2>1, <2>4 DEF Holds
<1>7. CASE DownReceipt(p)
  BY <1>0, <1>1, <1>3, <1>7, LeaveHolds DEF DownReceipt, Leave, End, Goto
<1>8. CASE StatusHealth(p) \/ (StatusCheck(p) /\ ~(Refuse(p) /\ report' = report))
  <2>1. arg[p].cmd = "status"
    BY <1>8, CommandOf DEF StatusCheck, StatusHealth
  <2>2. \E t \in {"done", "require_owned"} : pc' = [pc EXCEPT ![p] = t]
    BY <1>8 DEF StatusCheck, StatusHealth, Goto
  <2>3. pc'[p] \in {"done", "require_owned"}
    BY <1>1, <2>2
  <2>4. pc'[p] \notin Upping
    BY <2>3 DEF Upping
  <2> QED
    BY <1>0, <1>3, <2>1, <2>4, Elsewhere
<1>9. StagingRaise(p) => Refuse(p) /\ report' = report
  BY DEF StagingRaise
<1> QED
  BY <1>4, <1>5, <1>6, <1>7, <1>8, <1>9

LEMMA StagingKeepsCelled ==
  ASSUME Host, Celled, NEW p \in Procs, StagingStep(p)
  PROVE  Celled'
<1>1. OwnStep(p)
  BY StagingStepMoves, StagingIsOwn
<1>2. \A q \in Procs \ {p} : pc'[q] = pc[q] /\ arg'[q] = arg[q]
  BY <1>1 DEF OwnStep
<1>3. existing' = existing \/ \E e : existing' = [existing EXCEPT ![p] = e]
  BY DEF StagingStep, LifecycleLock, ToolReceipt, UpCheck, UpSecret, UpBind, RenderKindConfig, PrepareVolumes, UpPlatform,
         InjectSecrets, ApplyFlux, VolumesBound, ReconcileData, UpStep, UpReceipt, StagingRaise, DownCheck, DownReceipt,
         StatusCheck, StatusHealth, Proceed, Refuse, Leave
<1>4. report' = report \/ \E r : report' = [report EXCEPT ![p] = r]
  BY DEF StagingStep, LifecycleLock, ToolReceipt, UpCheck, UpSecret, UpBind, RenderKindConfig, PrepareVolumes, UpPlatform,
         InjectSecrets, ApplyFlux, VolumesBound, ReconcileData, UpStep, UpReceipt, StagingRaise, DownCheck, DownReceipt,
         StatusCheck, StatusHealth
<1>5. DOMAIN existing' = Procs /\ \A q \in Procs \ {p} : existing'[q] = existing[q] /\ report'[q] = report[q]
  BY <1>3, <1>4 DEF Celled, Host, CellTypes
<1>6. /\ Credentials' /\ Holds(p)'
      /\ \/ UNCHANGED <<lifecycle, cell>> /\ inside'[StagingName].secret = inside[StagingName].secret
         \/ lifecycle \in {p, NoProc}
  <2>1. CASE ToolReceipt(p) \/ UpCheck(p) \/ RenderKindConfig(p)
    BY <2>1, UpFirstSteps, QuietCredentials DEF Celled
  <2>2. CASE UpSecret(p)
    BY <2>2, UpSecretStep
  <2>3. CASE UpBind(p)
    BY <2>3, UpBindStep
  <2>4. CASE PrepareVolumes(p) \/ UpPlatform(p) \/ InjectSecrets(p) \/ ApplyFlux(p) \/ VolumesBound(p) \/ ReconcileData(p)
    BY <2>4, UpClusterSteps
  <2>5. CASE UpReceipt(p)
    BY <2>5, UpReceiptStep
  <2>6. CASE LifecycleLock(p) \/ StagingRaise(p) \/ DownCheck(p) \/ DownReceipt(p) \/ StatusCheck(p) \/ StatusHealth(p)
    BY <2>6, OtherStagingSteps, QuietCredentials DEF Celled, QuietCell
  <2> QED
    BY <2>1, <2>2, <2>3, <2>4, <2>5, <2>6 DEF StagingStep
<1>7. \A q \in Procs : Holds(q)
  BY DEF Celled
<1>8. \A q \in Procs \ {p} : Holds(q)'
  BY <1>2, <1>5, <1>6, <1>7, OthersHold
<1> QED
  BY <1>5, <1>6, <1>8 DEF Celled

LEMMA NextCelled ==
  ASSUME Host, Celled, DistinctNames, SeparateSites, [Next]_platformVars
  PROVE  Celled'
<1>1. ASSUME NEW p \in Procs, ToolStep(p)
      PROVE  Celled'
  <2>1. CASE KindStep(p) /\ UNCHANGED <<referenceVars, stagingVars, haVars>>
    BY <2>1, KindKeepsCelled
  <2>2. CASE ReferenceStep(p) /\ UNCHANGED <<stagingVars, haVars>>
    <3>1. ReferenceMoves(p) /\ OwnStep(p)
      BY <2>2, ReferenceStepMoves, ReferenceIsOwn
    <3>2. ProofTool(p) /\ OnlyPhases /\ pc'[p] \notin Upping
      BY <3>1 DEF ReferenceMoves, Proving, Upping, Host, HostTypes
    <3> QED
      BY <2>2, <3>1, <3>2, ToolsKeepCelled
  <2>3. CASE StagingStep(p)
    BY <2>3, StagingKeepsCelled
  <2>4. CASE HaToolStep(p) /\ UNCHANGED <<referenceVars, stagingVars>>
    <3>1. HaMoves(p) /\ OwnStep(p)
      BY <2>4, HaToolStepMoves, HaIsOwn
    <3>2. HaTool(p) /\ OnlyPhases /\ pc'[p] \notin Upping
      BY <3>1 DEF HaMoves, NotHa, Host, HostTypes
    <3> QED
      BY <2>4, <3>1, <3>2, ToolsKeepCelled
  <2> QED
    BY <1>1, <2>1, <2>2, <2>3, <2>4 DEF ToolStep
<1>2. CASE UNCHANGED platformVars
  <2>1. UNCHANGED <<cluster, inside, pc, arg, cell, secret, pgdata, lifecycle, existing, report>>
    BY <1>2 DEF platformVars, kindVars, hostVars, procVars, stagingVars
  <2>2. Credentials'
    BY <2>1, QuietCredentials DEF QuietCell, Celled
  <2>3. ASSUME NEW q \in Procs
        PROVE  Holds(q)'
    BY <2>1 DEF Celled, Holds, LifecycleHeld, Bootstrapped, StagingName
  <2> QED
    BY <2>1, <2>2, <2>3 DEF Celled
<1> QED
  BY <1>1, <1>2, StartKeepsCelled, CrashKeepsCelled, EnvironmentKeepsCelled DEF Next

(* Retained data keeps its credential: once PostgreSQL has initialised its  *)
(* directory, the credential file, the receipt and the injected Secret hold *)
(* that credential or none, through every crash, repair, deletion and loss. *)
THEOREM HostSecretNeverReplaced ==
  ASSUME DistinctNames, SeparateSites
  PROVE  Spec => []SecretNeverReplaced
<1>1. Init => Host /\ Celled
  BY InitHost, InitCelled
<1>2. Host /\ Celled /\ [Next]_platformVars => Host' /\ Celled'
  BY NextHost, NextCelled
<1>3. Host /\ Celled => SecretNeverReplaced
  BY DEF Celled, Credentials, OneCredential, Same, SecretNeverReplaced, StagingName
<1> QED
  BY <1>1, <1>2, <1>3, PTL DEF Spec

\* Who writes the receipt, and what in it.
LEMMA ReceiptStaysPinned ==
  ASSUME Host, Celled, [Next]_platformVars, cell # NoCell, cell' # NoCell
  PROVE  cell'.owner = cell.owner /\ cell'.commit = cell.commit /\ cell'.secret = cell.secret
<1> SUFFICES ASSUME cell' # cell
             PROVE  cell'.owner = cell.owner /\ cell'.commit = cell.commit /\ cell'.secret = cell.secret
  OBVIOUS
<1>1. Next
  BY DEF platformVars, stagingVars
<1>2. ~Environment /\ \A p \in Procs : ~Crash(p) /\ ~StartTool(p)
  BY CrashOf DEF Environment, FluxReconciles, LoseSecret, LoseReceipt, StartTool, StartStaging, stagingVars, cellVars
<1>3. PICK p \in Procs : StagingStep(p)
  BY <1>1, <1>2 DEF Next, ToolStep, stagingVars
<1>4. UpBind(p) \/ UpReceipt(p)
  BY <1>3 DEF StagingStep, LifecycleLock, ToolReceipt, UpCheck, UpSecret, RenderKindConfig, PrepareVolumes, UpPlatform,
              InjectSecrets, ApplyFlux, VolumesBound, ReconcileData, UpStep, StagingRaise, DownCheck, DownReceipt,
              StatusCheck, StatusHealth, cellVars
<1> QED
  BY <1>4, UpBindStep, UpReceiptStep

(* A receipt is pinned: as long as it exists, owner, commit and credential  *)
(* are those of the first bootstrap, whoever runs up and whatever crashes.  *)
THEOREM HostCellIsPinned ==
  ASSUME DistinctNames, SeparateSites
  PROVE  Spec => CellIsPinned
<1>1. Init => Host /\ Celled
  BY InitHost, InitCelled
<1>2. Host /\ Celled /\ [Next]_platformVars => Host' /\ Celled'
  BY NextHost, NextCelled
<1>3. Host /\ Celled /\ [Next]_platformVars =>
        [cell # NoCell /\ cell' # NoCell =>
            /\ cell'.owner = cell.owner /\ cell'.commit = cell.commit
            /\ cell'.secret = cell.secret]_platformVars
  BY ReceiptStaysPinned
<1> QED
  BY <1>1, <1>2, <1>3, PTL DEF Spec, CellIsPinned

\* Only the health check of status says ready.
LEMMA ReadySaysWhatItSaw ==
  ASSUME Host, Celled, Celled', [Next]_platformVars,
         NEW p \in Procs, report'[p] = "ready", pc'[p] = "done", pc[p] # "done"
  PROVE  pgdata # 0 /\ inside[StagingName].secret = pgdata
<1>1. Next
  BY DEF platformVars, kindVars, procVars
<1>2. arg'[p].cmd = "status"
  BY DEF Celled, Holds
<1>3. ~Environment
  BY EnvironmentOf
<1>4. PICK q \in Procs : StartTool(q) \/ ToolStep(q) \/ Crash(q)
  BY <1>1, <1>3 DEF Next
<1>5. ~Crash(q)
  <2>1. Crash(q) => pc'[q] = "crashed" /\ \A r \in Procs \ {q} : pc'[r] = pc[r]
    BY CrashOf
  <2> QED
    BY <2>1
<1>6. ASSUME OwnStep(q)
      PROVE  q = p
  BY <1>6 DEF OwnStep
<1>7. ~StartTool(q)
  <2>1. ASSUME StartTool(q)
        PROVE  FALSE
    <3>1. q = p
      BY <1>6, <2>1, StartIsOwn
    <3>2. \E t \in {"proof", "delete_if_present", "up", "staging_down", "status", "ha", "ha_finally"} : pc' = [pc EXCEPT ![q] = t]
      BY <2>1 DEF StartTool, StartProof, StartDown, StartStaging, StartHa, Start, Goto
    <3> QED
      BY <3>1, <3>2 DEF Host, HostTypes
  <2> QED
    BY <2>1
<1>8. ~KindStep(q)
  <2>1. ASSUME KindStep(q)
        PROVE  FALSE
    <3>1. PICK t \in Creating \cup Requiring \cup Deleting \cup {"raise"} : pc' = [pc EXCEPT ![q] = t]
      BY <2>1, KindStepMoves DEF KindMoves
    <3>2. t # "done"
      BY DEF Creating, Requiring, Deleting
    <3> QED
      BY <3>1, <3>2 DEF Host, HostTypes
  <2> QED
    BY <2>1
<1>9. ~ReferenceStep(q)
  <2>1. ASSUME ReferenceStep(q)
        PROVE  FALSE
    <3>1. ReferenceMoves(q) /\ q = p
      BY <1>6, <2>1, ReferenceStepMoves, ReferenceIsOwn
    <3> QED
      BY <1>2, <3>1 DEF ReferenceMoves, ProofTool
  <2> QED
    BY <2>1
<1>10. ~HaToolStep(q)
  <2>1. ASSUME HaToolStep(q)
        PROVE  FALSE
    <3>1. HaMoves(q) /\ OwnStep(q) /\ q = p
      BY <1>6, <2>1, HaToolStepMoves, HaIsOwn
    <3>2. pc[p] # "idle" /\ HaTool(p)
      BY <3>1 DEF HaMoves, NotHa
    <3>3. arg'[p].cmd = arg[p].cmd
      BY <3>1, <3>2 DEF OwnStep
    <3> QED
      BY <1>2, <3>2, <3>3 DEF HaTool
  <2> QED
    BY <2>1
<1>11. StagingStep(q) /\ OwnStep(q) /\ q = p
  BY <1>4, <1>5, <1>6, <1>7, <1>8, <1>9, <1>10, StagingStepMoves, StagingIsOwn DEF ToolStep
<1>12. StatusMoves(p)
  <2>1. UpMoves(p) \/ DownMoves(p) \/ StatusMoves(p)
    BY <1>11, StagingStepMoves
  <2>2. pc[p] # "idle"
    BY <2>1 DEF UpMoves, DownMoves, StatusMoves, Upping
  <2>3. arg[p].cmd = "status"
    BY <1>2, <1>11, <2>2 DEF OwnStep
  <2> QED
    BY <2>1, <2>3 DEF UpMoves, DownMoves, StagingUp
<1>13. StatusHealth(p)
  <2>1. arg[p].cmd = "status" /\ pc[p] \in {"status", "owned", "raise"} /\ DOMAIN pc = Procs /\ DOMAIN report = Procs
    BY <1>12 DEF StatusMoves, Host, HostTypes, CellTypes
  <2>2. StatusCheck(p) \/ StatusHealth(p) \/ StagingRaise(p)
    BY <1>11, <2>1 DEF StagingStep, LifecycleLock, ToolReceipt, UpCheck, UpSecret, UpBind, RenderKindConfig, PrepareVolumes,
              UpPlatform, InjectSecrets, ApplyFlux, VolumesBound, ReconcileData, UpStep, UpReceipt, DownCheck, DownReceipt, StagingUp
  <2>3. ~StagingRaise(p)
    BY <2>1 DEF StagingRaise, Refuse, Leave, End, Goto
  <2>4. ~StatusCheck(p)
    BY <2>1 DEF StatusCheck, Refuse, Leave, End, Goto
  <2> QED
    BY <2>2, <2>3, <2>4
<1>14. inside[Name(p)].current /\ SecretLoads /\ inside[Name(p)].secret = secret
  BY <1>13 DEF StatusHealth, FluxCurrent, Host, CellTypes
<1>15. Name(p) = StagingName
  BY <1>12, StagingNameOf DEF StatusMoves
<1> QED
  BY <1>14, <1>15 DEF Celled, Credentials, OneCredential, Same, Initialised, SecretLoads

(* Ready is usable: when status ends with ready, the database has been      *)
(* initialised and accepts the credential that is injected in the cluster.  *)
THEOREM HostReadyIsUsable ==
  ASSUME DistinctNames, SeparateSites
  PROVE  Spec => ReadyIsUsable
<1>1. Init => Host /\ Celled
  BY InitHost, InitCelled
<1>2. Host /\ Celled /\ [Next]_platformVars => Host' /\ Celled'
  BY NextHost, NextCelled
<1>3. Host /\ Celled /\ Host' /\ Celled' /\ [Next]_platformVars =>
        [\A p \in Procs : report'[p] = "ready" /\ pc'[p] = "done" /\ pc[p] # "done" =>
            pgdata # 0 /\ inside[NameOf[StagingSite]].secret = pgdata]_platformVars
  BY ReadySaysWhatItSaw DEF StagingName
<1> QED
  BY <1>1, <1>2, <1>3, PTL DEF Spec, ReadyIsUsable

-----------------------------------------------------------------------------
(* Kept: what the high-availability tool has left and what it still has     *)

\* The steps of the proof on its clusters, in their order.
Early == {"ha_preload", "ha_images", "ha_candidate", "ha_platform", "ha_dns"}
Storing == {"ha_store", "ha_volume", "ha_container"}
Operating == {"ha_secrets", "ha_endpoint", "ha_cert", "ha_cnpg", "ha_webhook", "ha_barman", "ha_barman_images"}
Measuring == {"ha_data", "ha_sidecars", "ha_migration", "ha_retry", "ha_app", "ha_probes", "ha_marker", "ha_upgrade",
              "ha_upgrading", "ha_upgraded", "ha_rollback", "ha_rolling_back", "ha_rolled_back", "ha_align", "ha_box",
              "ha_stream", "ha_stop", "ha_failover", "ha_failed_over", "ha_message", "ha_count", "ha_election",
              "ha_leader", "ha_start", "ha_backup", "ha_after", "ha_wal"}
Closing == {"ha_close", "ha_retire"}
\* Steps at the primary only.
AtPrimary == (Early \ {"ha_dns"}) \cup Storing \cup Measuring \cup Closing
\* Steps on a cluster the proof has created.
Inhabited == {"created"} \cup Early \cup Storing \cup Operating \cup Measuring \cup Closing

\* The steps of the cleanup, and the steps of a deletion before the marker is gone.
Cleaning == {"ha_cleanup", "raise", "store_container", "rm_container", "store_volume", "rm_volume", "store_done", "ha_exit"}
               \cup (Deleting \ {"delete"})
Standing == {"delete_if_present", "kind_delete", "delete_marker", "raise"}

Locals == [primary : BOOLEAN, restore : BOOLEAN, store : BOOLEAN, stopped : BOOLEAN, keep : BOOLEAN, err : BOOLEAN,
           dirty : BOOLEAN, stage : {"none", "primary", "restore", "retire", "undo", "cleanup"}]

\* The local variables belong to an invocation of the tool that runs.
Local(p) ==
    /\ ha[p].stage # "none" => HaTool(p) /\ Active(p)
    /\ pc[p] = "idle" => ha[p] = HaIdle
    /\ HaTool(p) => pc[p] # "delete"

\* The stage says at which of the two sites a proof works.
Staged(p) == HaProof(p) =>
    /\ pc[p] \in {"ha", "ha_capacity"} => Site(p) = HaPrimary
    /\ ha[p].stage \in {"primary", "retire"} => Site(p) = HaPrimary
    /\ ha[p].stage = "restore" => Site(p) = HaRestore
    /\ pc[p] \in Creating \cup {"ha_dns"} \cup Operating => ha[p].stage \in {"primary", "restore"}
    /\ pc[p] \in AtPrimary => ha[p].stage = "primary"
    /\ pc[p] \in {"ha_restore", "ha_receipt"} => ha[p].stage = "restore"
    /\ pc[p] = "ha_cleanup" => ha[p].stage = "cleanup"

\* A proof that still has its primary, and one about to delete it.
Primary(p) == HaProof(p) /\ ha[p].stage = "primary" /\ pc[p] \in Inhabited
Retiring(p) == HaProof(p) /\ ha[p].stage = "retire" /\ pc[p] \in {"delete_if_present", "kind_delete"}

\* Until it deletes it the primary is its own, and so is the volume of the
\* object store; before it closes the window all mutations are in the store.
Keeps(p) ==
    /\ Primary(p) \/ Retiring(p) => cluster[NameOf[HaPrimary]] = p
    /\ Primary(p) /\ pc[p] = "ha_volume" => store["volume"] = NoBinding
    /\ (Primary(p) /\ pc[p] \in {"ha_container"} \cup Operating \cup Measuring \cup Closing) \/ Retiring(p) =>
          store["volume"] = Bound(p)
    /\ (Primary(p) /\ pc[p] \in Closing) \/ Retiring(p) => Data(HaPrimary) \subseteq archive

\* down works through the resources in their order.
InOrder(p) == arg[p].cmd = "ha_down" =>
    /\ pc[p] \in {"ha_finally"} \cup Cleaning \cup Terminal
    /\ ~ha[p].keep
    /\ pc[p] = "ha_finally" => ha[p].restore /\ ha[p].primary /\ ha[p].store
    /\ pc[p] \in Cleaning => ha[p].stage = "cleanup"
    /\ pc[p] \in {"ha_cleanup", "raise"} \cup Deleting => ha[p].store
    /\ pc[p] \in Cleaning \ ({"ha_cleanup", "raise"} \cup Deleting) => ~ha[p].restore /\ ~ha[p].primary

\* A site the tool has dealt with carries its marker no longer.
Pending(p, s) == \/ s = HaPrimary /\ ha[p].primary
                 \/ s = HaRestore /\ ha[p].restore
                 \/ Site(p) = s /\ pc[p] \in Standing
Cleared(p) == arg[p].cmd = "ha_down" /\ pc[p] \in Cleaning /\ ~ha[p].dirty =>
    /\ \A s \in {HaPrimary, HaRestore} : Pending(p, s) \/ marker[s] # Bound(p)
    /\ pc[p] \in {"store_volume", "rm_volume", "store_done", "ha_exit"} => store["container"] # Bound(p)
    /\ pc[p] \in {"store_done", "ha_exit"} => store["volume"] # Bound(p)
Vacated(p) == arg[p].cmd = "down" /\ pc[p] \in {"delete_kubeconfig", "deleted", "absent"} => marker[Site(p)] # Bound(p)

Tidy(p) == Local(p) /\ Staged(p) /\ Keeps(p) /\ InOrder(p) /\ Cleared(p) /\ Vacated(p)
Kept == ha \in [Procs -> Locals] /\ \A p \in Procs : Tidy(p)
-----------------------------------------------------------------------------
(* The steps of the proof on a cluster *)

Working == (Early \cup Operating \cup Measuring \cup {"ha_close", "ha_restore", "ha_receipt"})

\* Where they lead.
Leads(p, f, t) ==
    \/ t = "ha_finally"
    \/ f \in Early \ {"ha_dns"} /\ t \in Early
    \/ f = "ha_dns" /\ t = IF Site(p) = HaPrimary THEN "ha_store" ELSE "ha_secrets"
    \/ f \in Operating /\ t \in Operating
    \/ f = "ha_barman_images" /\ t = IF Site(p) = HaPrimary THEN "ha_data" ELSE "ha_restore"
    \/ f \in Measuring /\ t \in Measuring \cup {"ha_close"}
    \/ f = "ha_close" /\ t = "ha_retire"
    \/ f = "ha_restore" /\ t = "ha_receipt"

\* What they all do.
Works(p) ==
    /\ UNCHANGED <<cluster, marker, lock, arg, store>>
    /\ pc[p] \in Working
    /\ \E h \in Locals : ha' = [ha EXCEPT ![p] = h] /\ h.stage = ha[p].stage
    /\ \E t : pc' = [pc EXCEPT ![p] = t] /\ Leads(p, pc[p], t)
    /\ archive \subseteq archive'
    /\ \A n \in Names \ {Name(p)} : inside'[n] = inside[n]
    /\ pc[p] = "ha_close" => archive' = archive /\ inside'[Name(p)].phases \subseteq inside[Name(p)].phases
    /\ pc'[p] = "ha_close" => inside' = inside /\ archive' = archive /\ Data(Site(p)) \subseteq archive

LEMMA WorkingIsInside ==
  ASSUME Host, NEW p \in Procs, pc[p] \in Working
  PROVE  /\ HaTool(p) /\ Active(p) /\ Name(p) \in Names /\ DOMAIN inside = Names
         /\ pc[p] \notin {"ha_finally"} \cup Cleaning \cup Terminal \cup {"idle"}
<1>1. Working \cap (NotInside \cup {"ha_finally"} \cup Cleaning \cup Terminal \cup {"idle"}) = {}
  BY DEF Working, Early, Operating, Measuring, Cleaning, NotInside, NotHa, Creating, Requiring, Deleting, Proving,
         Upping, Ended, Terminal
<1> QED
  BY <1>1, InsideHa DEF Active, Host, HostTypes

\* The local variables are a record, of which a step changes one field.
LEMMA SameLocals ==
  ASSUME ha \in [Procs -> Locals], NEW p \in Procs, ha' = ha
  PROVE  \E h \in Locals : ha' = [ha EXCEPT ![p] = h] /\ h.stage = ha[p].stage
<1>1. ha[p] \in Locals /\ ha' = [ha EXCEPT ![p] = ha[p]]
  OBVIOUS
<1> QED
  BY <1>1

LEMMA FailedLocals ==
  ASSUME ha \in [Procs -> Locals], NEW p \in Procs, HaFail(p)
  PROVE  \E h \in Locals : ha' = [ha EXCEPT ![p] = h] /\ h.stage = ha[p].stage
<1>1. ha[p] \in Locals
  OBVIOUS
<1>2. [ha[p] EXCEPT !.err = TRUE] \in Locals /\ [ha[p] EXCEPT !.err = TRUE].stage = ha[p].stage
  BY <1>1 DEF Locals
<1> QED
  BY <1>2 DEF HaFail, Become

LEMMA HaStepWorks ==
  ASSUME Host, ha \in [Procs -> Locals], NEW p \in Procs, NEW from \in Working, NEW needs, NEW adds, NEW removes, NEW undo,
         NEW next, HaStep(p, from, needs, adds, removes, undo, next),
         Leads(p, from, next), next # "ha_close", from = "ha_close" => adds = {}
  PROVE  Works(p)
<1>1. pc[p] = from /\ UNCHANGED <<cluster, marker, lock, arg, store, archive>>
  BY DEF HaStep
<1>2. Name(p) \in Names /\ DOMAIN inside = Names
  BY <1>1, WorkingIsInside
<1>3. \E h \in Locals : ha' = [ha EXCEPT ![p] = h] /\ h.stage = ha[p].stage
  BY SameLocals, FailedLocals DEF HaStep
<1>4. \E t \in {next, "ha_finally"} : pc' = [pc EXCEPT ![p] = t] /\ Leads(p, from, t)
  BY DEF HaStep, HaFail, Become, Goto, Leads
<1>5. \A n \in Names \ {Name(p)} : inside'[n] = inside[n]
  BY <1>2 DEF HaStep
<1>6. from = "ha_close" => inside'[Name(p)].phases \subseteq inside[Name(p)].phases
  <2> SUFFICES ASSUME from = "ha_close"
               PROVE  inside'[Name(p)].phases \subseteq inside[Name(p)].phases
    OBVIOUS
  <2>1. \E x : inside' = [inside EXCEPT ![Name(p)].phases = (@ \cup {}) \ x]
    <3>1. CASE inside' = [inside EXCEPT ![Name(p)].phases = (@ \cup adds) \ removes]
      BY <3>1
    <3>2. ASSUME NEW x, inside' = [inside EXCEPT ![Name(p)].phases = @ \ x]
          PROVE  inside' = [inside EXCEPT ![Name(p)].phases = (@ \cup {}) \ x]
      <4>1. inside[Name(p)].phases \ x = (inside[Name(p)].phases \cup {}) \ x
        OBVIOUS
      <4> QED
        BY <3>2, <4>1
    <3> QED
      BY <3>1, <3>2 DEF HaStep
  <2>2. DOMAIN inside[Name(p)] = {"phases", "secret", "ref", "current"}
    BY <1>2 DEF Host, HostTypes, Contents
  <2> QED
    BY <1>2, <2>1, <2>2
<1>7. pc'[p] # "ha_close"
  BY <1>4 DEF Host, HostTypes
<1> QED
  BY <1>1, <1>3, <1>4, <1>5, <1>6, <1>7 DEF Works

LEMMA BuildsWork ==
  ASSUME Host, ha \in [Procs -> Locals], NEW p \in Procs, HaBuilds(p)
  PROVE  Works(p)
<1> USE HaStepWorks DEF Working, Early, Operating, Measuring, Leads
<1>1. CASE PreloadNats(p)
  BY <1>1 DEF PreloadNats
<1>2. CASE HaImages(p)
  BY <1>2 DEF HaImages
<1>3. CASE UpgradeCandidate(p)
  BY <1>3 DEF UpgradeCandidate
<1>4. CASE HaPlatform(p)
  BY <1>4 DEF HaPlatform
<1>5. CASE ClusterDns(p)
  BY <1>5 DEF ClusterDns
<1>6. CASE SecretContracts(p)
  BY <1>6 DEF SecretContracts
<1>7. CASE StoreEndpoint(p)
  BY <1>7 DEF StoreEndpoint
<1>8. CASE CertManager(p)
  BY <1>8 DEF CertManager
<1>9. CASE InstallCnpg(p)
  BY <1>9 DEF InstallCnpg
<1>10. CASE CnpgWebhook(p)
  BY <1>10 DEF CnpgWebhook
<1>11. CASE BarmanPlugin(p)
  BY <1>11 DEF BarmanPlugin
<1>12. CASE InstallBarman(p)
  BY <1>12 DEF InstallBarman
<1>13. CASE HaData(p)
  BY <1>13 DEF HaData
<1>14. CASE BarmanSidecars(p)
  BY <1>14 DEF BarmanSidecars
<1>15. CASE MigrationPartition(p)
  BY <1>15 DEF MigrationPartition
<1> QED
  BY <1>1, <1>2, <1>3, <1>4, <1>5, <1>6, <1>7, <1>8, <1>9, <1>10, <1>11, <1>12, <1>13, <1>14, <1>15 DEF HaBuilds

LEMMA MeasuresWork ==
  ASSUME Host, ha \in [Procs -> Locals], NEW p \in Procs, HaMeasures(p)
  PROVE  Works(p)
<1> USE HaStepWorks DEF Working, Early, Operating, Measuring, Leads
<1>1. CASE MigrationRetry(p)
  BY <1>1 DEF MigrationRetry
<1>2. CASE HaApp(p)
  BY <1>2 DEF HaApp
<1>3. CASE DirectProbes(p)
  BY <1>3 DEF DirectProbes
<1>4. CASE HaMarker(p)
  BY <1>4 DEF HaMarker
<1>5. CASE HaUpgrade(p)
  BY <1>5 DEF HaUpgrade
<1>6. CASE HaRollback(p)
  BY <1>6 DEF HaRollback
<1>7. CASE ApiTransition(p)
  BY <1>7 DEF ApiTransition
<1>8. CASE Replaced(p)
  BY <1>8 DEF Replaced
<1>9. CASE CreateNatsBox(p)
  BY <1>9 DEF CreateNatsBox
<1>10. CASE DomainStream(p)
  BY <1>10 DEF DomainStream
<1>11. CASE StartElection(p)
  BY <1>11 DEF StartElection
<1>12. CASE FailedOver(p)
  BY <1>12 DEF FailedOver
<1>13. CASE FinishElection(p)
  BY <1>13 DEF FinishElection
<1>14. CASE HaAfter(p)
  BY <1>14 DEF HaAfter
<1>15. CASE CloseWindow(p)
  BY <1>15 DEF CloseWindow
<1> QED
  BY <1>1, <1>2, <1>3, <1>4, <1>5, <1>6, <1>7, <1>8, <1>9, <1>10, <1>11, <1>12, <1>13, <1>14, <1>15 DEF HaMeasures

LEMMA BackupWorks ==
  ASSUME Host, ha \in [Procs -> Locals], NEW p \in Procs, HaAlign(p) \/ BarmanLeader(p) \/ HaBackup(p)
  PROVE  Works(p)
<1>1. pc[p] \in {"ha_align", "ha_leader", "ha_backup"} /\ UNCHANGED <<cluster, marker, lock, arg, store>>
  BY DEF HaAlign, BarmanLeader, HaBackup, BackupComplete
<1>2. pc[p] \in Working /\ {"ha_box", "ha_start", "ha_after"} \subseteq Measuring /\ pc[p] \in Measuring /\ "ha_close" \notin Measuring
  BY <1>1 DEF Working, Measuring
<1>3. Name(p) \in Names /\ DOMAIN inside = Names
  BY <1>2, WorkingIsInside
<1>4. \E h \in Locals : ha' = [ha EXCEPT ![p] = h] /\ h.stage = ha[p].stage
  <2>1. ha[p] \in Locals
    OBVIOUS
  <2>2. [ha[p] EXCEPT !.stopped = TRUE] \in Locals /\ [ha[p] EXCEPT !.stopped = TRUE].stage = ha[p].stage
    BY <2>1 DEF Locals
  <2>3. CASE ha' = ha \/ HaFail(p)
    BY <2>3, SameLocals, FailedLocals
  <2>4. CASE ha' = [ha EXCEPT ![p] = [ha[p] EXCEPT !.stopped = TRUE]]
    BY <2>2, <2>4
  <2> QED
    BY <2>3, <2>4 DEF HaAlign, BarmanLeader, HaBackup, BackupComplete, Become
<1>5. PICK t \in {"ha_box", "ha_start", "ha_after", "ha_finally"} : pc' = [pc EXCEPT ![p] = t]
  BY DEF HaAlign, BarmanLeader, HaBackup, BackupComplete, HaFail, Become, Goto
<1>6. Leads(p, pc[p], t) /\ pc'[p] # "ha_close" /\ pc[p] # "ha_close"
  BY <1>1, <1>2, <1>5 DEF Leads, Host, HostTypes
<1>7. archive \subseteq archive' /\ \A n \in Names \ {Name(p)} : inside'[n] = inside[n]
  BY <1>3 DEF HaAlign, BarmanLeader, HaBackup, BackupComplete
<1> QED
  BY <1>1, <1>2, <1>4, <1>5, <1>6, <1>7 DEF Works

LEMMA OthersWork ==
  ASSUME Host, ha \in [Procs -> Locals], NEW p \in Procs,
         \/ HaStopNode(p) \/ SecondMessage(p) \/ CountMessages(p) \/ HaStartNode(p) \/ HaArchived(p)
         \/ HaRestoreData(p) \/ HaReceipt(p)
  PROVE  Works(p)
<1>1. /\ pc[p] \in {"ha_stop", "ha_message", "ha_count", "ha_start", "ha_wal", "ha_restore", "ha_receipt"}
      /\ UNCHANGED <<cluster, marker, lock, arg, store, archive>>
  BY DEF HaStopNode, SecondMessage, CountMessages, HaStartNode, HaArchived, HaRestoreData, HaReceipt, hostVars
<1>2. pc[p] \in Working
  BY <1>1 DEF Working, Measuring
<1>3. Name(p) \in Names /\ DOMAIN inside = Names
  BY <1>2, WorkingIsInside
<1>4. \E h \in Locals : ha' = [ha EXCEPT ![p] = h] /\ h.stage = ha[p].stage
  <2>1. ha[p] \in Locals
    OBVIOUS
  <2>2. /\ [ha[p] EXCEPT !.stopped = FALSE] \in Locals /\ [ha[p] EXCEPT !.stopped = FALSE].stage = ha[p].stage
        /\ [ha[p] EXCEPT !.stopped = FALSE, !.err = TRUE] \in Locals
        /\ [ha[p] EXCEPT !.stopped = FALSE, !.err = TRUE].stage = ha[p].stage
    BY <2>1 DEF Locals
  <2>3. CASE ha' = ha \/ HaFail(p)
    BY <2>3, SameLocals, FailedLocals
  <2>4. CASE \/ ha' = [ha EXCEPT ![p] = [ha[p] EXCEPT !.stopped = FALSE]]
             \/ ha' = [ha EXCEPT ![p] = [ha[p] EXCEPT !.stopped = FALSE, !.err = TRUE]]
    BY <2>2, <2>4
  <2> QED
    BY <2>3, <2>4 DEF HaStopNode, SecondMessage, CountMessages, HaStartNode, HaArchived, HaRestoreData, HaReceipt, Become
<1>5. \E t : pc' = [pc EXCEPT ![p] = t] /\ Leads(p, pc[p], t)
  <2> USE DEF HaFail, Become, Goto, Leads, Measuring
  <2>1. CASE HaStopNode(p)
    BY <2>1 DEF HaStopNode
  <2>2. CASE SecondMessage(p)
    <3>1. pc[p] = "ha_message" /\ \E t \in {"ha_count", "ha_message", "ha_finally"} : pc' = [pc EXCEPT ![p] = t]
      BY <2>2 DEF SecondMessage
    <3> QED
      BY <3>1
  <2>3. CASE CountMessages(p)
    BY <2>3 DEF CountMessages
  <2>4. CASE HaStartNode(p)
    BY <2>4 DEF HaStartNode
  <2>5. CASE HaArchived(p)
    BY <2>5 DEF HaArchived
  <2>6. CASE HaRestoreData(p)
    BY <2>6 DEF HaRestoreData
  <2>7. CASE HaReceipt(p)
    BY <2>7 DEF HaReceipt
  <2> QED
    BY <2>1, <2>2, <2>3, <2>4, <2>5, <2>6, <2>7
<1>6. \A n \in Names \ {Name(p)} : inside'[n] = inside[n]
  BY <1>3 DEF HaStopNode, SecondMessage, CountMessages, HaStartNode, HaArchived, HaRestoreData, HaReceipt, hostVars
<1>7. pc[p] # "ha_close"
  BY <1>1
<1>8. ASSUME pc'[p] = "ha_close"
      PROVE  inside' = inside /\ archive' = archive /\ Data(Site(p)) \subseteq archive
  <2>1. ASSUME NEW t, pc' = [pc EXCEPT ![p] = t]
        PROVE  t = "ha_close"
    BY <1>8, <2>1 DEF Host, HostTypes
  <2>2. ~HaFail(p)
    BY <2>1 DEF HaFail, Become, Goto
  <2>3. ~(HaStopNode(p) \/ CountMessages(p) \/ HaRestoreData(p) \/ HaReceipt(p))
    BY <2>1, <2>2 DEF HaStopNode, CountMessages, HaRestoreData, HaReceipt, Goto
  <2>4. ~(SecondMessage(p) \/ HaStartNode(p))
    <3>1. ASSUME SecondMessage(p)
          PROVE  \E t \in {"ha_count", "ha_message"} : pc' = [pc EXCEPT ![p] = t]
      BY <2>2, <3>1 DEF SecondMessage, Goto
    <3>2. ASSUME HaStartNode(p)
          PROVE  \E t \in {"ha_backup", "ha_finally"} : pc' = [pc EXCEPT ![p] = t]
      BY <2>2, <3>2 DEF HaStartNode, Become, Goto
    <3> QED
      BY <2>1, <3>1, <3>2
  <2>5. HaArchived(p)
    BY <2>3, <2>4
  <2> QED
    BY <2>2, <2>5 DEF HaArchived, hostVars
<1> QED
  BY <1>1, <1>2, <1>4, <1>5, <1>6, <1>7, <1>8 DEF Works
-----------------------------------------------------------------------------
(* What a step of one invocation may do to what the others rely on *)

PrimaryName == NameOf[HaPrimary]

Effects(p) ==
    /\ \A q \in Procs \ {p} : pc'[q] = pc[q] /\ arg'[q] = arg[q] /\ ha'[q] = ha[q]
    /\ \/ cluster'[PrimaryName] = cluster[PrimaryName] \/ cluster[PrimaryName] = NoCluster
       \/ HaTool(p) /\ Active(p) /\ Bound(p) = Bound(cluster[PrimaryName])
    /\ \A s \in Sites : \/ marker'[s] \in {marker[s], NoBinding}
                        \/ marker'[s] = Bound(p) /\ Site(p) = s /\ Active(p) /\ pc[p] # "idle"
    /\ \A r \in {"container", "volume"} :
          \/ store'[r] = store[r]
          \/ HaTool(p) /\ Active(p) /\ store[r] = Bound(p) /\ store'[r] = NoBinding
          \/ Primary(p) /\ store[r] = NoBinding /\ store'[r] = Bound(p)
    /\ archive \subseteq archive' \/ (pc[p] = "rm_volume" /\ HaTool(p))
    /\ Data(HaPrimary)' \subseteq Data(HaPrimary) \/ Primary(p)

LEMMA ToolOfSite ==
  ASSUME Host, SeparateSites, NEW p \in Procs, pc[p] # "idle"
  PROVE  /\ Site(p) \in {HaPrimary, HaRestore} => HaTool(p)
         /\ Site(p) \in ReferenceSites => ProofTool(p)
<1>1. arg[p] \in Args /\ AtItsSite(p)
  BY ArgOf DEF Host
<1> QED
  BY <1>1 DEF Args, Commands, AtItsSite, SeparateSites, HaTool, ProofTool, Site

\* Two invocations of the tool that run have different bindings.
LEMMA BindingsDiffer ==
  ASSUME Proven, NEW p \in Procs, NEW q \in Procs, p # q, Active(p), Active(q),
         (HaTool(p) /\ HaTool(q)) \/ (ProofTool(p) /\ ProofTool(q) /\ Site(p) = Site(q))
  PROVE  Bound(p) # Bound(q)
<1>1. OneAtATime(p, q)
  BY DEF Proven
<1>2. arg[p].owner # arg[q].owner
  BY <1>1 DEF OneAtATime, Site
<1>3. Bound(p).owner = arg[p].owner /\ Bound(q).owner = arg[q].owner
  BY DEF Bound
<1> QED
  BY <1>2, <1>3

LEMMA StepsAreActive ==
  ASSUME Host, Kept, NEW q \in Procs
  PROVE  /\ Primary(q) \/ Retiring(q) => HaTool(q) /\ Active(q) /\ pc[q] # "idle"
         /\ pc[q] \in Cleaning => Active(q) /\ pc[q] # "idle"
         /\ pc[q] \in {"delete_kubeconfig", "deleted", "absent"} => Active(q) /\ pc[q] # "idle"
<1>1. (Inhabited \cup Cleaning \cup {"delete_if_present", "kind_delete", "delete_kubeconfig", "deleted", "absent"})
         \cap (Terminal \cup {"idle"}) = {}
  BY DEF Inhabited, Early, Storing, Operating, Measuring, Closing, Cleaning, Deleting, Terminal
<1> QED
  BY <1>1 DEF Primary, Retiring, HaProof, HaTool, Active

LEMMA OthersKeep ==
  ASSUME Host, Proven, Kept, SeparateSites, NEW p \in Procs, Effects(p), NEW q \in Procs, q # p
  PROVE  Tidy(q)'
<1>1. pc'[q] = pc[q] /\ arg'[q] = arg[q] /\ ha'[q] = ha[q] /\ Tidy(q)
  BY DEF Effects, Kept
<1>2. /\ Site(q)' = Site(q) /\ Bound(q)' = Bound(q) /\ HaTool(q)' = HaTool(q) /\ HaProof(q)' = HaProof(q) /\ Active(q)' = Active(q)
      /\ Primary(q)' = Primary(q) /\ Retiring(q)' = Retiring(q)
  BY <1>1 DEF Site, Bound, HaTool, HaProof, Active, Primary, Retiring
<1>3. Local(q)' /\ Staged(q)' /\ InOrder(q)'
  <2>1. Local(q)'
    BY <1>1, <1>2 DEF Tidy, Local, HaIdle
  <2>2. Staged(q)'
    BY <1>1, <1>2 DEF Tidy, Staged
  <2>3. InOrder(q)'
    BY <1>1, <1>2 DEF Tidy, InOrder
  <2> QED
    BY <2>1, <2>2, <2>3
<1>4. Keeps(q)'
  <2>1. ASSUME Primary(q) \/ Retiring(q)
        PROVE  /\ cluster[PrimaryName] = q /\ cluster'[PrimaryName] = q /\ ~Primary(p) /\ Bound(q) # NoBinding
               /\ HaTool(q) /\ Active(q) /\ (HaTool(p) /\ Active(p) => Bound(p) # Bound(q))
    <3>1. HaTool(q) /\ Active(q) /\ pc[q] # "idle" /\ cluster[PrimaryName] = q
      BY <1>1, <2>1, StepsAreActive DEF Tidy, Keeps, PrimaryName
    <3>2. ~Primary(p) /\ Bound(q) # NoBinding /\ q # NoCluster
      <4>1. Primary(p) => cluster[PrimaryName] = p
        BY DEF Kept, Tidy, Keeps, PrimaryName
      <4> QED
        BY <3>1, <4>1, ArgOf, NullAssumption
    <3>3. HaTool(p) /\ Active(p) => Bound(p) # Bound(q)
      BY <3>1, BindingsDiffer
    <3> QED
      BY <3>1, <3>2, <3>3 DEF Effects
  <2>2. ASSUME Primary(q), pc[q] = "ha_volume"
        PROVE  store'["volume"] = NoBinding
    BY <1>1, <2>1, <2>2 DEF Effects, Tidy, Keeps
  <2>3. ASSUME (Primary(q) /\ pc[q] \in {"ha_container"} \cup Operating \cup Measuring \cup Closing) \/ Retiring(q)
        PROVE  store["volume"] = Bound(q) /\ store'["volume"] = Bound(q)
    <3>1. store["volume"] = Bound(q)
      BY <1>1, <2>3, Zenon DEF Tidy, Keeps
    <3> QED
      BY <2>1, <2>3, <3>1 DEF Effects
  <2>4. ASSUME (Primary(q) /\ pc[q] \in Closing) \/ Retiring(q)
        PROVE  (Data(HaPrimary) \subseteq archive)'
    <3>1. Data(HaPrimary) \subseteq archive
      BY <1>1, <2>4 DEF Tidy, Keeps
    <3>2. archive \subseteq archive'
      <4>1. ASSUME pc[p] = "rm_volume", HaTool(p)
            PROVE  FALSE
        <5>1. store["volume"] = Bound(p) /\ Active(p)
          BY <4>1 DEF Proven, Inspected, Active, Terminal
        <5> QED
          BY <2>1, <2>3, <2>4, <4>1, <5>1
      <4> QED
        BY <4>1 DEF Effects
    <3>3. Data(HaPrimary)' \subseteq Data(HaPrimary)
      BY <2>1, <2>4 DEF Effects
    <3> QED
      BY <3>1, <3>2, <3>3
  <2> QED
    BY <1>1, <1>2, <2>1, <2>2, <2>3, <2>4 DEF Keeps, PrimaryName
<1>5. ASSUME NEW s \in Sites, Active(q), pc[q] # "idle",
             (HaTool(q) /\ s \in {HaPrimary, HaRestore}) \/ (ProofTool(q) /\ s = Site(q) /\ s \in ReferenceSites), marker[s] # Bound(q)
      PROVE  marker'[s] # Bound(q)
  <2>1. CASE marker'[s] \in {marker[s], NoBinding}
    BY <1>5, <2>1, ArgOf
  <2>2. CASE marker'[s] = Bound(p) /\ Site(p) = s /\ Active(p) /\ pc[p] # "idle"
    <3>1. s \in {HaPrimary, HaRestore} => HaTool(p)
      BY <2>2, ToolOfSite
    <3>2. s \in ReferenceSites => ProofTool(p)
      BY <2>2, ToolOfSite
    <3> QED
      BY <1>5, <2>2, <3>1, <3>2, BindingsDiffer
  <2> QED
    BY <2>1, <2>2 DEF Effects
<1>6. ASSUME NEW r \in {"container", "volume"}, Active(q), pc[q] # "idle", HaTool(q), store[r] # Bound(q)
      PROVE  store'[r] # Bound(q)
  <2>1. Primary(p) => HaTool(p) /\ Active(p)
    BY StepsAreActive
  <2> QED
    BY <1>6, <2>1, BindingsDiffer, ArgOf DEF Effects
<1>7. Cleared(q)'
  <2> SUFFICES ASSUME arg[q].cmd = "ha_down", pc[q] \in Cleaning, ~ha[q].dirty
               PROVE  /\ \A s \in {HaPrimary, HaRestore} : Pending(q, s)' \/ marker'[s] # Bound(q)
                      /\ pc[q] \in {"store_volume", "rm_volume", "store_done", "ha_exit"} => store'["container"] # Bound(q)
                      /\ pc[q] \in {"store_done", "ha_exit"} => store'["volume"] # Bound(q)
    BY <1>1, <1>2 DEF Cleared
  <2>1. HaTool(q) /\ Active(q) /\ pc[q] # "idle" /\ Cleared(q)
    BY <1>1, StepsAreActive DEF HaTool, Tidy
  <2>2. ASSUME NEW s \in {HaPrimary, HaRestore}
        PROVE  Pending(q, s)' \/ marker'[s] # Bound(q)
    <3>1. Pending(q, s)' = Pending(q, s)
      BY <1>1, <1>2 DEF Pending
    <3> QED
      BY <1>5, <2>1, <3>1, HaAssumption DEF Cleared
  <2> QED
    BY <1>6, <2>1, <2>2 DEF Cleared
<1>8. Vacated(q)'
  <2> SUFFICES ASSUME arg[q].cmd = "down", pc[q] \in {"delete_kubeconfig", "deleted", "absent"}
               PROVE  marker'[Site(q)] # Bound(q)
    BY <1>1, <1>2 DEF Vacated
  <2>1. Active(q) /\ pc[q] # "idle" /\ Vacated(q) /\ ProofTool(q)
    BY <1>1, StepsAreActive DEF ProofTool, Tidy
  <2>2. Site(q) \in ReferenceSites /\ Site(q) \in Sites
    BY <2>1, ArgOf DEF Host, AtItsSite, Site
  <2> QED
    BY <1>5, <2>1, <2>2 DEF Vacated
<1> QED
  BY <1>3, <1>4, <1>7, <1>8 DEF Tidy
LEMMA HaSites ==
  ASSUME Host, NEW p \in Procs, HaTool(p)
  PROVE  Site(p) \in {HaPrimary, HaRestore} /\ (Name(p) = PrimaryName <=> Site(p) = HaPrimary) /\ PrimaryName \in Names
BY HaAssumption DEF Host, AtItsSite, HaTool, Site, Name, PrimaryName, Names

\* Data are the mutations among the phases.
LEMMA SmallerData ==
  ASSUME inside'[PrimaryName].phases \subseteq inside[PrimaryName].phases
  PROVE  Data(HaPrimary)' \subseteq Data(HaPrimary)
BY DEF Data, PrimaryName

\* For a proof the parts about down say nothing.
LEMMA ProofIsTidy ==
  ASSUME NEW p \in Procs, HaProof(p)', Local(p)', Staged(p)', Keeps(p)'
  PROVE  Tidy(p)'
BY DEF Tidy, HaProof, InOrder, Cleared, Vacated

\* A step at its cluster is one of a proof that still has it.
LEMMA WorkingAtPrimary ==
  ASSUME Host, Kept, NEW p \in Procs, pc[p] \in Working
  PROVE  HaProof(p) /\ (Site(p) = HaPrimary => Primary(p))
<1>1. HaTool(p) /\ pc[p] \notin {"ha_finally"} \cup Cleaning \cup Terminal /\ Tidy(p)
  BY WorkingIsInside DEF Kept
<1>2. HaProof(p)
  BY <1>1 DEF HaTool, HaProof, Tidy, InOrder
<1>3. ASSUME Site(p) = HaPrimary
      PROVE  ha[p].stage = "primary" /\ pc[p] \in Inhabited
  <2>1. ha[p].stage # "restore" /\ Staged(p)
    BY <1>1, <1>2, <1>3, HaAssumption DEF Tidy, Staged
  <2>2. pc[p] \in ({"ha_dns"} \cup Operating \cup AtPrimary) /\ pc[p] \in Inhabited
    BY <1>2, <2>1 DEF Staged, Working, AtPrimary, Early, Inhabited, Closing
  <2> QED
    BY <1>2, <2>1, <2>2 DEF Staged
<1> QED
  BY <1>2, <1>3 DEF Primary

LEMMA WorksHasEffects ==
  ASSUME Host, Kept, NEW p \in Procs, Works(p)
  PROVE  Effects(p)
<1>1. pc[p] \in Working /\ HaTool(p)
  BY WorkingIsInside DEF Works
<1>2. \A q \in Procs \ {p} : pc'[q] = pc[q] /\ arg'[q] = arg[q] /\ ha'[q] = ha[q]
  BY DEF Works, Kept, Host, HostTypes
<1>3. Data(HaPrimary)' \subseteq Data(HaPrimary) \/ Primary(p)
  <2>1. CASE Site(p) = HaPrimary
    BY <1>1, <2>1, WorkingAtPrimary
  <2>2. CASE Site(p) # HaPrimary
    <3>1. inside'[PrimaryName] = inside[PrimaryName]
      BY <1>1, <2>2, HaSites DEF Works
    <3> QED
      BY <3>1, SmallerData
  <2> QED
    BY <2>1, <2>2
<1> QED
  BY <1>2, <1>3 DEF Works, Effects

LEMMA WorksIsTidy ==
  ASSUME Host, Kept, NEW p \in Procs, Works(p)
  PROVE  Tidy(p)' /\ ha' \in [Procs -> Locals]
<1>1. /\ pc[p] \in Working /\ HaTool(p) /\ Active(p) /\ HaProof(p) /\ Tidy(p)
      /\ Site(p) = HaPrimary => Primary(p)
  BY WorkingIsInside, WorkingAtPrimary DEF Works, Kept
<1>2. /\ arg' = arg /\ HaProof(p)' /\ HaTool(p)' /\ Site(p)' = Site(p) /\ Bound(p)' = Bound(p)
  BY <1>1 DEF Works, HaProof, HaTool, Site, Bound
<1>3. PICK h \in Locals : ha' = [ha EXCEPT ![p] = h] /\ h.stage = ha[p].stage
  BY DEF Works
<1>4. PICK t : pc' = [pc EXCEPT ![p] = t] /\ Leads(p, pc[p], t)
  BY DEF Works
<1>5. ha' \in [Procs -> Locals] /\ ha'[p].stage = ha[p].stage /\ pc'[p] = t
  BY <1>3, <1>4 DEF Kept, Host, HostTypes
<1>6. /\ t \in {"ha_finally", "ha_store"} \cup Early \cup Operating \cup Measuring \cup Closing \cup {"ha_restore", "ha_receipt"}
      /\ t \notin Terminal \cup {"idle", "delete", "ha", "ha_capacity", "ha_cleanup", "delete_if_present", "kind_delete"} \cup Creating
  BY <1>4 DEF Leads, Early, Operating, Measuring, Closing, Terminal, Creating
<1>7. Local(p)'
  BY <1>1, <1>2, <1>5, <1>6 DEF Local, Active
<1>8. Staged(p) /\ HaPrimary # HaRestore
  BY <1>1, HaAssumption DEF Tidy
<1>9. Staged(p)'
  <2>1. /\ ha[p].stage \in {"primary", "retire"} => Site(p) = HaPrimary
        /\ ha[p].stage = "restore" => Site(p) = HaRestore
    BY <1>1, <1>8 DEF Staged
  <2>2. ASSUME t \in {"ha_dns"} \cup Operating
        PROVE  ha[p].stage \in {"primary", "restore"}
    <3>1. pc[p] \in Early \cup Operating
      BY <1>4, <2>2 DEF Leads, Early, Operating, Measuring
    <3> QED
      BY <1>1, <1>8, <3>1 DEF Staged, AtPrimary, Early
  <2>3. ASSUME t \in AtPrimary
        PROVE  ha[p].stage = "primary"
    <3>1. pc[p] \in AtPrimary \/ Site(p) = HaPrimary
      BY <1>1, <1>4, <2>3 DEF Leads, Early, Operating, Measuring, AtPrimary, Storing, Closing
    <3> QED
      BY <1>1, <1>8, <3>1 DEF Staged, Primary
  <2>4. ASSUME t \in {"ha_restore", "ha_receipt"}
        PROVE  ha[p].stage = "restore"
    <3>1. pc[p] = "ha_restore" \/ (pc[p] = "ha_barman_images" /\ Site(p) # HaPrimary)
      BY <1>4, <2>4 DEF Leads, Early, Operating, Measuring
    <3> QED
      BY <1>1, <1>8, <3>1 DEF Staged, Operating
  <2> QED
    BY <1>2, <1>5, <1>6, <2>1, <2>2, <2>3, <2>4 DEF Staged
<1>10. Keeps(p)'
  <2>1. ~Retiring(p)'
    BY <1>5, <1>6 DEF Retiring
  <2>2. ASSUME Primary(p)'
        PROVE  Primary(p) /\ Site(p) = HaPrimary /\ cluster'[NameOf[HaPrimary]] = p /\ t # "ha_volume" /\ t # "ha_container"
    <3>1. ha[p].stage = "primary" /\ Site(p) = HaPrimary /\ Primary(p)
      BY <1>1, <1>5, <1>8, <2>2 DEF Primary, Staged
    <3>2. t # "ha_volume" /\ t # "ha_container"
      BY <1>6 DEF Early, Operating, Measuring, Closing
    <3> QED
      BY <1>1, <3>1, <3>2 DEF Tidy, Keeps, Works
  <2>3. ASSUME Primary(p)', t \in Operating \cup Measuring \cup Closing
        PROVE  store'["volume"] = Bound(p)
    <3>1. pc[p] \in Operating \cup Measuring \cup Closing
      BY <1>4, <2>2, <2>3 DEF Leads, Early, Operating, Measuring, Closing
    <3>2. Keeps(p) /\ store' = store
      BY <1>1 DEF Tidy, Works
    <3> QED
      BY <2>2, <2>3, <3>1, <3>2, Zenon DEF Keeps
  <2>4. ASSUME Primary(p)', t \in Closing
        PROVE  (Data(HaPrimary) \subseteq archive)'
    <3>1. CASE t = "ha_close"
      BY <1>5, <2>2, <2>4, <3>1 DEF Works, Data
    <3>2. CASE t = "ha_retire"
      <4>1. pc[p] = "ha_close"
        BY <1>4, <3>2 DEF Leads, Early, Operating, Measuring
      <4>2. Data(HaPrimary) \subseteq archive
        BY <1>1, <2>2, <2>4, <4>1 DEF Tidy, Keeps, Closing
      <4>3. archive' = archive /\ inside'[Name(p)].phases \subseteq inside[Name(p)].phases
        BY <4>1 DEF Works
      <4>4. Name(p) = PrimaryName
        BY <2>2, <2>4 DEF Name, PrimaryName
      <4> QED
        BY <4>2, <4>3, <4>4, SmallerData
    <3> QED
      BY <2>4, <3>1, <3>2 DEF Closing
  <2> QED
    BY <1>2, <1>5, <2>1, <2>2, <2>3, <2>4 DEF Keeps
<1> QED
  BY <1>2, <1>5, <1>7, <1>9, <1>10, ProofIsTidy
-----------------------------------------------------------------------------
(* The steps of KindCluster *)

\* A deletion: what is left of the marker.
LEMMA KindDeletes ==
  ASSUME Host, NEW p \in Procs, KindStep(p), pc[p] \in Deleting
  PROVE  /\ pc[p] \notin {"deleted", "absent"} /\ pc'[p] \in Deleting \cup {"raise"} /\ pc'[p] # "delete"
         /\ \/ pc'[p] \in Standing
            \/ pc'[p] = "delete_kubeconfig" /\ marker'[Site(p)] = NoBinding
            \/ pc'[p] = "deleted" /\ pc[p] = "delete_kubeconfig" /\ marker' = marker
            \/ pc'[p] = "absent" /\ marker' = marker /\ marker[Site(p)] = NoBinding
         /\ pc'[p] \in {"delete_if_present", "kind_delete"} =>
               pc[p] \in {"delete", "delete_if_present"} /\ cluster' = cluster /\ inside' = inside
<1>1. DOMAIN pc = Procs /\ DOMAIN marker = Sites /\ Site(p) \in Sites
  BY ArgOf DEF Host, HostTypes, Deleting
<1>2. DeleteOwned(p) \/ KindDelete(p) \/ RemoveMarker(p) \/ RemoveKubeconfig(p)
  BY DEF KindStep, Reserve, KindCreate, ConfigureAccess, Rollback, TryAgain, RequireOwned, ExportKubeconfig, Deleting
<1>3. CASE DeleteOwned(p)
  <2>1. /\ pc[p] \in {"delete", "delete_if_present"} /\ UNCHANGED <<cluster, inside, marker>>
        /\ \/ pc' = [pc EXCEPT ![p] = "kind_delete"] \/ pc' = [pc EXCEPT ![p] = "raise"]
           \/ pc' = [pc EXCEPT ![p] = "absent"] /\ marker[Site(p)] = NoBinding
    BY <1>3 DEF DeleteOwned, Goto
  <2> QED
    BY <1>1, <2>1 DEF Standing, Deleting
<1>4. CASE KindDelete(p)
  <2>1. /\ pc[p] = "kind_delete"
        /\ pc' = [pc EXCEPT ![p] = "delete_marker"] \/ pc' = [pc EXCEPT ![p] = "raise"]
    BY <1>4 DEF KindDelete, Goto
  <2> QED
    BY <1>1, <2>1 DEF Standing, Deleting
<1>5. CASE RemoveMarker(p)
  <2>1. pc[p] = "delete_marker" /\ pc' = [pc EXCEPT ![p] = "delete_kubeconfig"] /\ marker' = [marker EXCEPT ![Site(p)] = NoBinding]
    BY <1>5 DEF RemoveMarker, Goto, Deleting
  <2> QED
    BY <1>1, <2>1 DEF Standing, Deleting
<1>6. CASE RemoveKubeconfig(p)
  <2>1. pc[p] = "delete_kubeconfig" /\ pc' = [pc EXCEPT ![p] = "deleted"] /\ marker' = marker
    BY <1>6 DEF RemoveKubeconfig, Goto, Deleting
  <2> QED
    BY <1>1, <2>1 DEF Standing, Deleting
<1> QED
  BY <1>2, <1>3, <1>4, <1>5, <1>6

LEMMA KindHasEffects ==
  ASSUME Host, Owned, Kept, DistinctNames, SeparateSites, NEW p \in Procs, KindStep(p), UNCHANGED haVars
  PROVE  Effects(p) /\ Active(p) /\ pc[p] # "idle" /\ arg' = arg
<1>1. KindMoves(p) /\ HostTypes
  BY KindStepMoves DEF Host
<1>2. pc[p] \in Creating \cup Requiring \cup Deleting /\ arg' = arg
  BY <1>1 DEF KindMoves
<1>3. pc[p] # "idle" /\ Active(p)
  BY <1>2 DEF Creating, Requiring, Deleting, Active, Terminal
<1>4. Site(p) \in Sites /\ Name(p) \in Names /\ PrimaryName \in Names /\ HaPrimary \in Sites
  BY <1>3, ArgOf, HaAssumption DEF PrimaryName, Names
<1>5. \A q \in Procs \ {p} : pc'[q] = pc[q] /\ arg'[q] = arg[q] /\ ha'[q] = ha[q]
  BY <1>1 DEF KindMoves, HostTypes, haVars
<1>6. \/ cluster'[PrimaryName] = cluster[PrimaryName] \/ cluster[PrimaryName] = NoCluster
      \/ HaTool(p) /\ Active(p) /\ Bound(p) = Bound(cluster[PrimaryName])
  <2>1. ASSUME cluster'[PrimaryName] # cluster[PrimaryName], cluster[PrimaryName] # NoCluster
        PROVE  HaTool(p) /\ Bound(p) = Bound(cluster[PrimaryName])
    <3>1. Name(p) = PrimaryName /\ Bound(p) = Bound(cluster[PrimaryName])
      BY <1>4, <2>1, KindChangesOwn
    <3>2. Site(p) = HaPrimary
      BY <1>4, <3>1 DEF DistinctNames, Name, PrimaryName
    <3> QED
      BY <1>3, <3>1, <3>2, ToolOfSite
  <2> QED
    BY <1>3, <2>1
<1>7. ASSUME NEW s \in Sites
      PROVE  \/ marker'[s] \in {marker[s], NoBinding}
             \/ marker'[s] = Bound(p) /\ Site(p) = s /\ Active(p) /\ pc[p] # "idle"
  BY <1>1, <1>3, <1>4 DEF KindMoves, HostTypes
<1>8. Data(HaPrimary)' \subseteq Data(HaPrimary)
  <2>1. inside' = inside \/ inside' = [inside EXCEPT ![Name(p)] = Empty]
    BY <1>1 DEF KindMoves
  <2>2. inside'[PrimaryName] = inside[PrimaryName] \/ inside'[PrimaryName] = Empty
    BY <1>1, <1>4, <2>1 DEF HostTypes
  <2>3. Empty.phases = {}
    BY DEF Empty
  <2> QED
    BY <2>2, <2>3, SmallerData
<1>9. store' = store /\ archive' = archive
  BY DEF haVars
<1> QED
  BY <1>2, <1>3, <1>5, <1>6, <1>7, <1>8, <1>9 DEF Effects

LEMMA KindIsTidy ==
  ASSUME Host, Owned, Kept, DistinctNames, SeparateSites, NEW p \in Procs, KindStep(p), UNCHANGED haVars
  PROVE  Tidy(p)'
<1>1. KindMoves(p) /\ HostTypes /\ Tidy(p) /\ Active(p) /\ pc[p] # "idle" /\ arg' = arg /\ ha' = ha /\ store' = store /\ archive' = archive
  BY KindStepMoves, KindHasEffects DEF Host, Kept, haVars
<1>2. /\ HaProof(p)' = HaProof(p) /\ HaTool(p)' = HaTool(p) /\ Site(p)' = Site(p) /\ Bound(p)' = Bound(p)
      /\ Site(p) \in Sites /\ Bound(p) # NoBinding
  BY <1>1, ArgOf DEF HaProof, HaTool, Site, Bound
<1>3. /\ pc'[p] \in Creating \cup Requiring \cup Deleting \cup {"raise"}
      /\ pc[p] \in Creating => pc'[p] \in Creating \cup {"raise"}
      /\ pc[p] \in Deleting => pc'[p] \in Deleting \cup {"raise"}
      /\ pc[p] \in Requiring => pc'[p] \in Requiring \cup {"raise"}
      /\ pc[p] \in Creating \cup Requiring \cup Deleting
  <2>1. Creating \cap Requiring = {} /\ Creating \cap Deleting = {} /\ Requiring \cap Deleting = {}
    BY DEF Creating, Requiring, Deleting
  <2> QED
    BY <1>1, <2>1 DEF KindMoves, HostTypes
<1>4. HaTool(p) => pc[p] \in Creating \cup Deleting
  BY <1>3, Zenon DEF Host, Program, HaTool, NotHa
<1>5. pc'[p] # "delete"
  <2>1. CASE pc[p] \in Deleting
    BY <2>1, KindDeletes
  <2>2. CASE pc[p] \notin Deleting
    BY <1>1, <2>2 DEF KindMoves, Creating, Requiring, HostTypes
  <2> QED
    BY <2>1, <2>2
<1>6. Local(p)'
  <2>1. pc'[p] \notin Terminal \cup {"idle"}
    BY <1>3 DEF Creating, Requiring, Deleting, Terminal
  <2> QED
    BY <1>1, <1>2, <1>5, <2>1 DEF Local, Tidy, Active
<1>7. Staged(p)'
  <2> SUFFICES ASSUME HaProof(p)
               PROVE  Staged(p)'
    BY <1>2 DEF Staged
  <2>1. HaTool(p) /\ Staged(p)
    BY <1>1 DEF HaProof, HaTool, Tidy
  <2>2. pc'[p] \notin {"ha", "ha_capacity", "ha_dns", "ha_restore", "ha_receipt", "ha_cleanup"} \cup Operating \cup AtPrimary
    BY <1>3 DEF Creating, Requiring, Deleting, Operating, AtPrimary, Early, Storing, Measuring, Closing
  <2>3. pc'[p] \in Creating => pc[p] \in Creating
    BY <1>3, <1>4, <2>1 DEF Creating, Deleting
  <2> QED
    BY <1>1, <1>2, <2>1, <2>2, <2>3 DEF Staged
<1>8. Keeps(p)'
  <2>1. ASSUME Primary(p)'
        PROVE  pc'[p] = "created" /\ cluster'[NameOf[HaPrimary]] = p
    <3>1. pc'[p] = "created"
      BY <1>3, <2>1 DEF Primary, Inhabited, Creating, Requiring, Deleting, Early, Storing, Operating, Measuring, Closing
    <3>2. HaProof(p) /\ ha[p].stage = "primary" /\ Site(p) = HaPrimary
      BY <1>1, <1>2, <2>1 DEF Primary, Tidy, Staged
    <3>3. ConfigureAccess(p)
      <4>1. pc[p] \in Creating
        BY <1>3, <3>1 DEF Creating, Requiring, Deleting
      <4>2. ~(Reserve(p) \/ KindCreate(p) \/ Rollback(p) \/ RemoveMarker(p) \/ RemoveKubeconfig(p) \/ TryAgain(p))
        BY <1>1, <3>1 DEF Reserve, KindCreate, Rollback, RemoveMarker, RemoveKubeconfig, TryAgain, Goto, HostTypes
      <4>3. ~(RequireOwned(p) \/ ExportKubeconfig(p) \/ DeleteOwned(p) \/ KindDelete(p))
        BY <4>1 DEF RequireOwned, ExportKubeconfig, DeleteOwned, KindDelete, Creating
      <4> QED
        BY <4>2, <4>3 DEF KindStep
    <3>4. pc[p] = "access" /\ cluster' = cluster /\ cluster[Name(p)] # NoCluster
      BY <1>1, <3>1, <3>3 DEF ConfigureAccess, Goto, HostTypes
    <3>5. cluster[Name(p)] = p
      BY <3>4 DEF Owned, Reserved
    <3> QED
      BY <3>1, <3>2, <3>4, <3>5 DEF Name
  <2>2. ASSUME Retiring(p)'
        PROVE  Retiring(p) /\ cluster' = cluster /\ inside' = inside
    <3>1. HaProof(p) /\ HaTool(p) /\ ha[p].stage = "retire" /\ pc'[p] \in {"delete_if_present", "kind_delete"}
      BY <1>1, <1>2, <2>2 DEF Retiring, HaProof, HaTool
    <3>2. pc[p] \in Deleting /\ pc[p] # "delete"
      BY <1>1, <1>3, <1>4, <3>1 DEF Creating, Deleting, Tidy, Local
    <3> QED
      BY <3>1, <3>2, KindDeletes DEF Retiring
  <2>3. "created" \notin {"ha_volume", "ha_container"} \cup Operating \cup Measuring \cup Closing
    BY DEF Operating, Measuring, Closing
  <2>4. Keeps(p)
    BY <1>1 DEF Tidy
  <2>5. Retiring(p)' => /\ cluster'[NameOf[HaPrimary]] = p /\ store'["volume"] = Bound(p)
                        /\ (Data(HaPrimary) \subseteq archive)'
    <3> SUFFICES ASSUME Retiring(p)'
                 PROVE  /\ cluster'[NameOf[HaPrimary]] = p /\ store'["volume"] = Bound(p)
                        /\ (Data(HaPrimary) \subseteq archive)'
      OBVIOUS
    <3>1. Retiring(p) /\ cluster' = cluster /\ inside' = inside
      BY <2>2
    <3>2. cluster[NameOf[HaPrimary]] = p /\ store["volume"] = Bound(p) /\ Data(HaPrimary) \subseteq archive
      BY <2>4, <3>1, Zenon DEF Keeps
    <3> QED
      BY <1>1, <3>1, <3>2 DEF Data
  <2> QED
    BY <1>1, <1>2, <2>1, <2>3, <2>5 DEF Keeps
<1>9. InOrder(p)'
  <2> SUFFICES ASSUME arg[p].cmd = "ha_down"
               PROVE  InOrder(p)'
    BY <1>1 DEF InOrder
  <2>1. InOrder(p) /\ pc[p] \in Deleting
    <3>1. InOrder(p) /\ pc[p] \in {"ha_finally"} \cup Cleaning \cup Terminal
      BY <1>1 DEF InOrder, Tidy
    <3>2. pc[p] \notin Creating
      BY <3>1 DEF Cleaning, Creating, Deleting, Terminal
    <3> QED
      BY <1>4, <3>1, <3>2 DEF HaTool
  <2>2. pc'[p] \in Deleting \cup {"raise"} /\ pc'[p] \in Cleaning /\ pc'[p] # "ha_finally" /\ pc[p] \in Cleaning
    BY <1>3, <1>5, <2>1, <1>1 DEF Cleaning, Deleting, InOrder, Terminal
  <2> QED
    BY <1>1, <2>1, <2>2, Zenon DEF InOrder
<1>10. ASSUME HaTool(p) \/ ProofTool(p), pc'[p] \in {"delete_kubeconfig", "deleted", "absent"}, marker[Site(p)] # Bound(p) \/ pc[p] # "delete_kubeconfig"
       PROVE  marker'[Site(p)] # Bound(p)
  <2>1. pc[p] \in Deleting
    BY <1>1, <1>10 DEF KindMoves, Creating, Requiring, HostTypes
  <2>2. pc'[p] \notin Standing
    BY <1>10 DEF Standing
  <2> QED
    BY <1>2, <1>10, <2>1, <2>2, KindDeletes
<1>11. Cleared(p)'
  <2> SUFFICES ASSUME arg[p].cmd = "ha_down", ~ha[p].dirty
               PROVE  /\ \A s \in {HaPrimary, HaRestore} : Pending(p, s)' \/ marker'[s] # Bound(p)
                      /\ pc'[p] \notin {"store_volume", "rm_volume", "store_done", "ha_exit"}
    BY <1>1, <1>2 DEF Cleared
  <2>1. pc[p] \in Cleaning /\ pc[p] \in Deleting
    <3>1. InOrder(p) /\ pc[p] \in {"ha_finally"} \cup Cleaning \cup Terminal
      BY <1>1 DEF InOrder, Tidy
    <3> QED
      BY <1>3, <1>4, <3>1 DEF HaTool, Creating, Cleaning, Deleting, Terminal
  <2>2. pc'[p] \notin {"store_volume", "rm_volume", "store_done", "ha_exit"}
    BY <1>3 DEF Creating, Requiring, Deleting
  <2>3. ASSUME NEW s \in {HaPrimary, HaRestore}
        PROVE  Pending(p, s)' \/ marker'[s] # Bound(p)
    <3>1. Pending(p, s) \/ marker[s] # Bound(p)
      BY <1>1, <2>1 DEF Tidy, Cleared
    <3>2. CASE s # Site(p)
      <4>1. marker'[s] = marker[s]
        BY <1>1, <1>2, <3>2, HaAssumption DEF KindMoves, HostTypes
      <4> QED
        BY <1>1, <3>1, <3>2, <4>1 DEF Pending
    <3>3. CASE s = Site(p)
      <4>1. CASE pc'[p] \in Standing
        BY <1>2, <3>3, <4>1 DEF Pending
      <4>2. CASE pc'[p] \notin Standing
        <5>1. pc'[p] \in {"delete_kubeconfig", "deleted", "absent"}
          BY <2>1, <4>2, KindDeletes
        <5>2. CASE pc[p] # "delete_kubeconfig" \/ marker[s] # Bound(p)
          BY <1>10, <3>3, <5>1, <5>2 DEF HaTool
        <5>3. CASE pc[p] = "delete_kubeconfig" /\ marker[s] = Bound(p)
          BY <1>1, <1>2, <3>1, <5>3 DEF Pending, Standing
        <5> QED
          BY <5>2, <5>3
      <4> QED
        BY <4>1, <4>2
    <3> QED
      BY <3>2, <3>3
  <2> QED
    BY <2>2, <2>3
<1>12. Vacated(p)'
  <2> SUFFICES ASSUME arg[p].cmd = "down", pc'[p] \in {"delete_kubeconfig", "deleted", "absent"}
               PROVE  marker'[Site(p)] # Bound(p)
    BY <1>1, <1>2 DEF Vacated
  <2>1. marker[Site(p)] # Bound(p) \/ pc[p] # "delete_kubeconfig"
    BY <1>1 DEF Tidy, Vacated
  <2> QED
    BY <1>10, <2>1 DEF ProofTool
<1> QED
  BY <1>6, <1>7, <1>8, <1>9, <1>11, <1>12 DEF Tidy
-----------------------------------------------------------------------------
(* The other steps of the tool *)

LEMMA HaStepSame ==
  ASSUME Host, NEW p \in Procs, HaMoves(p)
  PROVE  /\ \A q \in Procs \ {p} : pc'[q] = pc[q] /\ arg'[q] = arg[q]
         /\ HaTool(p) /\ Active(p) /\ pc[p] # "idle" /\ Bound(p)' = Bound(p) /\ arg'[p].cmd = arg[p].cmd
         /\ HaTool(p)' /\ HaProof(p)' = HaProof(p) /\ UNCHANGED <<cluster, marker>>
<1>1. OwnStep(p) /\ HaTool(p) /\ pc[p] \notin NotHa \cup Terminal /\ UNCHANGED <<cluster, marker>>
  BY HaIsOwn DEF HaMoves
<1>2. pc[p] # "idle" /\ pc[p] \notin Fresh
  BY <1>1 DEF NotHa, Fresh
<1>3. arg'[p].cmd = arg[p].cmd /\ arg'[p].owner = arg[p].owner /\ arg'[p].commit = arg[p].commit
  BY <1>1, <1>2 DEF OwnStep
<1> QED
  BY <1>1, <1>2, <1>3 DEF OwnStep, Active, Bound, HaTool, HaProof

\* Steps that touch neither the store nor the data.
LEMMA QuietHasEffects ==
  ASSUME Host, Kept, NEW p \in Procs, HaMoves(p), NEW h, ha' = [ha EXCEPT ![p] = h], store' = store, archive \subseteq archive',
         Data(HaPrimary)' \subseteq Data(HaPrimary)
  PROVE  Effects(p)
BY HaStepSame DEF Effects, Kept

\* A proof that is not, or no longer, at its clusters.
Outside == {"ha_finally", "ha_cleanup", "ha_exit", "store_container", "rm_container", "store_volume", "rm_volume", "store_done",
            "delete_if_present"} \cup Terminal

LEMMA OutsideIsTidy ==
  ASSUME NEW p \in Procs, HaProof(p)', pc'[p] \in Outside,
         pc'[p] \in Terminal => ha'[p].stage = "none",
         pc'[p] = "ha_cleanup" => ha'[p].stage = "cleanup",
         pc'[p] = "delete_if_present" => ha'[p].stage # "retire",
         ha'[p].stage \in {"primary", "retire"} => Site(p)' = HaPrimary,
         ha'[p].stage = "restore" => Site(p)' = HaRestore
  PROVE  Tidy(p)'
<1>1. /\ Outside \cap (Creating \cup {"idle", "delete", "ha", "ha_capacity", "ha_dns", "ha_restore", "ha_receipt", "kind_delete"}
                        \cup Operating \cup AtPrimary \cup Inhabited) = {}
  BY DEF Outside, Creating, Operating, AtPrimary, Inhabited, Early, Storing, Measuring, Closing, Terminal
<1>2. HaTool(p)'
  BY DEF HaProof, HaTool
<1>3. Local(p)'
  BY <1>1, <1>2 DEF Local, Active
<1>4. Staged(p)'
  BY <1>1 DEF Staged
<1>5. ~Primary(p)' /\ ~Retiring(p)'
  BY <1>1 DEF Primary, Retiring
<1> QED
  BY <1>3, <1>4, <1>5, ProofIsTidy DEF Keeps

LEMMA FailsTidily ==
  ASSUME Host, Kept, NEW p \in Procs, HaMoves(p), HaProof(p), arg' = arg, HaFail(p)
  PROVE  Tidy(p)' /\ ha' \in [Procs -> Locals] /\ \E h : ha' = [ha EXCEPT ![p] = h]
<1>1. PICK h \in Locals : ha' = [ha EXCEPT ![p] = h] /\ h.stage = ha[p].stage
  BY FailedLocals DEF Kept
<1>2. /\ ha' \in [Procs -> Locals] /\ ha'[p].stage = ha[p].stage /\ HaProof(p)' /\ Site(p)' = Site(p) /\ Tidy(p)
      /\ pc' = [pc EXCEPT ![p] = "ha_finally"] /\ pc'[p] = "ha_finally"
  <2>1. ha' \in [Procs -> Locals] /\ ha'[p].stage = ha[p].stage /\ Tidy(p)
    BY <1>1 DEF Kept
  <2>2. HaProof(p)' /\ Site(p)' = Site(p)
    BY DEF HaProof, Site
  <2>3. pc' = [pc EXCEPT ![p] = "ha_finally"] /\ DOMAIN pc = Procs
    BY DEF HaFail, Become, Goto, Host, HostTypes
  <2> QED
    BY <2>1, <2>2, <2>3
<1>3. "ha_finally" \in Outside /\ "ha_finally" \notin Terminal
  BY DEF Outside, Terminal
<1> QED
  BY <1>1, <1>2, <1>3, OutsideIsTidy DEF Tidy, Staged

\* What every step of the tool has to keep.
Keeping(p) == Tidy(p)' /\ Effects(p) /\ ha' \in [Procs -> Locals]

\* Steps before the first cluster, and what creating one returns.
LEMMA HaBeginsTidily ==
  ASSUME Host, Kept, NEW p \in Procs, HaMoves(p), HaTools(p) \/ HaPreflight(p)
  PROVE  Keeping(p)
<1>1. /\ pc[p] \in {"ha", "ha_capacity"} /\ UNCHANGED <<inside, arg, store, archive>> /\ ha \in [Procs -> Locals] /\ ha[p] \in Locals
      /\ DOMAIN pc = Procs
  BY DEF HaTools, HaPreflight, BeforeTry, hostVars, Kept, Host, HostTypes
<1>2. pc[p] \notin {"ha_finally"} \cup Cleaning \cup Terminal /\ Tidy(p)
  BY <1>1 DEF Cleaning, Deleting, Terminal, Kept
<1>3. HaProof(p) /\ HaProof(p)' /\ HaTool(p)' /\ Site(p)' = Site(p) /\ Bound(p)' = Bound(p) /\ Site(p) = HaPrimary
  <2>1. HaProof(p)
    BY <1>2, HaStepSame DEF Tidy, InOrder, HaTool, HaProof
  <2>2. Site(p) = HaPrimary
    BY <1>1, <1>2, <2>1 DEF Tidy, Staged
  <2> QED
    BY <1>1, <2>1, <2>2, HaStepSame DEF Site, HaProof
<1>4. PICK h \in Locals : /\ ha' = [ha EXCEPT ![p] = h]
                          /\ \/ pc' = [pc EXCEPT ![p] = "ha_capacity"] /\ h.stage = ha[p].stage
                             \/ pc' = [pc EXCEPT ![p] = "reserve"] /\ h.stage = "primary"
                             \/ pc' = [pc EXCEPT ![p] = "ha_exit"] /\ h.stage = ha[p].stage
  <2>1. CASE pc' = [pc EXCEPT ![p] = "ha_capacity"] /\ ha' = ha
    BY <1>1, <2>1, SameLocals
  <2>2. CASE Become(p, "reserve", [ha[p] EXCEPT !.stage = "primary"])
    <3>1. [ha[p] EXCEPT !.stage = "primary"] \in Locals /\ [ha[p] EXCEPT !.stage = "primary"].stage = "primary"
      BY <1>1 DEF Locals
    <3> QED
      BY <2>2, <3>1 DEF Become, Goto
  <2>3. CASE Become(p, "ha_exit", [ha[p] EXCEPT !.err = TRUE])
    <3>1. [ha[p] EXCEPT !.err = TRUE] \in Locals /\ [ha[p] EXCEPT !.err = TRUE].stage = ha[p].stage
      BY <1>1 DEF Locals
    <3> QED
      BY <2>3, <3>1 DEF Become, Goto
  <2> QED
    BY <2>1, <2>2, <2>3 DEF HaTools, HaPreflight, BeforeTry, Goto
<1>5. ha' \in [Procs -> Locals] /\ ha'[p] = h
  BY <1>1, <1>4
<1>6. Effects(p)
  BY <1>1, <1>4, QuietHasEffects DEF Data
<1>7. CASE pc'[p] = "ha_exit" /\ h.stage = ha[p].stage
  <2>1. "ha_exit" \in Outside /\ "ha_exit" \notin Terminal
    BY DEF Outside, Terminal
  <2> QED
    BY <1>2, <1>3, <1>5, <1>6, <1>7, <2>1, OutsideIsTidy DEF Keeping, Tidy, Staged
<1>8. CASE (pc'[p] = "ha_capacity" /\ h.stage = ha[p].stage) \/ (pc'[p] = "reserve" /\ h.stage = "primary")
  <2>1. {"ha_capacity", "reserve"} \cap (Terminal \cup {"idle", "delete"} \cup Inhabited \cup AtPrimary \cup Operating) = {}
        /\ "ha_capacity" \notin Creating
    BY DEF Terminal, Inhabited, AtPrimary, Early, Storing, Operating, Measuring, Closing, Creating
  <2>2. Local(p)'
    BY <1>3, <1>5, <1>8, <2>1 DEF Local, Active
  <2>3. Staged(p) /\ HaPrimary # HaRestore
    BY <1>2, HaAssumption DEF Tidy
  <2>4. Staged(p)'
    BY <1>3, <1>5, <1>8, <2>1, <2>3 DEF Staged
  <2>5. Keeps(p)'
    BY <1>8, <2>1 DEF Keeps, Primary, Retiring
  <2> QED
    BY <1>3, <1>5, <1>6, <2>2, <2>4, <2>5, ProofIsTidy DEF Keeping
<1> QED
  BY <1>1, <1>4, <1>7, <1>8

LEMMA HaReturnsTidily ==
  ASSUME Host, Kept, NEW p \in Procs, HaMoves(p), HaCreated(p) \/ HaRaise(p)
  PROVE  Keeping(p)
<1>1. /\ HaProof(p) /\ UNCHANGED <<inside, arg, store, archive, cluster>> /\ ha \in [Procs -> Locals] /\ ha[p] \in Locals
      /\ DOMAIN pc = Procs /\ Tidy(p)
  BY DEF HaCreated, HaRaise, hostVars, Kept, Host, HostTypes
<1>2. CASE HaRaise(p)
  <2>1. HaFail(p)
    BY <1>2 DEF HaRaise
  <2>2. Tidy(p)' /\ ha' \in [Procs -> Locals] /\ \E h : ha' = [ha EXCEPT ![p] = h]
    BY <1>1, <2>1, FailsTidily
  <2>3. Effects(p)
    BY <1>1, <2>2, QuietHasEffects DEF Data
  <2> QED
    BY <2>2, <2>3 DEF Keeping
<1>3. CASE HaCreated(p)
  <2>1. PICK h \in Locals : /\ ha' = [ha EXCEPT ![p] = h] /\ h.stage = ha[p].stage /\ pc[p] = "created"
                            /\ \/ pc' = [pc EXCEPT ![p] = "ha_preload"] /\ ha[p].stage = "primary"
                               \/ pc' = [pc EXCEPT ![p] = "ha_dns"] /\ ha[p].stage # "primary"
    <3>1. /\ [ha[p] EXCEPT !.primary = TRUE] \in Locals /\ [ha[p] EXCEPT !.primary = TRUE].stage = ha[p].stage
          /\ [ha[p] EXCEPT !.restore = TRUE] \in Locals /\ [ha[p] EXCEPT !.restore = TRUE].stage = ha[p].stage
      BY <1>1 DEF Locals
    <3> QED
      BY <1>3, <3>1 DEF HaCreated, Become, Goto
  <2>2. ha' \in [Procs -> Locals] /\ ha'[p].stage = ha[p].stage
    BY <1>1, <2>1
  <2>3. Effects(p)
    BY <1>1, <2>1, QuietHasEffects DEF Data
  <2>4. HaProof(p)' /\ HaTool(p)' /\ Site(p)' = Site(p) /\ Bound(p)' = Bound(p)
    BY <1>1, HaStepSame DEF Site
  <2>5. /\ {"ha_preload", "ha_dns"} \cap (Terminal \cup {"idle", "delete"} \cup Creating \cup Operating \cup Storing \cup Measuring \cup Closing) = {}
        /\ "ha_dns" \notin AtPrimary /\ "created" \in Creating /\ "created" \in Inhabited
    BY DEF Terminal, Creating, Operating, Storing, Measuring, Closing, AtPrimary, Early, Inhabited
  <2>6. Local(p)'
    BY <2>1, <2>2, <2>4, <2>5, <1>1 DEF Local, Active
  <2>7. Staged(p)'
    BY <1>1, <2>1, <2>2, <2>4, <2>5 DEF Staged, Tidy
  <2>8. Keeps(p)'
    <3>1. Primary(p)' => cluster'[NameOf[HaPrimary]] = p
      BY <1>1, <2>1, <2>2, <2>5 DEF Primary, Tidy, Keeps
    <3>2. ~Retiring(p)' /\ pc'[p] \in {"ha_preload", "ha_dns"}
      BY <1>1, <2>1 DEF Retiring
    <3> QED
      BY <2>5, <3>1, <3>2 DEF Keeps, Storing
  <2> QED
    BY <2>2, <2>3, <2>4, <2>6, <2>7, <2>8, ProofIsTidy DEF Keeping
<1> QED
  BY <1>2, <1>3
\* Steps of a proof only.
LEMMA ProofSteps ==
  ASSUME Host, Kept, NEW p \in Procs, HaMoves(p), pc[p] \in Storing \cup Closing
  PROVE  HaProof(p) /\ ha[p].stage = "primary" /\ Site(p) = HaPrimary /\ Primary(p)
<1>1. (Storing \cup Closing) \cap ({"ha_finally"} \cup Cleaning \cup Terminal) = {} /\ Storing \cup Closing \subseteq AtPrimary \cap Inhabited
  BY DEF Storing, Closing, Cleaning, Deleting, Terminal, AtPrimary, Inhabited
<1>2. Tidy(p) /\ HaTool(p)
  BY HaStepSame DEF Kept
<1>3. HaProof(p)
  BY <1>1, <1>2 DEF Tidy, InOrder, HaTool, HaProof
<1>4. ha[p].stage = "primary" /\ Site(p) = HaPrimary
  BY <1>1, <1>2, <1>3 DEF Tidy, Staged
<1> QED
  BY <1>1, <1>3, <1>4 DEF Primary

LEMMA StoresTidily ==
  ASSUME Host, Kept, NEW p \in Procs, HaMoves(p), StoreTypes, StoreCheck(p) \/ StoreCreate(p)
  PROVE  Keeping(p)
<1>1. /\ pc[p] \in Storing /\ UNCHANGED <<inside, arg, archive, cluster>> /\ ha \in [Procs -> Locals] /\ ha[p] \in Locals
      /\ DOMAIN pc = Procs /\ Tidy(p)
  BY DEF StoreCheck, StoreCreate, hostVars, Kept, Host, HostTypes, Storing
<1>2. HaProof(p) /\ ha[p].stage = "primary" /\ Site(p) = HaPrimary /\ Primary(p) /\ cluster[NameOf[HaPrimary]] = p
  BY <1>1, ProofSteps DEF Tidy, Keeps
<1>3. HaProof(p)' /\ HaTool(p)' /\ Site(p)' = HaPrimary /\ Bound(p)' = Bound(p) /\ HaPrimary # HaRestore
  BY <1>1, <1>2, HaStepSame, HaAssumption DEF Site
<1>4. PICK h \in Locals : /\ ha' = [ha EXCEPT ![p] = h]
                          /\ \/ /\ h.stage = "primary" /\ store' = store /\ \A r \in {"container", "volume"} : store[r] = NoBinding
                                /\ pc[p] = "ha_store" /\ pc' = [pc EXCEPT ![p] = "ha_volume"]
                             \/ /\ h.stage = "primary" /\ pc[p] = "ha_volume" /\ pc' = [pc EXCEPT ![p] = "ha_container"]
                                /\ store' = [store EXCEPT !["volume"] = IF @ = NoBinding THEN Bound(p) ELSE @]
                             \/ /\ h.stage = "primary" /\ pc[p] = "ha_container" /\ pc' = [pc EXCEPT ![p] = "ha_secrets"]
                                /\ store["container"] = NoBinding /\ store' = [store EXCEPT !["container"] = Bound(p)]
                             \/ /\ h.stage = "undo" /\ pc[p] = "ha_container" /\ pc' = [pc EXCEPT ![p] = "store_container"]
                                /\ store' = store \/ (store["container"] = NoBinding /\ store' = [store EXCEPT !["container"] = Bound(p)])
                             \/ /\ h.stage = "primary" /\ store' = store /\ pc' = [pc EXCEPT ![p] = "ha_finally"]
  <2>1. CASE HaFail(p)
    <3>1. PICK h \in Locals : ha' = [ha EXCEPT ![p] = h] /\ h.stage = ha[p].stage
      BY <1>1, <2>1, FailedLocals
    <3>2. pc' = [pc EXCEPT ![p] = "ha_finally"]
      BY <2>1 DEF HaFail, Become, Goto
    <3>3. store' = store
      <4>1. pc'[p] = "ha_finally"
        BY <1>1, <3>2
      <4> QED
        BY <1>1, <4>1 DEF StoreCheck, StoreCreate, Become, Goto
    <3> QED
      BY <1>2, <3>1, <3>2, <3>3
  <2>2. CASE StoreCheck(p) /\ ~HaFail(p)
    <3>1. /\ pc[p] = "ha_store" /\ pc' = [pc EXCEPT ![p] = "ha_volume"] /\ ha' = ha /\ store' = store
          /\ \A r \in DOMAIN store : store[r] = NoBinding
      BY <2>2 DEF StoreCheck, Goto
    <3>2. DOMAIN store = {"container", "volume"}
      BY DEF StoreTypes
    <3> QED
      BY <1>1, <1>2, <3>1, <3>2, SameLocals
  <2>3. CASE StoreCreate(p) /\ ~HaFail(p)
    <3>1. /\ [ha[p] EXCEPT !.store = TRUE] \in Locals /\ [ha[p] EXCEPT !.store = TRUE].stage = ha[p].stage
          /\ [ha[p] EXCEPT !.err = TRUE, !.stage = "undo"] \in Locals /\ [ha[p] EXCEPT !.err = TRUE, !.stage = "undo"].stage = "undo"
      BY <1>1 DEF Locals
    <3>2. CASE pc[p] = "ha_volume"
      <4>1. /\ pc' = [pc EXCEPT ![p] = "ha_container"] /\ ha' = ha
            /\ store' = [store EXCEPT !["volume"] = IF @ = NoBinding THEN Bound(p) ELSE @]
        BY <2>3, <3>2 DEF StoreCreate, Goto
      <4> QED
        BY <1>1, <1>2, <3>2, <4>1, SameLocals
    <3>3. CASE pc[p] = "ha_container"
      <4>1. \/ /\ Become(p, "ha_secrets", [ha[p] EXCEPT !.store = TRUE])
               /\ store["container"] = NoBinding /\ store' = [store EXCEPT !["container"] = Bound(p)]
            \/ /\ Become(p, "store_container", [ha[p] EXCEPT !.err = TRUE, !.stage = "undo"])
               /\ store' = store \/ (store["container"] = NoBinding /\ store' = [store EXCEPT !["container"] = Bound(p)])
        BY <2>3, <3>3 DEF StoreCreate
      <4> QED
        BY <1>2, <3>1, <3>3, <4>1 DEF Become, Goto
    <3> QED
      BY <2>3, <3>2, <3>3 DEF StoreCreate
  <2> QED
    BY <2>1, <2>2, <2>3
<1>5. ha' \in [Procs -> Locals] /\ ha'[p] = h
  BY <1>1, <1>4
<1>6. pc[p] = "ha_volume" => store["volume"] = NoBinding
  BY <1>1, <1>2 DEF Tidy, Keeps
<1>7. pc[p] = "ha_container" => store["volume"] = Bound(p)
  BY <1>1, <1>2 DEF Tidy, Keeps
<1>8. Effects(p)
  <2>1. ASSUME NEW r \in {"container", "volume"}
        PROVE  store'[r] = store[r] \/ (store[r] = NoBinding /\ store'[r] = Bound(p))
    BY <1>4, <1>6 DEF StoreTypes
  <2>2. Data(HaPrimary)' \subseteq Data(HaPrimary)
    BY <1>1 DEF Data
  <2>3. \A q \in Procs \ {p} : ha'[q] = ha[q]
    BY <1>1, <1>4
  <2> QED
    BY <1>1, <1>2, <2>1, <2>2, <2>3, HaStepSame DEF Effects
<1>9. CASE pc'[p] \in {"store_container", "ha_finally"} /\ h.stage \in {"undo", "primary"}
  <2>1. {"store_container", "ha_finally"} \subseteq Outside /\ {"store_container", "ha_finally"} \cap Terminal = {}
    BY DEF Outside, Terminal
  <2> QED
    BY <1>3, <1>5, <1>8, <1>9, <2>1, OutsideIsTidy DEF Keeping
<1>10. CASE pc'[p] \in {"ha_volume", "ha_container", "ha_secrets"} /\ h.stage = "primary"
  <2>1. /\ {"ha_volume", "ha_container", "ha_secrets"} \cap (Terminal \cup {"idle", "delete"} \cup Creating \cup Closing) = {}
        /\ "ha_volume" \notin {"ha_container"} \cup Operating \cup Measuring \cup Closing
    BY DEF Terminal, Creating, Closing, Operating, Measuring
  <2>2. Local(p)'
    BY <1>3, <1>5, <1>10, <2>1 DEF Local, Active
  <2>3. Staged(p)'
    BY <1>3, <1>5, <1>10, <2>1 DEF Staged
  <2>4. /\ cluster'[NameOf[HaPrimary]] = p /\ (pc'[p] = "ha_volume" => store'["volume"] = NoBinding)
        /\ pc'[p] # "ha_volume" => store'["volume"] = Bound(p)
    BY <1>1, <1>2, <1>4, <1>6, <1>7, <1>10 DEF StoreTypes
  <2>5. Keeps(p)'
    <3>1. ~Retiring(p)' /\ pc'[p] \notin Closing
      BY <1>10, <2>1 DEF Retiring
    <3> QED
      BY <1>3, <2>1, <2>4, <3>1 DEF Keeps
  <2> QED
    BY <1>3, <1>5, <1>8, <2>2, <2>3, <2>5, ProofIsTidy DEF Keeping
<1> QED
  BY <1>1, <1>4, <1>9, <1>10

\* The primary is retired.
LEMMA RetiresTidily ==
  ASSUME Host, Kept, NEW p \in Procs, HaMoves(p), HaRetire(p) \/ HaRetired(p)
  PROVE  Keeping(p)
<1>1. /\ UNCHANGED <<inside, store, archive, cluster>> /\ ha \in [Procs -> Locals] /\ ha[p] \in Locals
      /\ DOMAIN pc = Procs /\ Tidy(p) /\ arg[p] \in Args /\ DOMAIN arg = Procs
  BY HaStepSame, ArgOf DEF HaRetire, HaRetired, hostVars, Kept, Host, HostTypes
<1>2. HaProof(p) /\ HaProof(p)' /\ HaTool(p)' /\ Bound(p)' = Bound(p) /\ HaPrimary # HaRestore /\ Site(p) = HaPrimary
  <2>1. HaProof(p) /\ Site(p) = HaPrimary
    <3>1. CASE HaRetire(p)
      BY <3>1, ProofSteps DEF HaRetire, Closing
    <3>2. CASE HaRetired(p)
      BY <1>1, <3>2 DEF HaRetired, Tidy, Staged
    <3> QED
      BY <3>1, <3>2
  <2> QED
    BY <2>1, HaStepSame, HaAssumption
<1>3. CASE HaRetired(p) /\ pc[p] # "deleted"
  <2>1. HaFail(p) /\ arg' = arg
    BY <1>3 DEF HaRetired
  <2>2. Tidy(p)' /\ ha' \in [Procs -> Locals] /\ \E h : ha' = [ha EXCEPT ![p] = h]
    BY <1>2, <2>1, FailsTidily
  <2>3. Effects(p)
    BY <1>1, <2>2, QuietHasEffects DEF Data
  <2> QED
    BY <2>2, <2>3 DEF Keeping
<1>4. ASSUME NEW h \in Locals, ha' = [ha EXCEPT ![p] = h], h.stage = "restore", pc' = [pc EXCEPT ![p] = "reserve"],
             arg' = [arg EXCEPT ![p].site = HaRestore]
      PROVE  Keeping(p)
  <2>1. ha' \in [Procs -> Locals] /\ ha'[p].stage = "restore" /\ pc'[p] = "reserve"
    BY <1>1, <1>4
  <2>2. Site(p)' = HaRestore
    BY <1>1, <1>4 DEF Site, Args
  <2>3. "reserve" \notin Terminal \cup {"idle", "delete"} \cup AtPrimary \cup Inhabited
    BY DEF Terminal, AtPrimary, Inhabited, Early, Storing, Operating, Measuring, Closing
  <2>4. Local(p)' /\ Staged(p)' /\ Keeps(p)'
    <3>1. Local(p)'
      BY <1>2, <2>1, <2>3 DEF Local, Active
    <3>2. Staged(p)'
      BY <2>1, <2>2, <2>3 DEF Staged
    <3>3. Keeps(p)'
      BY <2>1, <2>3 DEF Keeps, Primary, Retiring
    <3> QED
      BY <3>1, <3>2, <3>3
  <2>5. Effects(p)
    BY <1>1, <1>4, QuietHasEffects DEF Data
  <2> QED
    BY <1>2, <2>1, <2>4, <2>5, ProofIsTidy DEF Keeping
<1>5. CASE HaRetired(p) /\ pc[p] = "deleted"
  <2>1. /\ [ha[p] EXCEPT !.primary = FALSE, !.stage = "restore"] \in Locals
        /\ [ha[p] EXCEPT !.primary = FALSE, !.stage = "restore"].stage = "restore"
    BY <1>1 DEF Locals
  <2> QED
    BY <1>4, <1>5, <2>1 DEF HaRetired, Become, Goto
<1>6. CASE HaRetire(p) /\ ha[p].keep
  <2>1. [ha[p] EXCEPT !.stage = "restore"] \in Locals /\ [ha[p] EXCEPT !.stage = "restore"].stage = "restore"
    BY <1>1 DEF Locals
  <2> QED
    BY <1>4, <1>6, <2>1 DEF HaRetire, Become, Goto
<1>7. CASE HaRetire(p) /\ ~ha[p].keep
  <2>1. [ha[p] EXCEPT !.stage = "retire"] \in Locals /\ [ha[p] EXCEPT !.stage = "retire"].stage = "retire"
    BY <1>1 DEF Locals
  <2>2. /\ ha' = [ha EXCEPT ![p] = [ha[p] EXCEPT !.stage = "retire"]] /\ pc' = [pc EXCEPT ![p] = "delete_if_present"] /\ arg' = arg
        /\ pc[p] \in Closing
    BY <1>7 DEF HaRetire, Become, Goto, Closing
  <2>3. ha' \in [Procs -> Locals] /\ ha'[p].stage = "retire" /\ pc'[p] = "delete_if_present" /\ Site(p)' = HaPrimary
    BY <1>1, <1>2, <2>1, <2>2 DEF Site
  <2>4. Primary(p)
    BY <2>2, ProofSteps
  <2>5. cluster[NameOf[HaPrimary]] = p /\ store["volume"] = Bound(p) /\ Data(HaPrimary) \subseteq archive
    BY <1>1, <2>2, <2>4, Zenon DEF Tidy, Keeps
  <2>6. "delete_if_present" \notin Terminal \cup {"idle", "delete"} \cup AtPrimary \cup Inhabited \cup Creating \cup Operating
    BY DEF Terminal, AtPrimary, Inhabited, Early, Storing, Operating, Measuring, Closing, Creating
  <2>7. Local(p)'
    BY <1>2, <2>3, <2>6 DEF Local, Active
  <2>8. Staged(p)'
    BY <2>3, <2>6 DEF Staged
  <2>9. Keeps(p)'
    <3>1. ~Primary(p)' /\ (Data(HaPrimary) \subseteq archive)'
      BY <1>1, <2>3, <2>5, <2>6 DEF Primary, Data
    <3> QED
      BY <1>1, <1>2, <2>5, <3>1 DEF Keeps
  <2>10. Effects(p)
    BY <1>1, <2>2, QuietHasEffects DEF Data
  <2> QED
    BY <1>2, <2>3, <2>7, <2>8, <2>9, <2>10, ProofIsTidy DEF Keeping
<1> QED
  BY <1>3, <1>5, <1>6, <1>7
-----------------------------------------------------------------------------
(* The cleanup, of a proof and of down *)

\* For down the parts about the proof say nothing.
LEMMA DownIsTidy ==
  ASSUME Host, NEW p \in Procs, arg'[p].cmd = "ha_down", pc'[p] \in Cleaning \cup {"done", "failed"},
         pc'[p] \in {"done", "failed"} => ha'[p].stage = "none", InOrder(p)', Cleared(p)'
  PROVE  Tidy(p)'
<1>1. ~HaProof(p)' /\ HaTool(p)' /\ ~Primary(p)' /\ ~Retiring(p)'
  BY DEF HaProof, HaTool, Primary, Retiring
<1>2. pc'[p] \notin {"idle", "delete"} /\ Cleaning \cap Terminal = {}
  BY DEF Cleaning, Deleting, Terminal
<1>3. Local(p)'
  BY <1>1, <1>2 DEF Local, Active
<1>4. Staged(p)' /\ Keeps(p)' /\ Vacated(p)'
  BY <1>1 DEF Staged, Keeps, Vacated
<1> QED
  BY <1>3, <1>4 DEF Tidy

\* At a step of the cleanup an invocation is a proof or down.
LEMMA ProofOrDown ==
  ASSUME Host, Kept, NEW p \in Procs, HaMoves(p)
  PROVE  /\ HaProof(p) \/ (arg[p].cmd = "ha_down" /\ pc[p] \in {"ha_finally"} \cup Cleaning)
         /\ ha \in [Procs -> Locals] /\ ha[p] \in Locals /\ DOMAIN pc = Procs /\ Tidy(p) /\ arg[p] \in Args /\ DOMAIN arg = Procs
<1>1. HaTool(p) /\ Active(p) /\ Tidy(p) /\ ha \in [Procs -> Locals] /\ ha[p] \in Locals /\ pc[p] # "idle"
  BY HaStepSame DEF Kept
<1>2. HaProof(p) \/ (arg[p].cmd = "ha_down" /\ pc[p] \in {"ha_finally"} \cup Cleaning)
  BY <1>1 DEF HaTool, HaProof, Tidy, InOrder, Active
<1> QED
  BY <1>1, <1>2, ArgOf DEF Host, HostTypes

LEMMA FinallyIsTidy ==
  ASSUME Host, Kept, NEW p \in Procs, HaMoves(p), HaFinally(p)
  PROVE  Keeping(p)
<1> DEFINE h == [ha[p] EXCEPT !.stopped = FALSE, !.stage = "cleanup"]
<1>1. /\ HaProof(p) \/ (arg[p].cmd = "ha_down" /\ pc[p] \in {"ha_finally"} \cup Cleaning)
      /\ ha \in [Procs -> Locals] /\ ha[p] \in Locals /\ DOMAIN pc = Procs /\ Tidy(p)
  BY ProofOrDown
<1>2. /\ h \in Locals /\ h.stage = "cleanup" /\ h.keep = ha[p].keep /\ h.primary = ha[p].primary /\ h.restore = ha[p].restore
      /\ h.store = ha[p].store
  BY <1>1 DEF Locals
<1>3. /\ UNCHANGED <<arg, store, archive>> /\ pc[p] = "ha_finally"
      /\ pc' = [pc EXCEPT ![p] = IF ha[p].keep THEN "ha_exit" ELSE "ha_cleanup"] /\ ha' = [ha EXCEPT ![p] = h]
  BY DEF HaFinally, Become, Goto
<1> HIDE DEF h
<1>4. ha' \in [Procs -> Locals] /\ ha'[p] = h /\ pc'[p] = (IF ha[p].keep THEN "ha_exit" ELSE "ha_cleanup")
  BY <1>1, <1>2, <1>3
<1>5. Effects(p)
  <2>1. inside'[PrimaryName].phases \subseteq inside[PrimaryName].phases
    <3>1. PrimaryName \in Names /\ DOMAIN inside = Names /\ DOMAIN inside[PrimaryName] = {"phases", "secret", "ref", "current"}
      BY HaAssumption DEF PrimaryName, Names, Host, HostTypes, Contents
    <3>2. inside' = inside \/ \E x : inside' = [inside EXCEPT ![PrimaryName].phases = @ \ x]
      <4>1. CASE UNCHANGED inside
        BY <4>1
      <4>2. CASE inside' = [inside EXCEPT ![PrimaryName].phases = IF ha[p].stopped THEN @ \ {"node_down"} ELSE @]
        <5>1. inside[PrimaryName].phases \ {} = inside[PrimaryName].phases
          OBVIOUS
        <5> QED
          BY <4>2, <5>1
      <4> QED
        BY <4>1, <4>2 DEF HaFinally, PrimaryName
    <3> QED
      BY <3>1, <3>2
  <2> QED
    BY <1>3, <2>1, SmallerData, QuietHasEffects
<1>6. CASE HaProof(p)
  <2>1. HaProof(p)' /\ {"ha_exit", "ha_cleanup"} \subseteq Outside /\ {"ha_exit", "ha_cleanup"} \cap Terminal = {}
    BY <1>3, <1>6, HaStepSame DEF Outside, Terminal
  <2> QED
    BY <1>2, <1>4, <1>5, <2>1, OutsideIsTidy DEF Keeping
<1>7. CASE arg[p].cmd = "ha_down"
  <2>1. ~ha[p].keep /\ ha[p].restore /\ ha[p].primary /\ ha[p].store
    BY <1>1, <1>3, <1>7 DEF Tidy, InOrder
  <2>2. pc'[p] = "ha_cleanup" /\ ~h.keep /\ h.restore /\ h.primary /\ h.store
    BY <1>2, <1>4, <2>1
  <2>3. "ha_cleanup" \in Cleaning
    BY DEF Cleaning
  <2>4. InOrder(p)'
    BY <1>2, <1>4, <2>2, <2>3 DEF InOrder
  <2>5. Cleared(p)'
    BY <1>4, <2>2 DEF Cleared, Pending
  <2> QED
    BY <1>3, <1>4, <1>5, <1>7, <2>2, <2>3, <2>4, <2>5, DownIsTidy DEF Keeping
<1> QED
  BY <1>1, <1>6, <1>7

LEMMA CleanupIsTidy ==
  ASSUME Host, Kept, NEW p \in Procs, HaMoves(p), HaCleanup(p)
  PROVE  Keeping(p)
<1>1. /\ HaProof(p) \/ (arg[p].cmd = "ha_down" /\ pc[p] \in {"ha_finally"} \cup Cleaning)
      /\ ha \in [Procs -> Locals] /\ ha[p] \in Locals /\ DOMAIN pc = Procs /\ Tidy(p) /\ arg[p] \in Args /\ DOMAIN arg = Procs
  BY ProofOrDown
<1>2. UNCHANGED <<inside, store, archive>> /\ pc[p] = "ha_cleanup" /\ Bound(p)' = Bound(p) /\ marker' = marker
  BY HaStepSame DEF HaCleanup, hostVars
<1>3. PICK h : /\ ha' = [ha EXCEPT ![p] = h]
               /\ \/ /\ ha[p].restore /\ h = [ha[p] EXCEPT !.restore = FALSE]
                     /\ pc' = [pc EXCEPT ![p] = "delete_if_present"] /\ arg' = [arg EXCEPT ![p].site = HaRestore]
                  \/ /\ ~ha[p].restore /\ ha[p].primary /\ h = [ha[p] EXCEPT !.primary = FALSE]
                     /\ pc' = [pc EXCEPT ![p] = "delete_if_present"] /\ arg' = [arg EXCEPT ![p].site = HaPrimary]
                  \/ /\ ~ha[p].restore /\ ~ha[p].primary /\ h = [ha[p] EXCEPT !.store = FALSE]
                     /\ pc' = [pc EXCEPT ![p] = IF ha[p].store THEN "store_container" ELSE "ha_exit"] /\ arg' = arg
  BY DEF HaCleanup, Become, Goto
<1>4. /\ h \in Locals /\ h.stage = ha[p].stage /\ h.keep = ha[p].keep /\ h.dirty = ha[p].dirty
      /\ \/ ha[p].restore /\ h.restore = FALSE /\ h.primary = ha[p].primary /\ h.store = ha[p].store
         \/ ~ha[p].restore /\ ha[p].primary /\ h.primary = FALSE /\ h.restore = ha[p].restore /\ h.store = ha[p].store
         \/ ~ha[p].restore /\ ~ha[p].primary /\ h.primary = ha[p].primary /\ h.restore = ha[p].restore
  BY <1>1, <1>3, ZenonT(40) DEF Locals
<1>5. ha' \in [Procs -> Locals] /\ ha'[p] = h /\ arg'[p].cmd = arg[p].cmd
  BY <1>1, <1>3, <1>4, HaStepSame
<1>6. pc'[p] \in {"delete_if_present", "store_container", "ha_exit"}
  BY <1>1, <1>3
<1>7. Effects(p)
  BY <1>2, <1>3, QuietHasEffects DEF Data
<1>8. CASE HaProof(p)
  <2>1. /\ HaProof(p)' /\ {"delete_if_present", "store_container", "ha_exit"} \subseteq Outside
        /\ {"delete_if_present", "store_container", "ha_exit"} \cap Terminal = {} /\ ha[p].stage = "cleanup"
    BY <1>1, <1>2, <1>8, HaStepSame DEF Outside, Terminal, Tidy, Staged
  <2> QED
    BY <1>4, <1>5, <1>6, <1>7, <2>1, OutsideIsTidy DEF Keeping
<1>9. CASE arg[p].cmd = "ha_down"
  <2>1. InOrder(p) /\ Cleared(p) /\ "ha_cleanup" \in Cleaning /\ {"delete_if_present", "store_container", "ha_exit"} \subseteq Cleaning
    BY <1>1 DEF Tidy, Cleaning, Deleting
  <2>2. ha[p].stage = "cleanup" /\ ha[p].store /\ ~ha[p].keep
    BY <1>2, <1>9, <2>1 DEF InOrder
  <2>3. \/ /\ pc'[p] = "delete_if_present" /\ Site(p)' = HaRestore /\ ~h.restore /\ h.primary = ha[p].primary /\ h.store
        \/ /\ pc'[p] = "delete_if_present" /\ Site(p)' = HaPrimary /\ ~ha[p].restore /\ ~h.primary /\ h.restore = ha[p].restore /\ h.store
        \/ /\ pc'[p] = "store_container" /\ ~ha[p].restore /\ ~ha[p].primary /\ ~h.restore /\ ~h.primary
    <3>1. CASE ha[p].restore
      <4>1. h = [ha[p] EXCEPT !.restore = FALSE] /\ pc' = [pc EXCEPT ![p] = "delete_if_present"] /\ arg' = [arg EXCEPT ![p].site = HaRestore]
        BY <1>3, <3>1
      <4>2. Site(p)' = HaRestore /\ pc'[p] = "delete_if_present"
        BY <1>1, <4>1 DEF Site, Args
      <4>3. h.restore = FALSE /\ h.primary = ha[p].primary /\ h.store = ha[p].store
        BY <1>1, <4>1 DEF Locals
      <4> QED
        BY <2>2, <4>2, <4>3
    <3>2. CASE ~ha[p].restore /\ ha[p].primary
      <4>1. h = [ha[p] EXCEPT !.primary = FALSE] /\ pc' = [pc EXCEPT ![p] = "delete_if_present"] /\ arg' = [arg EXCEPT ![p].site = HaPrimary]
        BY <1>3, <3>2
      <4>2. Site(p)' = HaPrimary /\ pc'[p] = "delete_if_present"
        BY <1>1, <4>1 DEF Site, Args
      <4>3. h.primary = FALSE /\ h.restore = ha[p].restore /\ h.store = ha[p].store
        BY <1>1, <4>1 DEF Locals
      <4> QED
        BY <2>2, <3>2, <4>2, <4>3
    <3>3. CASE ~ha[p].restore /\ ~ha[p].primary
      <4>1. h = [ha[p] EXCEPT !.store = FALSE] /\ pc' = [pc EXCEPT ![p] = "store_container"]
        BY <1>3, <2>2, <3>3
      <4>2. h.primary = ha[p].primary /\ h.restore = ha[p].restore
        BY <1>1, <4>1 DEF Locals
      <4> QED
        BY <1>1, <3>3, <4>1, <4>2
    <3> QED
      BY <3>1, <3>2, <3>3
  <2>4. InOrder(p)'
    <3>1. h.stage = "cleanup" /\ ~h.keep /\ pc'[p] \in Cleaning /\ pc'[p] # "ha_finally"
      BY <1>4, <1>6, <2>1, <2>2
    <3>2. "delete_if_present" \in Deleting /\ "store_container" \notin {"ha_cleanup", "raise"} \cup Deleting
      BY DEF Deleting
    <3> QED
      BY <1>5, <2>3, <3>1, <3>2 DEF InOrder
  <2>5. Cleared(p)'
    <3> SUFFICES ASSUME ~h.dirty
                 PROVE  \A s \in {HaPrimary, HaRestore} : Pending(p, s)' \/ marker[s] # Bound(p)
      BY <1>2, <1>5, <2>3 DEF Cleared
    <3>1. \A s \in {HaPrimary, HaRestore} : Pending(p, s) \/ marker[s] # Bound(p)
      BY <1>2, <1>4, <1>9, <2>1 DEF Cleared
    <3>2. "ha_cleanup" \notin Standing /\ "delete_if_present" \in Standing
      BY DEF Standing
    <3>3. /\ ~ha[p].primary => marker[HaPrimary] # Bound(p)
          /\ ~ha[p].restore => marker[HaRestore] # Bound(p)
      BY <1>2, <3>1, <3>2, HaAssumption DEF Pending
    <3>4. ASSUME NEW s \in {HaPrimary, HaRestore}
          PROVE  Pending(p, s)' \/ marker[s] # Bound(p)
      <4>1. CASE s = HaPrimary
        BY <1>5, <2>3, <3>2, <3>3, <4>1 DEF Pending
      <4>2. CASE s = HaRestore
        BY <1>5, <2>3, <3>2, <3>3, <4>2 DEF Pending
      <4> QED
        BY <4>1, <4>2
    <3> QED
      BY <3>4
  <2> QED
    BY <1>5, <1>6, <1>7, <1>9, <2>1, <2>4, <2>5, DownIsTidy DEF Keeping, Cleaning, Terminal, Deleting
<1> QED
  BY <1>1, <1>8, <1>9

LEMMA CleanedIsTidy ==
  ASSUME Host, Kept, NEW p \in Procs, HaMoves(p), HaCleaned(p)
  PROVE  Keeping(p)
<1> DEFINE h == [ha[p] EXCEPT !.dirty = @ \/ pc[p] = "raise"]
<1>1. /\ HaProof(p) \/ (arg[p].cmd = "ha_down" /\ pc[p] \in {"ha_finally"} \cup Cleaning)
      /\ ha \in [Procs -> Locals] /\ ha[p] \in Locals /\ DOMAIN pc = Procs /\ Tidy(p)
  BY ProofOrDown
<1>2. /\ UNCHANGED <<inside, store, archive, arg>> /\ pc[p] \in {"deleted", "absent", "raise"} /\ ha[p].stage = "cleanup"
      /\ marker' = marker /\ Bound(p)' = Bound(p) /\ Site(p)' = Site(p)
      /\ ha' = [ha EXCEPT ![p] = h] /\ pc' = [pc EXCEPT ![p] = "ha_cleanup"]
  BY HaStepSame DEF HaCleaned, hostVars, Become, Goto, Site
<1>3. (ha[p].dirty \/ pc[p] = "raise") \in BOOLEAN /\ h.dirty = (ha[p].dirty \/ pc[p] = "raise")
  BY <1>1 DEF Locals
<1>4. /\ h \in Locals /\ h.stage = ha[p].stage /\ h.keep = ha[p].keep /\ h.primary = ha[p].primary /\ h.restore = ha[p].restore
      /\ h.store = ha[p].store
  BY <1>1, <1>3 DEF Locals
<1> HIDE DEF h
<1>5. ha' \in [Procs -> Locals] /\ ha'[p] = h /\ pc'[p] = "ha_cleanup"
  BY <1>1, <1>2, <1>4
<1>6. Effects(p)
  BY <1>2, QuietHasEffects DEF Data
<1>7. CASE HaProof(p)
  <2>1. HaProof(p)' /\ "ha_cleanup" \in Outside /\ "ha_cleanup" \notin Terminal
    BY <1>2, <1>7, HaStepSame DEF Outside, Terminal
  <2> QED
    BY <1>2, <1>4, <1>5, <1>6, <2>1, OutsideIsTidy DEF Keeping
<1>8. CASE arg[p].cmd = "ha_down"
  <2>1. InOrder(p) /\ Cleared(p) /\ "ha_cleanup" \in Cleaning /\ pc[p] \in Cleaning /\ pc[p] \in {"ha_cleanup", "raise"} \cup Deleting
    BY <1>1, <1>2 DEF Tidy, Cleaning, Deleting
  <2>2. ~ha[p].keep /\ ha[p].store
    BY <1>8, <2>1 DEF InOrder
  <2>3. InOrder(p)'
    BY <1>2, <1>4, <1>5, <2>1, <2>2 DEF InOrder
  <2>4. Cleared(p)'
    <3> SUFFICES ASSUME ~h.dirty, NEW s \in {HaPrimary, HaRestore}
                 PROVE  Pending(p, s)' \/ marker[s] # Bound(p)
      BY <1>2, <1>5 DEF Cleared
    <3>1. ~ha[p].dirty /\ pc[p] # "raise"
      BY <1>3
    <3>2. Pending(p, s) \/ marker[s] # Bound(p)
      BY <1>8, <2>1, <3>1 DEF Cleared
    <3>3. pc[p] \notin Standing
      BY <1>2, <3>1 DEF Standing
    <3> QED
      BY <1>4, <1>5, <3>2, <3>3 DEF Pending
  <2> QED
    BY <1>2, <1>5, <1>6, <1>8, <2>1, <2>3, <2>4, DownIsTidy DEF Keeping
<1> QED
  BY <1>1, <1>7, <1>8

LEMMA ExitIsTidy ==
  ASSUME Host, Kept, NEW p \in Procs, HaMoves(p), HaExit(p)
  PROVE  Keeping(p)
<1>1. /\ HaProof(p) \/ (arg[p].cmd = "ha_down" /\ pc[p] \in {"ha_finally"} \cup Cleaning)
      /\ ha \in [Procs -> Locals] /\ DOMAIN pc = Procs
  BY ProofOrDown
<1>2. /\ UNCHANGED <<inside, store, archive, arg>> /\ ha' = [ha EXCEPT ![p] = HaIdle]
      /\ \E t \in {"done", "failed"} : pc' = [pc EXCEPT ![p] = t]
  BY DEF HaExit, End, Goto, hostVars
<1>3. HaIdle \in Locals /\ HaIdle.stage = "none" /\ ~HaIdle.keep
  BY DEF HaIdle, Locals
<1>4. ha' \in [Procs -> Locals] /\ ha'[p] = HaIdle /\ pc'[p] \in {"done", "failed"}
  BY <1>1, <1>2, <1>3
<1>5. Effects(p)
  BY <1>2, QuietHasEffects DEF Data
<1>6. {"done", "failed"} \subseteq Outside /\ {"done", "failed"} \subseteq Terminal
      /\ {"done", "failed"} \cap ({"ha_finally", "raise", "ha_cleanup"} \cup Cleaning \cup Deleting) = {}
  BY DEF Outside, Terminal, Cleaning, Deleting
<1>7. CASE HaProof(p)
  <2>1. HaProof(p)'
    BY <1>7, HaStepSame
  <2> QED
    BY <1>3, <1>4, <1>5, <1>6, <2>1, OutsideIsTidy DEF Keeping
<1>8. CASE arg[p].cmd = "ha_down"
  <2>1. InOrder(p)'
    BY <1>3, <1>4, <1>6 DEF InOrder
  <2>2. Cleared(p)'
    BY <1>4, <1>6 DEF Cleared
  <2> QED
    BY <1>2, <1>3, <1>4, <1>5, <1>8, <2>1, <2>2, DownIsTidy DEF Keeping
<1> QED
  BY <1>1, <1>7, <1>8
\* Inspecting and removing the parts of the object store.
LEMMA ReconcileIsTidy ==
  ASSUME Host, Proven, Kept, NEW p \in Procs, HaMoves(p), ReconcileStore(p)
  PROVE  Keeping(p)
<1> DEFINE Store == {"store_container", "rm_container", "store_volume", "rm_volume", "store_done"}
<1>1. /\ HaProof(p) \/ (arg[p].cmd = "ha_down" /\ pc[p] \in {"ha_finally"} \cup Cleaning)
      /\ ha \in [Procs -> Locals] /\ ha[p] \in Locals /\ DOMAIN pc = Procs /\ Tidy(p) /\ StoreTypes
      /\ HaTool(p) /\ Active(p) /\ Bound(p) # NoBinding
  BY ProofOrDown, HaStepSame, ArgOf DEF Proven
<1>2. /\ UNCHANGED <<inside, arg>> /\ pc[p] \in Store /\ marker' = marker /\ Bound(p)' = Bound(p) /\ Site(p)' = Site(p)
  BY HaStepSame DEF ReconcileStore, StoreInspect, StoreRemove, StoreReconciled, hostVars, Site
<1>3. \/ /\ pc[p] = "store_done" /\ ha[p].stage = "undo" /\ pc' = [pc EXCEPT ![p] = "ha_finally"] /\ UNCHANGED <<store, archive>>
         /\ ha' = [ha EXCEPT ![p] = [ha[p] EXCEPT !.stage = "none", !.dirty = FALSE]]
      \/ /\ pc[p] = "store_done" /\ ha[p].stage # "undo" /\ pc' = [pc EXCEPT ![p] = "ha_exit"] /\ UNCHANGED <<store, archive, ha>>
      \/ \E r \in {"container", "volume"} :
            /\ pc[p] = IF r = "container" THEN "store_container" ELSE "store_volume"
            /\ UNCHANGED <<store, archive>>
            /\ \/ /\ ha' = ha /\ store[r] = Bound(p)
                  /\ pc' = [pc EXCEPT ![p] = IF r = "container" THEN "rm_container" ELSE "rm_volume"]
               \/ /\ ha' = [ha EXCEPT ![p] = [ha[p] EXCEPT !.dirty = TRUE]] \/ (ha' = ha /\ store[r] = NoBinding)
                  /\ pc' = [pc EXCEPT ![p] = IF r = "container" THEN "store_volume" ELSE "store_done"]
      \/ \E r \in {"container", "volume"} :
            /\ pc[p] = IF r = "container" THEN "rm_container" ELSE "rm_volume"
            /\ pc' = [pc EXCEPT ![p] = IF r = "container" THEN "store_volume" ELSE "store_done"]
            /\ \/ ha' = ha /\ store' = [store EXCEPT ![r] = NoBinding] /\ (r = "container" => archive' = archive)
               \/ ha' = [ha EXCEPT ![p] = [ha[p] EXCEPT !.dirty = TRUE]] /\ UNCHANGED <<store, archive>>
  <2>1. CASE StoreReconciled(p)
    BY <2>1 DEF StoreReconciled, Become, Goto
  <2>2. CASE StoreInspect(p, "container", "store_container", "rm_container", "store_volume")
    BY <2>2 DEF StoreInspect, Become, Goto
  <2>3. CASE StoreInspect(p, "volume", "store_volume", "rm_volume", "store_done")
    BY <2>3 DEF StoreInspect, Become, Goto
  <2>4. CASE StoreRemove(p, "container", "rm_container", "store_volume")
    BY <2>4 DEF StoreRemove, Become, Goto
  <2>5. CASE StoreRemove(p, "volume", "rm_volume", "store_done")
    BY <2>5 DEF StoreRemove, Become, Goto
  <2> QED
    BY <2>1, <2>2, <2>3, <2>4, <2>5 DEF ReconcileStore
<1>4. /\ [ha[p] EXCEPT !.dirty = TRUE] \in Locals /\ [ha[p] EXCEPT !.dirty = TRUE].dirty
      /\ [ha[p] EXCEPT !.dirty = TRUE].stage = ha[p].stage /\ [ha[p] EXCEPT !.dirty = TRUE].keep = ha[p].keep
      /\ [ha[p] EXCEPT !.dirty = TRUE].restore = ha[p].restore /\ [ha[p] EXCEPT !.dirty = TRUE].primary = ha[p].primary
      /\ [ha[p] EXCEPT !.stage = "none", !.dirty = FALSE] \in Locals /\ [ha[p] EXCEPT !.stage = "none", !.dirty = FALSE].stage = "none"
  BY <1>1 DEF Locals
\* The local variables and the next step.
<1>5. PICK h \in Locals : ha' = [ha EXCEPT ![p] = h] /\ (h = ha[p] \/ h = [ha[p] EXCEPT !.dirty = TRUE]
                             \/ (h = [ha[p] EXCEPT !.stage = "none", !.dirty = FALSE] /\ pc[p] = "store_done" /\ ha[p].stage = "undo"))
  <2>1. CASE ha' = ha
    <3>1. ha' = [ha EXCEPT ![p] = ha[p]]
      BY <1>1, <2>1
    <3> QED
      BY <1>1, <3>1
  <2>2. CASE ha' = [ha EXCEPT ![p] = [ha[p] EXCEPT !.dirty = TRUE]]
    BY <1>4, <2>2
  <2>3. CASE /\ ha' = [ha EXCEPT ![p] = [ha[p] EXCEPT !.stage = "none", !.dirty = FALSE]]
             /\ pc[p] = "store_done" /\ ha[p].stage = "undo"
    BY <1>4, <2>3
  <2> QED
    BY <1>3, <2>1, <2>2, <2>3
<1>6. ha' \in [Procs -> Locals] /\ ha'[p] = h /\ \A q \in Procs \ {p} : ha'[q] = ha[q]
  BY <1>1, <1>5
<1>7. pc'[p] \in Store \cup {"ha_finally", "ha_exit"}
  BY <1>1, <1>3
<1>8. Effects(p)
  <2>1. pc[p] = "rm_container" => store["container"] = Bound(p)
    BY DEF Proven, Inspected
  <2>2. pc[p] = "rm_volume" => store["volume"] = Bound(p)
    BY DEF Proven, Inspected
  <2>3. ASSUME NEW r \in {"container", "volume"}
        PROVE  store'[r] = store[r] \/ (store[r] = Bound(p) /\ store'[r] = NoBinding)
    BY <1>1, <1>3, <2>1, <2>2 DEF StoreTypes
  <2>4. archive \subseteq archive' \/ pc[p] = "rm_volume"
    BY <1>3
  <2>5. Data(HaPrimary)' \subseteq Data(HaPrimary)
    BY <1>2 DEF Data
  <2> QED
    BY <1>1, <1>6, <2>3, <2>4, <2>5, HaStepSame DEF Effects
<1>9. CASE HaProof(p)
  <2>1. HaProof(p)' /\ Store \cup {"ha_finally", "ha_exit"} \subseteq Outside /\ (Store \cup {"ha_finally", "ha_exit"}) \cap Terminal = {}
    BY <1>2, <1>9, HaStepSame DEF Outside, Terminal
  <2>2. h.stage \in {ha[p].stage, "none"} /\ Staged(p) /\ pc'[p] \notin {"ha_cleanup", "delete_if_present"}
    BY <1>1, <1>4, <1>5, <1>7 DEF Tidy
  <2>3. /\ h.stage \in {"primary", "retire"} => Site(p)' = HaPrimary
        /\ h.stage = "restore" => Site(p)' = HaRestore
    BY <1>2, <1>9, <2>2 DEF Staged
  <2> HIDE DEF Store
  <2> QED
    BY <1>6, <1>7, <1>8, <2>1, <2>2, <2>3, OutsideIsTidy DEF Keeping
<1>10. CASE arg[p].cmd = "ha_down"
  <2>1. /\ InOrder(p) /\ Cleared(p) /\ Store \subseteq Cleaning /\ "ha_exit" \in Cleaning
        /\ (Store \cup {"ha_exit"}) \cap ({"ha_cleanup", "raise", "ha_finally"} \cup Deleting \cup Terminal \cup Standing) = {}
    BY <1>1 DEF Tidy, Cleaning, Deleting, Terminal, Standing
  <2>2. ha[p].stage = "cleanup" /\ ~ha[p].keep /\ ~ha[p].restore /\ ~ha[p].primary /\ pc[p] \in Cleaning
    BY <1>2, <1>10, <2>1 DEF InOrder
  <2>3. (h = ha[p] \/ h = [ha[p] EXCEPT !.dirty = TRUE]) /\ pc'[p] \in Store \cup {"ha_exit"}
    BY <1>1, <1>3, <1>5, <2>2
  <2>4. h.stage = "cleanup" /\ ~h.keep /\ ~h.restore /\ ~h.primary
    BY <1>4, <2>2, <2>3
  <2>5. InOrder(p)'
    BY <1>6, <2>1, <2>3, <2>4 DEF InOrder
  <2>6. Cleared(p)'
    <3> SUFFICES ASSUME ~h.dirty
                 PROVE  /\ \A s \in {HaPrimary, HaRestore} : Pending(p, s)' \/ marker[s] # Bound(p)
                        /\ pc'[p] \in {"store_volume", "rm_volume", "store_done", "ha_exit"} => store'["container"] # Bound(p)
                        /\ pc'[p] \in {"store_done", "ha_exit"} => store'["volume"] # Bound(p)
      BY <1>2, <1>6 DEF Cleared
    <3>1. h = ha[p] /\ ~ha[p].dirty
      BY <1>4, <2>3
    <3>2. ha' = ha
      BY <1>1, <1>5, <3>1
    <3>3. ha' # [ha EXCEPT ![p] = [ha[p] EXCEPT !.dirty = TRUE]]
      <4>1. [ha EXCEPT ![p] = [ha[p] EXCEPT !.dirty = TRUE]][p].dirty
        BY <1>1, <1>4
      <4> QED
        BY <3>1, <3>2, <4>1
    <3>4. /\ \A s \in {HaPrimary, HaRestore} : marker[s] # Bound(p)
          /\ pc[p] \in {"store_volume", "rm_volume", "store_done", "ha_exit"} => store["container"] # Bound(p)
          /\ pc[p] \in {"store_done", "ha_exit"} => store["volume"] # Bound(p)
      BY <1>2, <1>10, <2>1, <2>2, <3>1 DEF Cleared, Pending
    <3>5. DOMAIN store = {"container", "volume"}
      BY <1>1 DEF StoreTypes
    <3>6. \/ pc[p] = "store_done" /\ pc'[p] = "ha_exit" /\ store' = store
          \/ pc[p] = "store_container" /\ store' = store /\ (pc'[p] = "rm_container" \/ (pc'[p] = "store_volume" /\ store["container"] = NoBinding))
          \/ pc[p] = "store_volume" /\ store' = store /\ (pc'[p] = "rm_volume" \/ (pc'[p] = "store_done" /\ store["volume"] = NoBinding))
          \/ pc[p] = "rm_container" /\ store' = [store EXCEPT !["container"] = NoBinding] /\ pc'[p] = "store_volume"
          \/ pc[p] = "rm_volume" /\ store' = [store EXCEPT !["volume"] = NoBinding] /\ pc'[p] = "store_done"
      BY <1>1, <1>3, <2>2, <3>3
    <3>7. pc'[p] \in {"store_volume", "rm_volume", "store_done", "ha_exit"} => store'["container"] # Bound(p)
      BY <1>1, <3>4, <3>5, <3>6
    <3>8. pc'[p] \in {"store_done", "ha_exit"} => store'["volume"] # Bound(p)
      BY <1>1, <3>4, <3>5, <3>6
    <3> QED
      BY <3>4, <3>7, <3>8
  <2> HIDE DEF Store
  <2> QED
    BY <1>2, <1>6, <1>8, <1>10, <2>1, <2>3, <2>5, <2>6, DownIsTidy DEF Keeping, Terminal
<1> QED
  BY <1>1, <1>9, <1>10

LEMMA HaToolKeeping ==
  ASSUME Host, Proven, Kept, NEW p \in Procs, HaToolStep(p)
  PROVE  Keeping(p)
<1>1. HaMoves(p) /\ ha \in [Procs -> Locals] /\ StoreTypes
  BY HaToolStepMoves DEF Kept, Proven
<1>2. CASE \/ HaBuilds(p) \/ HaMeasures(p) \/ HaAlign(p) \/ BarmanLeader(p) \/ HaBackup(p)
           \/ HaStopNode(p) \/ SecondMessage(p) \/ CountMessages(p) \/ HaStartNode(p) \/ HaArchived(p)
           \/ HaRestoreData(p) \/ HaReceipt(p)
  <2>1. Works(p)
    BY <1>1, <1>2, BuildsWork, MeasuresWork, BackupWorks, OthersWork
  <2> QED
    BY <2>1, WorksHasEffects, WorksIsTidy DEF Keeping
<1>3. CASE \/ HaTools(p) \/ HaPreflight(p) \/ HaCreated(p) \/ HaRaise(p) \/ StoreCheck(p) \/ StoreCreate(p)
           \/ HaRetire(p) \/ HaRetired(p)
  BY <1>1, <1>3, HaBeginsTidily, HaReturnsTidily, StoresTidily, RetiresTidily
<1>4. CASE HaFinally(p) \/ HaCleanup(p) \/ HaCleaned(p) \/ HaExit(p) \/ ReconcileStore(p)
  BY <1>1, <1>4, FinallyIsTidy, CleanupIsTidy, CleanedIsTidy, ExitIsTidy, ReconcileIsTidy
<1> QED
  BY <1>2, <1>3, <1>4 DEF HaToolStep, HaBuilds, HaMeasures

-----------------------------------------------------------------------------
(* The other tools, starting, crashing and the environment *)

\* Another tool reaches another cluster than the primary.
LEMMA ElsewhereThanPrimary ==
  ASSUME Host, DistinctNames, SeparateSites, NEW p \in Procs, pc[p] # "idle", ~HaTool(p),
         \A n \in Names : n # Name(p) => inside'[n] = inside[n]
  PROVE  Data(HaPrimary)' = Data(HaPrimary)
<1>1. Site(p) \in Sites /\ Site(p) \notin {HaPrimary, HaRestore} /\ HaPrimary \in Sites
  BY ArgOf, ToolOfSite, HaAssumption
<1>2. NameOf[HaPrimary] # Name(p) /\ NameOf[HaPrimary] \in Names
  BY <1>1 DEF DistinctNames, Name, Names
<1> QED
  BY <1>2 DEF Data

LEMMA OtherToolsKeep ==
  ASSUME Host, Kept, NEW p \in Procs, OwnStep(p), UNCHANGED haVars, pc[p] # "idle", ~HaTool(p),
         pc'[p] \notin {"idle", "delete_kubeconfig", "deleted", "absent"}, Data(HaPrimary)' \subseteq Data(HaPrimary)
  PROVE  Keeping(p)
<1>1. ha' = ha /\ store' = store /\ archive' = archive /\ ha \in [Procs -> Locals] /\ Local(p)
  BY DEF haVars, Kept, Tidy
<1>2. ha[p].stage = "none" /\ arg'[p].cmd = arg[p].cmd
  BY <1>1 DEF Local, OwnStep
<1>3. ~HaTool(p)' /\ ~HaProof(p)' /\ arg'[p].cmd # "ha_down"
  BY <1>2 DEF HaTool, HaProof
<1>4. Tidy(p)'
  BY <1>1, <1>2, <1>3 DEF Tidy, Local, Staged, Keeps, Primary, Retiring, InOrder, Cleared, Vacated
<1>5. Effects(p)
  BY <1>1 DEF Effects, OwnStep
<1> QED
  BY <1>1, <1>4, <1>5 DEF Keeping

LEMMA PhaseStays ==
  ASSUME Host, NEW p \in Procs, NEW from, NEW ph, NEW needs, NEW next, Phase(p, from, ph, needs, next)
  PROVE  \A n \in Names : n # Name(p) => inside'[n] = inside[n]
BY DEF Phase, Host, HostTypes

LEMMA ReferenceKeeping ==
  ASSUME Host, Kept, DistinctNames, SeparateSites, NEW p \in Procs, ReferenceStep(p), UNCHANGED haVars
  PROVE  Keeping(p)
<1>1. ReferenceMoves(p) /\ OwnStep(p)
  BY ReferenceStepMoves, ReferenceIsOwn
<1>2. /\ ProofTool(p) /\ pc[p] # "idle" /\ DOMAIN pc = Procs
      /\ \E t \in {"done", "failed", "oci_host", "reserve", "raise", "kept", "delete"} \cup Proving : pc' = [pc EXCEPT ![p] = t]
  BY <1>1 DEF ReferenceMoves, Host, HostTypes, Proving
<1>3. pc'[p] \notin {"idle", "delete_kubeconfig", "deleted", "absent"}
  BY <1>2 DEF Proving
<1>4. \A n \in Names : n # Name(p) => inside'[n] = inside[n]
  <2>1. CASE \/ LoadControlledOci(p) \/ BuildImages(p) \/ InstallPlatform(p) \/ ApplyData(p) \/ ApplyApp(p) \/ ProveRestart(p)
             \/ ProveFluxDrift(p) \/ RouteAccepted(p) \/ GatewayListener(p) \/ ProveGateway(p)
    BY <2>1, PhaseStays DEF LoadControlledOci, BuildImages, InstallPlatform, ApplyData, ApplyApp, ProveRestart, ProveFluxDrift,
                            RouteAccepted, GatewayListener, ProveGateway
  <2>2. CASE Preflight(p) \/ PrepareOciHost(p) \/ WriteReceipt(p) \/ Exit(p)
    BY <2>2 DEF Preflight, PrepareOciHost, WriteReceipt, Exit, hostVars
  <2> QED
    BY <2>1, <2>2 DEF ReferenceStep
<1>5. ~HaTool(p)
  BY <1>2 DEF ProofTool, HaTool
<1> QED
  BY <1>1, <1>2, <1>3, <1>4, <1>5, ElsewhereThanPrimary, OtherToolsKeep

LEMMA StagingKeeping ==
  ASSUME Host, Kept, DistinctNames, SeparateSites, NEW p \in Procs, StagingStep(p), UNCHANGED haVars
  PROVE  Keeping(p)
<1>1. OwnStep(p) /\ (UpMoves(p) \/ DownMoves(p) \/ StatusMoves(p))
  BY StagingStepMoves, StagingIsOwn
<1>2. /\ ~HaTool(p) /\ pc[p] # "idle" /\ DOMAIN pc = Procs
      /\ \E t \in {"done", "failed", "reserve", "require_owned", "delete_if_present", "down_check"} \cup Upping : pc' = [pc EXCEPT ![p] = t]
  BY <1>1 DEF UpMoves, DownMoves, StatusMoves, StagingUp, HaTool, Host, HostTypes, Upping
<1>3. pc'[p] \notin {"idle", "delete_kubeconfig", "deleted", "absent"}
  BY <1>2 DEF Upping
<1>4. \A n \in Names : n # Name(p) => inside'[n] = inside[n]
  <2>1. CASE PrepareVolumes(p) \/ UpPlatform(p) \/ InjectSecrets(p) \/ ApplyFlux(p) \/ VolumesBound(p) \/ ReconcileData(p)
    <3>1. inside' = inside \/ \E after : inside' = [inside EXCEPT ![Name(p)] = after]
      BY <2>1 DEF PrepareVolumes, UpPlatform, InjectSecrets, ApplyFlux, VolumesBound, ReconcileData, UpStep
    <3> QED
      BY <3>1 DEF Host, HostTypes
  <2>2. CASE \/ LifecycleLock(p) \/ ToolReceipt(p) \/ UpCheck(p) \/ UpSecret(p) \/ UpBind(p) \/ RenderKindConfig(p)
             \/ UpReceipt(p) \/ StagingRaise(p) \/ DownCheck(p) \/ DownReceipt(p) \/ StatusCheck(p) \/ StatusHealth(p)
    BY <2>2 DEF LifecycleLock, ToolReceipt, UpCheck, UpSecret, UpBind, RenderKindConfig, UpReceipt, StagingRaise, DownCheck,
                DownReceipt, StatusCheck, StatusHealth, hostVars
  <2> QED
    BY <2>1, <2>2 DEF StagingStep
<1> QED
  BY <1>1, <1>2, <1>3, <1>4, ElsewhereThanPrimary, OtherToolsKeep

LEMMA StartKeeping ==
  ASSUME Host, Kept, NEW p \in Procs, StartTool(p)
  PROVE  Keeping(p)
<1>1. OwnStep(p) /\ inside' = inside /\ pc[p] = "idle"
  BY StartIsOwn DEF StartTool, StartProof, StartDown, StartStaging, StartHa, Start
<1>2. ha \in [Procs -> Locals] /\ ha[p] = HaIdle /\ DOMAIN pc = Procs /\ DOMAIN arg = Procs
  BY <1>1 DEF Kept, Tidy, Local, Host, HostTypes
<1>3. Data(HaPrimary)' \subseteq Data(HaPrimary) /\ UNCHANGED <<store, archive>>
  BY <1>1 DEF Data, StartTool, StartHa, haVars
<1>4. ASSUME NEW h, ha' = [ha EXCEPT ![p] = h]
      PROVE  Effects(p)
  BY <1>1, <1>2, <1>3, <1>4 DEF Effects, OwnStep
<1>5. CASE (StartProof(p) \/ StartDown(p) \/ StartStaging(p)) /\ UNCHANGED haVars
  <2>1. ha' = ha /\ ha' = [ha EXCEPT ![p] = ha[p]]
    BY <1>2, <1>5 DEF haVars
  <2>2. /\ arg'[p].cmd \in {"proof", "down", "up", "staging_down", "status"}
        /\ pc'[p] \in {"proof", "delete_if_present", "up", "staging_down", "status"}
    BY <1>2, <1>5 DEF StartProof, StartDown, StartStaging, Start, Goto
  <2>3. ~HaTool(p)' /\ ~HaProof(p)' /\ arg'[p].cmd # "ha_down" /\ ha'[p].stage = "none"
    BY <1>2, <2>1, <2>2 DEF HaTool, HaProof, HaIdle
  <2>4. Tidy(p)'
    BY <2>2, <2>3 DEF Tidy, Local, Staged, Keeps, Primary, Retiring, InOrder, Cleared, Vacated
  <2> QED
    BY <1>2, <1>4, <2>1, <2>4 DEF Keeping
<1>6. CASE StartHa(p)
  <2>1. PICK o \in Owners, c \in Commits, keep \in BOOLEAN :
          \/ Start(p, "ha_proof", "ha", HaPrimary, o, c) /\ ha' = [ha EXCEPT ![p].keep = keep]
          \/ /\ Start(p, "ha_down", "ha_finally", HaPrimary, o, c)
             /\ ha' = [ha EXCEPT ![p].primary = TRUE, ![p].restore = TRUE, ![p].store = TRUE]
    BY <1>6 DEF StartHa
  <2>2. CASE Start(p, "ha_proof", "ha", HaPrimary, o, c) /\ ha' = [ha EXCEPT ![p].keep = keep]
    <3> DEFINE h == [HaIdle EXCEPT !.keep = keep]
    <3>1. h \in Locals /\ h.stage = "none"
      BY DEF HaIdle, Locals
    <3>2. ha' = [ha EXCEPT ![p] = h]
      BY <1>2, <2>2
    <3> HIDE DEF h
    <3>3. ha' \in [Procs -> Locals] /\ ha'[p].stage = "none"
      BY <1>2, <3>1, <3>2
    <3>4. arg'[p].cmd = "ha_proof" /\ Site(p)' = HaPrimary /\ pc'[p] = "ha"
      BY <1>2, <2>2 DEF Start, Goto, Site
    <3>5. HaProof(p)' /\ Local(p)'
      BY <3>3, <3>4 DEF Local, HaProof
    <3>6. Staged(p)'
      BY <3>3, <3>4 DEF Staged, Creating, Operating, AtPrimary, Early, Storing, Measuring, Closing
    <3>7. Keeps(p)'
      BY <3>3 DEF Keeps, Primary, Retiring
    <3> QED
      BY <1>4, <3>2, <3>3, <3>5, <3>6, <3>7, ProofIsTidy DEF Keeping
  <2>3. CASE /\ Start(p, "ha_down", "ha_finally", HaPrimary, o, c)
             /\ ha' = [ha EXCEPT ![p].primary = TRUE, ![p].restore = TRUE, ![p].store = TRUE]
    <3> DEFINE h == [HaIdle EXCEPT !.primary = TRUE, !.restore = TRUE, !.store = TRUE]
    <3>1. h \in Locals /\ h.stage = "none" /\ h.primary /\ h.restore /\ h.store /\ ~h.keep
      BY DEF HaIdle, Locals
    <3>2. ha' = [ha EXCEPT ![p] = h]
      BY <1>2, <2>3
    <3> HIDE DEF h
    <3>3. ha' \in [Procs -> Locals] /\ ha'[p] = h
      BY <1>2, <3>1, <3>2
    <3>4. arg'[p].cmd = "ha_down" /\ pc'[p] = "ha_finally"
      BY <1>2, <2>3 DEF Start, Goto
    <3>5. ~HaProof(p)' /\ Local(p)' /\ Staged(p)' /\ Keeps(p)' /\ Cleared(p)' /\ Vacated(p)'
      BY <3>1, <3>3, <3>4 DEF Local, HaProof, Staged, Keeps, Primary, Retiring, Cleared, Vacated, Cleaning, Deleting
    <3>6. InOrder(p)'
      BY <3>1, <3>3, <3>4 DEF InOrder, Cleaning, Deleting
    <3> QED
      BY <1>4, <3>2, <3>3, <3>5, <3>6 DEF Keeping, Tidy
  <2> QED
    BY <2>1, <2>2, <2>3
<1> QED
  BY <1>5, <1>6 DEF StartTool

LEMMA CrashKeeping ==
  ASSUME Host, Kept, NEW p \in Procs, Crash(p)
  PROVE  Keeping(p)
<1>1. /\ UNCHANGED <<cluster, inside, marker, arg, store>> /\ pc'[p] = "crashed" /\ \A q \in Procs \ {p} : pc'[q] = pc[q]
  BY CrashOf
<1>2. archive' = archive /\ ha' = [ha EXCEPT ![p] = HaIdle] /\ ha \in [Procs -> Locals]
  BY DEF Crash, Kept
<1>3. HaIdle \in Locals /\ HaIdle.stage = "none" /\ ~HaIdle.keep
  BY DEF HaIdle, Locals
<1>4. ha' \in [Procs -> Locals] /\ ha'[p] = HaIdle /\ \A q \in Procs \ {p} : ha'[q] = ha[q]
  BY <1>2, <1>3
<1>5. Effects(p)
  BY <1>1, <1>2, <1>4 DEF Effects, Data
<1>6. Local(p)'
  BY <1>1, <1>3, <1>4 DEF Local
<1>7. Staged(p)'
  BY <1>1, <1>3, <1>4 DEF Staged, Creating, Operating, AtPrimary, Early, Storing, Measuring, Closing
<1>8. Keeps(p)'
  BY <1>3, <1>4 DEF Keeps, Primary, Retiring
<1>9. InOrder(p)' /\ Cleared(p)' /\ Vacated(p)'
  BY <1>1, <1>3, <1>4 DEF InOrder, Cleared, Vacated, Cleaning, Deleting, Terminal
<1> QED
  BY <1>4, <1>5, <1>6, <1>7, <1>8, <1>9 DEF Keeping, Tidy

\* Nothing moves, and the archive only grows.
LEMMA StillKept ==
  ASSUME Kept, UNCHANGED <<pc, arg, ha, cluster, marker, store>>, archive \subseteq archive', Data(HaPrimary)' \subseteq Data(HaPrimary)
  PROVE  Kept'
<1> SUFFICES ASSUME NEW q \in Procs
             PROVE  Tidy(q)'
  BY DEF Kept
<1>1. Tidy(q)
  BY DEF Kept
<1>2. Local(q)' /\ Staged(q)' /\ InOrder(q)'
  BY <1>1 DEF Tidy, Local, Staged, InOrder, HaTool, HaProof, Active, Site
<1>3. Keeps(q)'
  <2>1. Primary(q)' = Primary(q) /\ Retiring(q)' = Retiring(q) /\ Bound(q)' = Bound(q)
    BY DEF Primary, Retiring, HaProof, Bound
  <2>2. (Primary(q) /\ pc[q] \in Closing) \/ Retiring(q) => Data(HaPrimary)' \subseteq archive'
    BY <1>1 DEF Tidy, Keeps
  <2> QED
    BY <1>1, <2>1, <2>2 DEF Tidy, Keeps
<1>4. Cleared(q)' /\ Vacated(q)'
  BY <1>1 DEF Tidy, Cleared, Vacated, Pending, Site, Bound
<1> QED
  BY <1>2, <1>3, <1>4 DEF Tidy

LEMMA EnvironmentKeepsKept ==
  ASSUME Host, Kept, Environment
  PROVE  Kept'
<1>1. UNCHANGED <<pc, arg, cluster, marker, store>>
  BY EnvironmentOf
<1>2. ha' = ha /\ archive \subseteq archive'
  BY DEF Environment, haVars, WalArchived
<1>3. Data(HaPrimary)' \subseteq Data(HaPrimary)
  <2>1. ASSUME NEW n \in Names, FluxReconciles(n)
        PROVE  Data(HaPrimary)' \subseteq Data(HaPrimary)
    <3> DEFINE new == [inside[n] EXCEPT !.current = TRUE, !.phases = @ \cup {"volumes"}]
    <3>1. DOMAIN inside = Names /\ Contents(inside[n]) /\ NameOf[HaPrimary] \in Names
      BY HaAssumption DEF Host, HostTypes, Names
    <3>2. new.phases = inside[n].phases \cup {"volumes"}
      BY <3>1 DEF Contents
    <3>3. inside' = [inside EXCEPT ![n] = new]
      BY <2>1, <3>1 DEF FluxReconciles
    <3> HIDE DEF new
    <3>4. inside'[NameOf[HaPrimary]] = IF NameOf[HaPrimary] = n THEN new ELSE inside[NameOf[HaPrimary]]
      BY <3>1, <3>3
    <3> QED
      BY <3>2, <3>4 DEF Data, Mutations
  <2>2. CASE LoseSecret \/ LoseReceipt \/ WalArchived
    BY <2>2 DEF LoseSecret, LoseReceipt, WalArchived, kindVars, hostVars, Data
  <2> QED
    BY <2>1, <2>2 DEF Environment
<1> QED
  BY <1>1, <1>2, <1>3, StillKept

LEMMA InitKept ==
  ASSUME Init
  PROVE  Kept
<1>1. ha = [p \in Procs |-> HaIdle] /\ pc = [p \in Procs |-> "idle"] /\ arg = [p \in Procs |-> NoArg]
  BY DEF Init, HaInit, KindInit
<1>2. HaIdle \in Locals /\ HaIdle.stage = "none" /\ NoArg.cmd = "none"
  BY DEF HaIdle, Locals, NoArg
<1>3. ASSUME NEW p \in Procs
      PROVE  Tidy(p)
  <2>1. ha[p] = HaIdle /\ pc[p] = "idle" /\ arg[p].cmd = "none"
    BY <1>1, <1>2
  <2> QED
    BY <1>2, <2>1 DEF Tidy, Local, HaTool, HaProof, Staged, Keeps, Primary, Retiring, InOrder, Cleared, Vacated
<1> QED
  BY <1>1, <1>2, <1>3 DEF Kept

LEMMA NextKept ==
  ASSUME Host, Owned, Proven, Kept, DistinctNames, SeparateSites, [Next]_platformVars
  PROVE  Kept'
<1>1. ASSUME NEW p \in Procs, Keeping(p)
      PROVE  Kept'
  <2>1. ASSUME NEW q \in Procs
        PROVE  Tidy(q)'
    BY <1>1, OthersKeep DEF Keeping
  <2> QED
    BY <1>1, <2>1 DEF Keeping, Kept
<1>2. ASSUME NEW p \in Procs, ToolStep(p)
      PROVE  Keeping(p)
  <2>1. CASE KindStep(p) /\ UNCHANGED <<referenceVars, stagingVars, haVars>>
    BY <2>1, KindHasEffects, KindIsTidy DEF Keeping, Kept, haVars
  <2>2. CASE ReferenceStep(p) /\ UNCHANGED <<stagingVars, haVars>>
    BY <2>2, ReferenceKeeping
  <2>3. CASE StagingStep(p) /\ UNCHANGED <<referenceVars, haVars>>
    BY <2>3, StagingKeeping
  <2>4. CASE HaToolStep(p) /\ UNCHANGED <<referenceVars, stagingVars>>
    BY <2>4, HaToolKeeping
  <2> QED
    BY <1>2, <2>1, <2>2, <2>3, <2>4 DEF ToolStep
<1>3. CASE Environment
  BY <1>3, EnvironmentKeepsKept
<1>4. CASE UNCHANGED platformVars
  <2>1. UNCHANGED <<pc, arg, ha, cluster, marker, store, archive, inside>>
    BY <1>4 DEF platformVars, kindVars, hostVars, procVars, haVars
  <2> QED
    BY <2>1, StillKept DEF Data
<1> QED
  BY <1>1, <1>2, <1>3, <1>4, StartKeeping, CrashKeeping DEF Next

-----------------------------------------------------------------------------
(* Retirement and the cleanup receipts *)

\* The cluster of a proof at the stage "retire" is removed by itself, when
\* it is about to delete it.
LEMMA OnlyRetiringRemoves ==
  ASSUME Host, Owned, Proven, Kept, DistinctNames, SeparateSites, [Next]_platformVars, NEW p \in Procs,
         ha[p].stage = "retire", cluster[Name(p)] = p, cluster'[Name(p)] = NoCluster
  PROVE  Data(HaPrimary) \subseteq archive
<1>1. HaTool(p) /\ Active(p) /\ Tidy(p)
  BY DEF Kept, Tidy, Local
<1>2. pc[p] # "idle" /\ Program(p) /\ AtItsSite(p)
  BY <1>1, ToolsAreBusy DEF Fresh, Host
<1>3. Name(p) \in Names /\ Site(p) \in Sites /\ Site(p) \in {HaPrimary, HaRestore} /\ p # NoCluster
  BY <1>1, <1>2, ArgOf, NullAssumption DEF AtItsSite, HaTool, Site
<1>4. cluster' # cluster
  BY <1>3
<1>5. Next
  BY <1>4 DEF platformVars, kindVars, hostVars
<1>6. PICK q \in Procs : KindStep(q) /\ UNCHANGED haVars
  BY <1>4, <1>5, StepsOfHost, CrashOf, EnvironmentOf DEF OwnStep
<1>7. Name(q) = Name(p) /\ Bound(q) = Bound(p) /\ Active(q) /\ pc[q] # "idle"
  BY <1>3, <1>6, KindChangesOwn, KindHasEffects
<1>8. Site(q) = Site(p)
  <2>1. Site(q) \in Sites
    BY <1>7, ArgOf
  <2> QED
    BY <1>3, <1>7, <2>1 DEF DistinctNames, Name
<1>9. q = p
  BY <1>1, <1>3, <1>7, <1>8, ToolOfSite, BindingsDiffer
<1>10. pc[p] \in {"rollback", "kind_delete"}
  <2>1. CASE KindCreate(p)
    <3>1. cluster' = cluster \/ cluster' = [cluster EXCEPT ![Name(p)] = p]
      BY <2>1 DEF KindCreate
    <3>2. DOMAIN cluster = Names
      BY DEF Host, HostTypes
    <3> QED
      BY <1>3, <3>1, <3>2
  <2>2. CASE Rollback(p) \/ KindDelete(p)
    BY <2>2 DEF Rollback, KindDelete
  <2>3. CASE ~(KindCreate(p) \/ Rollback(p) \/ KindDelete(p))
    BY <1>4, <1>6, <1>9, <2>3 DEF KindStep, Reserve, ConfigureAccess, RemoveMarker, RemoveKubeconfig, TryAgain, RequireOwned,
                                  ExportKubeconfig, DeleteOwned, hostVars
  <2> QED
    BY <2>1, <2>2, <2>3
<1>11. HaProof(p)
  <2>1. pc[p] # "ha_finally" /\ pc[p] \notin Terminal
    BY <1>1, <1>10 DEF Active
  <2>2. arg[p].cmd # "ha_down"
    BY <1>1, <2>1 DEF Tidy, InOrder
  <2> QED
    BY <1>1, <2>2 DEF HaTool, HaProof
<1>12. pc[p] = "kind_delete"
  <2>1. "rollback" \in Creating
    BY DEF Creating
  <2> QED
    BY <1>1, <1>10, <1>11, <2>1 DEF Tidy, Staged
<1> QED
  BY <1>1, <1>11, <1>12 DEF Tidy, Keeps, Retiring

(* Retirement loses nothing: the proof deletes its primary only when every  *)
(* acknowledged mutation of it is in the object store, whichever tools and  *)
(* invocations ran or died meanwhile.                                       *)
THEOREM HostRetirementLosesNothing ==
  ASSUME DistinctNames, SeparateSites
  PROVE  Spec => RetirementLosesNothing
<1>1. Init => Host /\ Owned /\ Proven /\ Kept
  BY InitHost, InitOwned, InitProven, InitKept
<1>2. Host /\ Owned /\ Proven /\ Kept /\ [Next]_platformVars => Host' /\ Owned' /\ Proven' /\ Kept'
  BY NextHost, NextOwned, NextProven, NextKept
<1>3. Host /\ Owned /\ Proven /\ Kept /\ [Next]_platformVars =>
        [\A p \in Procs : ha[p].stage = "retire" /\ cluster[Name(p)] = p
                            /\ cluster'[Name(p)] = NoCluster =>
            Data(HaPrimary) \subseteq archive]_platformVars
  BY OnlyRetiringRemoves
<1> QED
  BY <1>1, <1>2, <1>3, PTL DEF Spec, RetirementLosesNothing

\* Nothing else than its exit ends a down command with 0.
LEMMA OnlyExitsAreDone ==
  ASSUME Host, Kept, [Next]_platformVars, NEW p \in Procs, arg[p].cmd \in {"down", "ha_down"}, pc'[p] = "done", pc[p] # "done"
  PROVE  \/ arg[p].cmd = "down" /\ pc[p] \in {"deleted", "absent"}
         \/ arg[p].cmd = "ha_down" /\ pc[p] = "ha_exit" /\ ~ha[p].dirty
<1>0. pc[p] # "idle" /\ DOMAIN pc = Procs /\ Program(p) /\ Tidy(p)
  BY IdleIsBlank DEF Host, HostTypes, Kept
<1>1. pc' # pc
  OBVIOUS
<1>2. Next /\ ~Environment
  BY <1>1, EnvironmentOf DEF platformVars, kindVars, procVars
<1>3. PICK q \in Procs : StartTool(q) \/ ToolStep(q) \/ Crash(q)
  BY <1>2 DEF Next
<1>4. ~Crash(q)
  BY <1>3, CrashOf
<1>5. ~StartTool(q)
  <2>1. ASSUME StartTool(q)
        PROVE  FALSE
    <3>1. pc[q] = "idle"
      BY <2>1 DEF StartTool, StartProof, StartDown, StartStaging, StartHa, Start
    <3>2. OwnStep(q)
      BY <2>1, StartIsOwn
    <3> QED
      BY <1>0, <3>1, <3>2 DEF OwnStep
  <2> QED
    BY <2>1
<1>6. CASE KindStep(q)
  <2>1. \E t \in Creating \cup Requiring \cup Deleting \cup {"raise"} : pc' = [pc EXCEPT ![q] = t]
    BY <1>6, KindStepMoves DEF KindMoves
  <2>2. "done" \notin Creating \cup Requiring \cup Deleting \cup {"raise"}
    BY DEF Creating, Requiring, Deleting
  <2> QED
    BY <1>0, <2>1, <2>2
<1>7. CASE ReferenceStep(q)
  <2>1. ReferenceMoves(q) /\ OwnStep(q)
    BY <1>7, ReferenceStepMoves, ReferenceIsOwn
  <2>2. q = p /\ ProofTool(p) /\ arg[p].cmd = "down"
    BY <2>1 DEF OwnStep, ReferenceMoves, ProofTool
  <2>3. pc[p] \notin {"proof", "oci_host", "receipt"}
    BY <1>0, <2>2 DEF Program, Deleting, Ended, Terminal
  <2>4. Exit(p)
    BY <1>7, <2>2, <2>3 DEF ReferenceStep, Preflight, PrepareOciHost, WriteReceipt, Phase, LoadControlledOci, BuildImages,
              InstallPlatform, ApplyData, ApplyApp, ProveRestart, ProveFluxDrift, RouteAccepted, GatewayListener, ProveGateway
  <2>5. pc[p] \in {"kept", "deleted", "absent"}
    BY <1>0, <2>4 DEF Exit, End, Goto
  <2>6. pc[p] # "kept"
    BY <1>0, <2>2 DEF Program, Deleting, Ended, Terminal
  <2> QED
    BY <2>2, <2>5, <2>6
<1>8. CASE StagingStep(q)
  <2>1. OwnStep(q) /\ (UpMoves(q) \/ DownMoves(q) \/ StatusMoves(q))
    BY <1>8, StagingStepMoves, StagingIsOwn
  <2> QED
    BY <2>1 DEF OwnStep, UpMoves, DownMoves, StatusMoves, StagingUp
<1>9. CASE HaToolStep(q)
  <2>1. HaMoves(q) /\ ha \in [Procs -> Locals]
    BY <1>9, HaToolStepMoves DEF Kept
  <2>2. q = p /\ HaTool(p) /\ arg[p].cmd = "ha_down"
    BY <2>1, HaStepSame DEF HaTool
  <2>3. pc[p] \in {"ha_finally"} \cup Cleaning \cup Terminal
    BY <1>0, <2>2 DEF Tidy, InOrder
  <2>4. ~Works(p)
    <3>1. pc[p] \in Working => pc[p] \notin {"ha_finally"} \cup Cleaning \cup Terminal
      BY WorkingIsInside
    <3> QED
      BY <2>3, <3>1 DEF Works
  <2>5. ~(HaBuilds(p) \/ HaMeasures(p) \/ HaAlign(p) \/ BarmanLeader(p) \/ HaBackup(p)
           \/ HaStopNode(p) \/ SecondMessage(p) \/ CountMessages(p) \/ HaStartNode(p) \/ HaArchived(p)
           \/ HaRestoreData(p) \/ HaReceipt(p))
    BY <2>1, <2>4, BuildsWork, MeasuresWork, BackupWorks, OthersWork
  <2>6. ~(HaTools(p) \/ HaPreflight(p) \/ HaCreated(p) \/ HaRaise(p) \/ StoreCheck(p) \/ StoreCreate(p) \/ HaRetire(p) \/ HaRetired(p))
    <3> USE <1>0 DEF Become, Goto, HaFail
    <3>1. ~(HaTools(p) \/ HaPreflight(p))
      BY DEF HaTools, HaPreflight, BeforeTry
    <3>2. ~(HaCreated(p) \/ HaRaise(p) \/ HaRetired(p))
      BY <2>2 DEF HaCreated, HaRaise, HaRetired, HaProof
    <3>3. ~(StoreCheck(p) \/ StoreCreate(p))
      BY DEF StoreCheck, StoreCreate
    <3>4. ~HaRetire(p)
      BY DEF HaRetire
    <3> QED
      BY <3>1, <3>2, <3>3, <3>4
  <2>7. ~(HaFinally(p) \/ HaCleanup(p) \/ HaCleaned(p) \/ ReconcileStore(p))
    BY <1>0 DEF HaFinally, HaCleanup, HaCleaned, ReconcileStore, StoreInspect, StoreRemove, StoreReconciled, Become, Goto
  <2>8. HaExit(p)
    BY <1>9, <2>2, <2>5, <2>6, <2>7 DEF HaToolStep, HaBuilds, HaMeasures
  <2>9. pc[p] = "ha_exit" /\ ~ha[p].dirty
    BY <1>0, <2>8 DEF HaExit, End, Goto
  <2> QED
    BY <2>2, <2>9
<1> QED
  BY <1>3, <1>4, <1>5, <1>6, <1>7, <1>8, <1>9 DEF ToolStep

LEMMA NothingIsLeft ==
  ASSUME Host, Owned, Proven, Kept, [Next]_platformVars, NEW p \in Procs,
         arg[p].cmd \in {"down", "ha_down"}, pc'[p] = "done", pc[p] # "done"
  PROVE  NothingOwned(p)
<1>1. pc[p] # "idle" /\ Tidy(p)
  BY IdleIsBlank DEF Kept
<1>2. ASSUME NEW s \in Sites, marker[s] # Bound(p), cluster[NameOf[s]] # NoCluster
      PROVE  Bound(cluster[NameOf[s]]) # Bound(p)
  BY <1>2 DEF Owned, Marked
<1>3. CASE arg[p].cmd = "down" /\ pc[p] \in {"deleted", "absent"}
  <2>1. marker[Site(p)] # Bound(p) /\ ~HaTool(p)
    BY <1>1, <1>3 DEF Tidy, Vacated, HaTool
  <2>2. Site(p) \in Sites
    BY <1>1, ArgOf
  <2> QED
    BY <1>2, <2>1, <2>2 DEF NothingOwned
<1>4. CASE arg[p].cmd = "ha_down" /\ pc[p] = "ha_exit" /\ ~ha[p].dirty
  <2>1. HaTool(p) /\ pc[p] \in Cleaning /\ pc[p] \notin {"ha_cleanup", "raise"} \cup Deleting \cup Standing
    BY <1>4 DEF HaTool, Cleaning, Deleting, Standing
  <2>2. ~ha[p].restore /\ ~ha[p].primary
    BY <1>1, <1>4, <2>1 DEF Tidy, InOrder
  <2>3. Cleared(p)
    BY <1>1 DEF Tidy
  <2>4. ASSUME NEW s \in {HaPrimary, HaRestore}
        PROVE  marker[s] # Bound(p) /\ s \in Sites
    BY <1>4, <2>1, <2>2, <2>3, HaAssumption DEF Cleared, Pending
  <2>5. \A r \in {"container", "volume"} : store[r] # Bound(p)
    BY <1>4, <2>1, <2>3 DEF Cleared
  <2>6. DOMAIN store = {"container", "volume"}
    BY DEF Proven, StoreTypes
  <2>7. \A s \in {HaPrimary, HaRestore} : cluster[NameOf[s]] # NoCluster => Bound(cluster[NameOf[s]]) # Bound(p)
    BY <1>2, <2>4
  <2> QED
    BY <2>1, <2>5, <2>6, <2>7 DEF NothingOwned
<1> QED
  BY <1>3, <1>4, OnlyExitsAreDone

(* The cleanup receipts are true: when either down command returns 0, no    *)
(* cluster at its sites and no part of the object store carries its         *)
(* binding, wherever the proof before it failed or was killed.              *)
THEOREM HostCleanupReceiptIsTrue ==
  ASSUME DistinctNames, SeparateSites
  PROVE  Spec => CleanupReceiptIsTrue
<1>1. Init => Host /\ Owned /\ Proven /\ Kept
  BY InitHost, InitOwned, InitProven, InitKept
<1>2. Host /\ Owned /\ Proven /\ Kept /\ [Next]_platformVars => Host' /\ Owned' /\ Proven' /\ Kept'
  BY NextHost, NextOwned, NextProven, NextKept
<1>3. Host /\ Owned /\ Proven /\ Kept /\ [Next]_platformVars =>
        [\A p \in Procs :
            arg[p].cmd \in {"down", "ha_down"} /\ pc'[p] = "done" /\ pc[p] # "done" =>
                NothingOwned(p)]_platformVars
  BY NothingIsLeft
<1> QED
  BY <1>1, <1>2, <1>3, PTL DEF Spec, CleanupReceiptIsTrue

===============================================================================
