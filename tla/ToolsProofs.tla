---------------------------- MODULE ToolsProofs ----------------------------
(***************************************************************************)
(* Theorems about the operator's tools: the tool bootstrap, the benchmark  *)
(* fixture and the two tools that rewrite the production environment, for  *)
(* every number of processes that run them on the same files; the          *)
(* observers of the production site and the evidence for a load run,       *)
(* whatever changes under them; the way of an image from the mirror        *)
(* through a reusable proof into a build; the hybrid ranking with a        *)
(* provider that changes between its calls; and the monitor that measures  *)
(* an outage.                                                              *)
(***************************************************************************)
EXTENDS ToolBootstrap, ScaleFixture, EnvReconcile, PublicProduction, RuntimeEvidence,
        OciImages, HybridRanking, HaAvailability, FiniteSetTheorems, WellFoundedInduction, TLAPS

(***************************************************************************)
(* Tool bootstrap.  A receipt outlives the check of the binary, so the     *)
(* invariant starts where the check succeeds.                              *)
(***************************************************************************)

InstallerTypes ==
    [at : {"idle", "lock", "extract", "check", "receipt"}]
        \cup [at : {"fetch"}, source : Sources, left : Nat]
        \cup [at : {"install"}, candidate : ToolVersions]

BootstrapInv ==
    /\ installer \in [Installers -> InstallerTypes]
    /\ foreign \in [Installers -> BOOLEAN]
    /\ \A p \in Installers :
         /\ p \in toolReceipt \/ installer[p].at = "receipt" => (~foreign[p] => binary = ToolLock[p])
         /\ installer[p].at = "extract" => archive \in {ToolLock[q] : q \in Installers}

LEMMA InstallerStates ==
  /\ \A s \in {"idle", "lock", "extract", "check", "receipt"} : [at |-> s] \in InstallerTypes
  /\ \A s \in Sources, n \in Nat : [at |-> "fetch", source |-> s, left |-> n] \in InstallerTypes
  /\ \A c \in ToolVersions : [at |-> "install", candidate |-> c] \in InstallerTypes
  BY DEF InstallerTypes

\* An installer that moves keeps the others where they are.
LEMMA InstallerMoves ==
  ASSUME BootstrapInv, NEW p \in Installers, NEW state \in InstallerTypes, At_(p, state)
  PROVE  /\ installer' \in [Installers -> InstallerTypes] /\ installer'[p] = state
         /\ \A q \in Installers : q # p => installer'[q] = installer[q]
  BY DEF BootstrapInv, At_

\* A step that leaves binary and archive alone, to a place that claims nothing.
LEMMA QuietInstaller ==
  ASSUME BootstrapInv, NEW p \in Installers, NEW state \in InstallerTypes, At_(p, state),
         UNCHANGED <<archive, binary, toolReceipt, foreign>>,
         state.at # "receipt",
         state.at = "extract" => archive \in {ToolLock[q] : q \in Installers}
  PROVE  BootstrapInv'
  BY InstallerMoves DEF BootstrapInv

LEMMA InitBootstrap == BootstrapInit => BootstrapInv
<1> SUFFICES ASSUME BootstrapInit PROVE BootstrapInv
  OBVIOUS
<1>1. \A p \in Installers : installer[p].at = "idle"
  BY DEF BootstrapInit
<1>2. installer \in [Installers -> InstallerTypes] /\ foreign \in [Installers -> BOOLEAN]
  BY InstallerStates DEF BootstrapInit
<1> QED
  BY <1>1, <1>2 DEF BootstrapInit, BootstrapInv

LEMMA FetchStep ==
  ASSUME BootstrapInv, NEW p \in Installers, Fetch(p)
  PROVE  BootstrapInv'
<1>1. installer[p].at = "fetch" /\ UNCHANGED <<binary, toolReceipt, restarts, foreign>>
  BY DEF Fetch
<1>2. installer[p] \in [at : {"fetch"}, source : Sources, left : Nat]
  BY <1>1 DEF BootstrapInv, InstallerTypes
<1>3. ASSUME NEW got, Verified(p, got), archive' = got, At_(p, [at |-> "extract"]) PROVE BootstrapInv'
  <2>1. archive' \in {ToolLock[q] : q \in Installers}
    BY <1>3 DEF Verified
  <2>2. [at |-> "extract"] \in InstallerTypes
    BY InstallerStates
  <2>3. /\ installer' \in [Installers -> InstallerTypes] /\ installer'[p] = [at |-> "extract"]
        /\ \A q \in Installers : q # p => installer'[q] = installer[q]
    BY <1>3, <2>2, InstallerMoves
  <2> QED
    BY <1>1, <2>1, <2>3 DEF BootstrapInv
<1>4. ASSUME GivesUp(p), UNCHANGED archive PROVE BootstrapInv'
  BY <1>1, <1>4, InstallerStates, QuietInstaller DEF GivesUp
<1>5. ASSUME installer[p].left > 1, At_(p, [installer[p] EXCEPT !.left = @ - 1]), UNCHANGED archive
      PROVE  BootstrapInv'
  <2> DEFINE next == [installer[p] EXCEPT !.left = @ - 1]
  <2>1. next \in [at : {"fetch"}, source : Sources, left : Nat] /\ next.at = "fetch"
    BY <1>2, <1>5
  <2>2. next \in InstallerTypes /\ At_(p, next)
    BY <1>5, <2>1 DEF InstallerTypes
  <2> HIDE DEF next
  <2> QED
    BY <1>1, <1>5, <2>1, <2>2, QuietInstaller
<1>6. ASSUME At_(p, [at |-> "fetch", source |-> "canonical", left |-> Attempts]), UNCHANGED archive
      PROVE  BootstrapInv'
  <2>1. [at |-> "fetch", source |-> "canonical", left |-> Attempts] \in InstallerTypes
    BY InstallerStates, BootstrapAssumption DEF Sources
  <2> QED
    BY <1>1, <1>6, <2>1, QuietInstaller
<1> QED
  BY <1>3, <1>4, <1>5, <1>6 DEF Fetch

LEMMA NextBootstrap == BootstrapInv /\ [BootstrapNext]_bootstrapVars => BootstrapInv'
<1> SUFFICES ASSUME BootstrapInv, [BootstrapNext]_bootstrapVars PROVE BootstrapInv'
  OBVIOUS
<1>1. CASE UNCHANGED bootstrapVars
  BY <1>1 DEF bootstrapVars, BootstrapInv
<1>2. ASSUME NEW p \in Installers, Install(p) PROVE BootstrapInv'
  BY <1>2, InstallerStates, QuietInstaller DEF Install
<1>3. ASSUME NEW p \in Installers, LockDownload(p) PROVE BootstrapInv'
  <2>1. UNCHANGED <<archive, binary, toolReceipt, foreign>>
    BY <1>3 DEF LockDownload
  <2>2. CASE Verified(p, archive) /\ At_(p, [at |-> "extract"])
    BY <2>1, <2>2, InstallerStates, QuietInstaller DEF Verified
  <2>3. CASE \E s \in Sources : At_(p, [at |-> "fetch", source |-> s, left |-> Attempts])
    BY <2>1, <2>3, InstallerStates, QuietInstaller, BootstrapAssumption
  <2> QED
    BY <1>3, <2>2, <2>3 DEF LockDownload
<1>4. ASSUME NEW p \in Installers, Extract(p) PROVE BootstrapInv'
  BY <1>4, InstallerStates, QuietInstaller DEF Extract
<1>5. ASSUME NEW p \in Installers, InstallExecutable(p) PROVE BootstrapInv'
  <2>1. /\ At_(p, [at |-> "check"]) /\ UNCHANGED <<archive, toolReceipt>>
        /\ foreign' = IF binary' = binary THEN foreign ELSE [q \in Installers |-> TRUE]
    BY <1>5 DEF InstallExecutable
  <2>2. CASE binary' = binary
    BY <2>1, <2>2, InstallerStates, QuietInstaller
  <2>3. CASE binary' # binary
    <3>1. foreign' = [q \in Installers |-> TRUE]
      BY <2>1, <2>3
    <3>2. [at |-> "check"] \in InstallerTypes
      BY InstallerStates
    <3>3. /\ installer' \in [Installers -> InstallerTypes] /\ installer'[p] = [at |-> "check"]
          /\ \A q \in Installers : q # p => installer'[q] = installer[q]
      BY <2>1, <3>2, InstallerMoves
    <3> QED
      BY <2>1, <3>1, <3>3 DEF BootstrapInv
  <2> QED
    BY <2>2, <2>3
<1>6. ASSUME NEW p \in Installers, CheckBinary(p) PROVE BootstrapInv'
  <2>1. UNCHANGED <<archive, binary, toolReceipt>>
    BY <1>6 DEF CheckBinary
  <2>2. CASE /\ BinaryLocked(p) /\ At_(p, [at |-> "receipt"])
             /\ foreign' = [foreign EXCEPT ![p] = FALSE]
    <3>1. [at |-> "receipt"] \in InstallerTypes
      BY InstallerStates
    <3>2. /\ installer' \in [Installers -> InstallerTypes] /\ installer'[p] = [at |-> "receipt"]
          /\ \A q \in Installers : q # p => installer'[q] = installer[q]
      BY <2>2, <3>1, InstallerMoves
    <3>3. /\ foreign' \in [Installers -> BOOLEAN]
          /\ \A q \in Installers : q # p => foreign'[q] = foreign[q]
      BY <2>2 DEF BootstrapInv
    <3>4. binary' = ToolLock[p]
      BY <2>1, <2>2 DEF BinaryLocked, Verified
    <3> QED
      BY <2>1, <3>2, <3>3, <3>4 DEF BootstrapInv
  <2>3. CASE At_(p, [at |-> "idle"]) /\ UNCHANGED foreign
    BY <2>1, <2>3, InstallerStates, QuietInstaller
  <2> QED
    BY <1>6, <2>2, <2>3 DEF CheckBinary
<1>7. ASSUME NEW p \in Installers, WriteToolReceipt(p) PROVE BootstrapInv'
  <2>1. /\ installer[p].at = "receipt" /\ toolReceipt' = toolReceipt \cup {p} /\ At_(p, [at |-> "idle"])
        /\ UNCHANGED <<archive, binary, foreign>>
    BY <1>7 DEF WriteToolReceipt
  <2>2. /\ installer' \in [Installers -> InstallerTypes] /\ installer'[p] = [at |-> "idle"]
        /\ \A q \in Installers : q # p => installer'[q] = installer[q]
    BY <2>1, InstallerStates, InstallerMoves
  <2> QED
    BY <2>1, <2>2 DEF BootstrapInv
<1>8. ASSUME NEW p \in Installers, InstallerDies(p) PROVE BootstrapInv'
  BY <1>8, InstallerStates, QuietInstaller DEF InstallerDies, GivesUp
<1> QED
  BY <1>1, <1>2, <1>3, <1>4, <1>5, <1>6, <1>7, <1>8, FetchStep DEF BootstrapNext

\* A receipt stands for the locked binary until another installation replaces
\* it, and extraction starts from an archive that some lock pins, whatever
\* installers of whatever locks overlap in the cache (install, _download).
THEOREM BootstrapIsLocked == BootstrapSpec => []ToolsAreLocked
<1>1. BootstrapInv => ToolsAreLocked
  BY DEF BootstrapInv, ToolsAreLocked
<1> QED
  BY <1>1, InitBootstrap, NextBootstrap, PTL DEF BootstrapSpec

(***************************************************************************)
(* Benchmark fixture.  Nothing is said of the manifest: it may well have   *)
(* hashed another generator's files.  What counts is that a file is always *)
(* the whole file of one profile, and that row counts tell profiles apart. *)
(***************************************************************************)

NodeFiles == {NoRows} \cup {NodeRows(p) : p \in Profiles}
EdgeFiles == {NoRows} \cup {EdgeRows(p) : p \in Profiles}

FixtureInv ==
    /\ nodesFile \in NodeFiles /\ edgesFile \in EdgeFiles
    /\ generator \in [Generators ->
          {Idle} \cup [at : {"nodes", "edges", "hash"}, profile : Profiles]
                 \cup [at : {"manifest"}, profile : Profiles, nodes : NodeFiles, edges : EdgeFiles]]

LEMMA InitFixture == FixtureInit => FixtureInv
  BY DEF FixtureInit, FixtureInv, NodeFiles, EdgeFiles

LEMMA NextFixture == FixtureInv /\ [FixtureNext]_fixtureVars => FixtureInv'
<1> SUFFICES ASSUME FixtureInv, [FixtureNext]_fixtureVars PROVE FixtureInv'
  OBVIOUS
<1> DEFINE Busy == [at : {"nodes", "edges", "hash"}, profile : Profiles]
           Done == [at : {"manifest"}, profile : Profiles, nodes : NodeFiles, edges : EdgeFiles]
           States == {Idle} \cup Busy \cup Done
<1>1. nodesFile \in NodeFiles /\ edgesFile \in EdgeFiles /\ generator \in [Generators -> States]
  BY DEF FixtureInv
<1>2. ASSUME NEW g \in Generators, NEW s \in States, generator' = [generator EXCEPT ![g] = s]
      PROVE  generator' \in [Generators -> States]
  <2> HIDE DEF States
  <2> QED
    BY <1>1, <1>2
<1>3. ASSUME nodesFile' \in NodeFiles, edgesFile' \in EdgeFiles, generator' \in [Generators -> States]
      PROVE  FixtureInv'
  BY <1>3 DEF FixtureInv
<1>4. ASSUME NEW g \in Generators, generator[g].at \in {"nodes", "edges", "hash"}
      PROVE  generator[g] \in Busy /\ generator[g].profile \in Profiles
  BY <1>1, <1>4 DEF Idle
<1>5. ASSUME NEW g \in Generators, NEW p \in Profiles, GenerateStart(g, p) PROVE FixtureInv'
  <2>1. [at |-> "nodes", profile |-> p] \in States
    OBVIOUS
  <2>2. generator' \in [Generators -> States] /\ UNCHANGED <<nodesFile, edgesFile>>
    <3> HIDE DEF States
    <3> QED
      BY <1>2, <1>5, <2>1 DEF GenerateStart
  <2> QED
    BY <1>1, <1>3, <2>2
<1>6. ASSUME NEW g \in Generators, NEW a \in {"edges", "hash"}, generator[g].at \in {"nodes", "edges"},
             generator' = [generator EXCEPT ![g].at = a]
      PROVE  generator' \in [Generators -> States]
  <2>1. [generator[g] EXCEPT !.at = a] \in Busy
    BY <1>4, <1>6
  <2>2. [generator[g] EXCEPT !.at = a] \in States
    BY <2>1
  <2>3. generator' = [generator EXCEPT ![g] = [generator[g] EXCEPT !.at = a]]
    BY <1>6
  <2> HIDE DEF States
  <2> QED
    BY <1>2, <2>2, <2>3
<1>7. ASSUME NEW g \in Generators, GenerateNodes(g) PROVE FixtureInv'
  <2>1. nodesFile' \in NodeFiles /\ edgesFile' = edgesFile
    BY <1>4, <1>7 DEF GenerateNodes, NodeFiles
  <2>2. generator' \in [Generators -> States]
    <3> HIDE DEF States
    <3> QED
      BY <1>6, <1>7 DEF GenerateNodes
  <2> QED
    BY <1>1, <1>3, <2>1, <2>2
<1>8. ASSUME NEW g \in Generators, GenerateEdges(g) PROVE FixtureInv'
  <2>1. edgesFile' \in EdgeFiles /\ nodesFile' = nodesFile
    BY <1>4, <1>8 DEF GenerateEdges, EdgeFiles
  <2>2. generator' \in [Generators -> States]
    <3> HIDE DEF States
    <3> QED
      BY <1>6, <1>8 DEF GenerateEdges
  <2> QED
    BY <1>1, <1>3, <2>1, <2>2
<1>9. ASSUME NEW g \in Generators, HashFiles(g) PROVE FixtureInv'
  <2>1. generator[g].profile \in Profiles
    BY <1>4, <1>9 DEF HashFiles
  <2>2. [at |-> "manifest", profile |-> generator[g].profile, nodes |-> nodesFile, edges |-> edgesFile] \in States
    BY <1>1, <2>1
  <2>3. generator' \in [Generators -> States] /\ UNCHANGED <<nodesFile, edgesFile>>
    <3> HIDE DEF States
    <3> QED
      BY <1>2, <1>9, <2>2 DEF HashFiles
  <2> QED
    BY <1>1, <1>3, <2>3
<1>10. ASSUME NEW g \in Generators, WriteManifest(g) \/ GeneratorDies(g) PROVE FixtureInv'
  <2>1. Idle \in States
    OBVIOUS
  <2>2. generator' \in [Generators -> States] /\ UNCHANGED <<nodesFile, edgesFile>>
    <3> HIDE DEF States
    <3> QED
      BY <1>2, <1>10, <2>1 DEF WriteManifest, GeneratorDies
  <2> QED
    BY <1>1, <1>3, <2>2
<1>11. CASE RunWorkload \/ (\E p \in Profiles : CheckPlans(p)) \/ UNCHANGED fixtureVars
  <2>1. UNCHANGED <<nodesFile, edgesFile, generator>>
    BY <1>11 DEF RunWorkload, CheckPlans, fixtureVars
  <2> QED
    BY <1>1, <1>3, <2>1
<1> HIDE DEF States
<1> QED
  BY <1>5, <1>7, <1>8, <1>9, <1>10, <1>11 DEF FixtureNext, Generate

\* A fixture that the loaders accept is wholly of the profile its manifest
\* names, however many generators of whatever profiles overlap in the
\* directory or die in it (load_manifest, bind_manifest_to_config).
THEOREM FixtureIsWhole == FixtureSpec => []FixtureIsOneProfile
<1>1. FixtureInv => FixtureIsOneProfile
  <2> SUFFICES ASSUME FixtureInv, LoadBoundManifest
               PROVE  nodesFile = NodeRows(manifest.profile) /\ edgesFile = EdgeRows(manifest.profile)
    BY DEF FixtureIsOneProfile
  <2> DEFINE m == manifest.profile
  <2>1. /\ m \in Profiles /\ nodesFile # NoRows /\ edgesFile # NoRows
        /\ nodesFile.rows = NodeCount[m] /\ edgesFile.rows = EdgeCount[m]
    BY DEF LoadBoundManifest, FilesMatch, BoundToConfig
  <2>2. PICK p \in Profiles : nodesFile = NodeRows(p)
    BY <2>1 DEF FixtureInv, NodeFiles
  <2>3. PICK q \in Profiles : edgesFile = EdgeRows(q)
    BY <2>1 DEF FixtureInv, EdgeFiles
  <2>4. NodeCount[p] = NodeCount[m] /\ EdgeCount[q] = EdgeCount[m]
    BY <2>1, <2>2, <2>3 DEF NodeRows, EdgeRows
  <2>5. p = m /\ q = m
    BY <2>1, <2>4, FixtureAssumption
  <2> QED
    BY <2>2, <2>3, <2>5
<1> QED
  BY <1>1, InitFixture, NextFixture, PTL DEF FixtureSpec

(***************************************************************************)
(* Environment file.  Sound says what a tool may rely on at each of its    *)
(* places: the lock from its acquisition on, its own temporary file, an    *)
(* approved plan for the file as it still is, and the backup of that file. *)
(* The VAPID tool takes no lock; what it has read is current only as long  *)
(* as it has met no other writer, which raced records.                     *)
(***************************************************************************)

Mails == {NoMail} \cup {Selected(m) : m \in {x \in MailSettings : ValidSource(x)}}
EnvFiles == [mail : Mails, push : {Unset, Partial} \cup PushTools, inode : Nat]
SourceFiles == [mail : MailSettings, inode : Nat]
GoodPlans == {Plan(s, d) : s \in {x \in SourceFiles : ValidSource(x.mail)}, d \in EnvFiles}

Holding == {"source", "reread", "backup", "temp", "replace", "verify"}
Pushing == {"pushBackup", "pushFill", "pushReplace"}

Places ==
    {NotRunning} \cup [at : {"destination"}, source : SourceFiles]
                 \cup [at : {"lock"} \cup Holding, plan : GoodPlans]
                 \cup [at : Pushing, read : EnvFiles]

Sound(w, s) ==
    /\ s.at \in Holding => envLock = w
    /\ s.at = "replace" => w \in temps
    /\ s.at \in {"lock"} \cup Holding => s.plan \in approved
    /\ s.at \in {"backup", "temp", "replace"} /\ ~raced => s.plan.destination = env
    /\ s.at \in {"temp", "replace"} => Text(s.plan.destination) \in envBackups
    /\ s.at \in Pushing /\ ~raced => s.read = env /\ env.push = Unset
    /\ s.at \in Holding => w \in Reconcilers
    /\ s.at \in Pushing => w \in PushTools

EnvTypes ==
    /\ source \in SourceFiles /\ env \in EnvFiles /\ nextInode \in Nat
    /\ approved \subseteq GoodPlans
    /\ worker \in [Workers -> Places] /\ raced \in BOOLEAN

EnvInv ==
    /\ EnvTypes
    /\ \A w \in Workers : Sound(w, worker[w])
    /\ ~raced => \A v, w \in PushTools : InPush(v) /\ InPush(w) => v = w

LEMMA SelectedFields ==
    ASSUME NEW m \in MailSettings
    PROVE  /\ Selected(m).login = "1" /\ Selected(m).magic = "0"
           /\ Selected(m).base = CanonicalBase /\ Selected(m).auth = m.auth
           /\ Selected(m).port = m.port /\ Selected(m).secrets = m.secrets
  BY EnvAssumption DEF Selected

LEMMA PlanFields ==
    ASSUME NEW p \in GoodPlans
    PROVE  /\ p.destination \in EnvFiles
           /\ p.planned.push = p.destination.push
           /\ p.planned.mail \in Mails
           /\ p.planned = [mail |-> p.planned.mail, push |-> p.planned.push]
  BY DEF GoodPlans, Plan, ReconciledContent, SourceFiles, Mails

LEMMA FileFields ==
    ASSUME NEW f \in EnvFiles
    PROVE  f.mail \in Mails /\ f.push \in {Unset, Partial} \cup PushTools /\ f.inode \in Nat
  BY DEF EnvFiles

LEMMA SameFiles ==
    ASSUME NEW f \in EnvFiles, NEW g \in EnvFiles, f.inode = g.inode, Text(f) = Text(g)
    PROVE  f = g
<1>1. f.mail = g.mail /\ f.push = g.push
  BY DEF Text
<1> QED
  BY <1>1 DEF EnvFiles

LEMMA PlaceFields ==
    ASSUME NEW s \in Places
    PROVE  /\ s.at \in {"lock"} \cup Holding => s.plan \in GoodPlans
           /\ s.at \in Pushing => s.read \in EnvFiles
           /\ s.at = "destination" => s.source \in SourceFiles
  BY DEF Places, NotRunning, Holding, Pushing

LEMMA HolderMoves ==
    ASSUME worker \in [Workers -> Places], NEW w \in Workers, NEW at \in Holding,
           worker[w].at \in {"lock"} \cup Holding, Goto_(w, at)
    PROVE  \E s \in Places : s.at = at /\ s.plan = worker[w].plan /\ Step(w, s)
<1> DEFINE s == [worker[w] EXCEPT !.at = at]
<1>1. worker[w] \in [at : {"lock"} \cup Holding, plan : GoodPlans]
  BY DEF Places, NotRunning, Holding, Pushing
<1>2. s \in [at : {"lock"} \cup Holding, plan : GoodPlans] /\ s.at = at /\ s.plan = worker[w].plan
  BY <1>1
<1>3. Step(w, s)
  BY DEF Goto_, Step
<1> QED
  BY <1>2, <1>3 DEF Places

LEMMA PusherMoves ==
    ASSUME worker \in [Workers -> Places], NEW w \in Workers, NEW at \in Pushing,
           worker[w].at \in Pushing, Goto_(w, at)
    PROVE  \E s \in Places : s.at = at /\ s.read = worker[w].read /\ Step(w, s)
<1> DEFINE s == [worker[w] EXCEPT !.at = at]
<1>1. worker[w] \in [at : Pushing, read : EnvFiles]
  BY DEF Places, NotRunning, Holding, Pushing
<1>2. s \in [at : Pushing, read : EnvFiles] /\ s.at = at /\ s.read = worker[w].read
  BY <1>1
<1>3. Step(w, s)
  BY DEF Goto_, Step
<1> QED
  BY <1>2, <1>3 DEF Places

\* What a step of w may do to the state the others rely on.
Locks(w) == envLock' = envLock \/ (envLock = Nobody /\ envLock' = w) \/ Unlock(w)
Grows == /\ source' \in SourceFiles /\ env' \in EnvFiles /\ nextInode' \in Nat
         /\ approved' \subseteq GoodPlans /\ approved \subseteq approved'
         /\ envBackups \subseteq envBackups' /\ raced' \in BOOLEAN /\ (raced => raced')
KeepsTemps(w) == temps \ {w} \subseteq temps' \/ envLock = w
\* A writer leaves no other reader of the file it replaces, or the race is recorded.
KeepsFile(w) ==
    \/ env' = env
    \/ raced'
    \/ \A v \in Workers \ {w} : worker[v].at \notin {"backup", "temp", "replace"} \cup Pushing

LEMMA OthersStaySound ==
    ASSUME EnvInv, NEW w \in Workers, NEW v \in Workers \ {w},
           Locks(w), Grows, KeepsTemps(w), KeepsFile(w), NEW s, s = worker[v]
    PROVE  Sound(v, s)'
<1>0. Sound(v, s) /\ s \in Places
  BY DEF EnvInv, EnvTypes
<1>1. s.at \in Holding => envLock' = v
  BY <1>0, EnvAssumption DEF Sound, Locks, Unlock, Nobody, Workers
<1>2. s.at = "replace" => v \in temps'
  BY <1>0 DEF Sound, KeepsTemps, Holding
<1>3. s.at \in {"lock"} \cup Holding => s.plan \in approved'
  BY <1>0 DEF Sound, Grows
<1>4. s.at \in {"backup", "temp", "replace"} /\ ~raced' => s.plan.destination = env'
  BY <1>0 DEF Sound, Grows, KeepsFile
<1>5. s.at \in {"temp", "replace"} => Text(s.plan.destination) \in envBackups'
  BY <1>0 DEF Sound, Grows
<1>6. s.at \in Pushing /\ ~raced' => s.read = env' /\ env'.push = Unset
  BY <1>0 DEF Sound, Grows, KeepsFile
<1> QED
  BY <1>0, <1>1, <1>2, <1>3, <1>4, <1>5, <1>6 DEF Sound, Text

\* A step of one tool keeps the invariant when that tool is sound afterwards.
LEMMA WorkerStep ==
    ASSUME EnvInv, NEW w \in Workers, NEW s \in Places, Step(w, s),
           Locks(w), Grows, KeepsTemps(w), KeepsFile(w), Sound(w, s)',
           s.at \in Pushing /\ ~raced' => \A v \in PushTools \ {w} : ~InPush(v)
    PROVE  EnvInv'
<1>1. worker' \in [Workers -> Places] /\ worker'[w] = s
      /\ \A v \in Workers \ {w} : worker'[v] = worker[v]
  BY DEF EnvInv, EnvTypes, Step
<1>2. EnvTypes'
  BY <1>1 DEF EnvTypes, Grows
<1>3. ASSUME NEW v \in Workers PROVE Sound(v, worker[v])'
  <2>1. CASE v = w
    BY <2>1, <1>1 DEF Sound, Text
  <2>2. CASE v # w
    <3>1. PICK t : t = worker[v]
      OBVIOUS
    <3>2. Sound(v, t)'
      BY <2>2, <3>1, OthersStaySound
    <3> QED
      BY <3>1, <3>2, <2>2, <1>1 DEF Sound, Text
  <2> QED
    BY <2>1, <2>2
<1>4. ~raced' => \A u, v \in PushTools : InPush(u)' /\ InPush(v)' => u = v
  BY <1>1 DEF EnvInv, EnvTypes, InPush, Grows, Pushing, Workers
<1> QED
  BY <1>2, <1>3, <1>4 DEF EnvInv

LEMMA StopIsSound == ASSUME NEW w PROVE Sound(w, NotRunning)'
  BY DEF Sound, NotRunning, Holding, Pushing

LEMMA NotRunningIsPlace == NotRunning \in Places
  BY DEF Places

\* A tool that ends or is killed, with or without its lock.
LEMMA WorkerStops ==
    ASSUME EnvInv, NEW w \in Workers, Step(w, NotRunning), Locks(w), Grows,
           KeepsTemps(w), KeepsFile(w)
    PROVE  EnvInv'
<1>1. NotRunning.at \notin Pushing
  BY DEF NotRunning, Pushing
<1> QED
  BY <1>1, WorkerStep, StopIsSound, NotRunningIsPlace

\* Most steps leave the environment file and what is approved alone.
LEMMA NothingMoves ==
    ASSUME EnvInv, UNCHANGED <<source, env, nextInode, approved, raced>>,
           envBackups \subseteq envBackups', NEW w
    PROVE  Grows /\ KeepsFile(w)
  BY DEF EnvInv, EnvTypes, Grows, KeepsFile

LEMMA EditSourceKeeps ==
    ASSUME EnvInv, NEW m \in MailSettings, NEW inPlace \in BOOLEAN, EditSource(m, inPlace)
    PROVE  EnvInv'
<1>1. source' \in SourceFiles /\ nextInode' \in Nat
  BY DEF EnvInv, EnvTypes, EditSource, SourceFiles
<1>2. UNCHANGED <<env, envLock, envBackups, temps, approved, worker, raced>>
  BY DEF EditSource
<1>3. EnvTypes'
  BY <1>1, <1>2 DEF EnvInv, EnvTypes
<1>4. \A w \in Workers : Sound(w, worker[w])'
  BY <1>2 DEF EnvInv, Sound, Text
<1>5. ~raced' => \A v, w \in PushTools : InPush(v)' /\ InPush(w)' => v = w
  BY <1>2 DEF EnvInv, InPush
<1> QED
  BY <1>3, <1>4, <1>5 DEF EnvInv

LEMMA ReconcileStartKeeps ==
    ASSUME EnvInv, NEW r \in Reconcilers, ReconcileStart(r)
    PROVE  EnvInv'
<1>1. PICK s : s = [at |-> "destination", source |-> source]
  OBVIOUS
<1>2. s \in Places /\ s.at = "destination" /\ r \in Workers
  BY <1>1 DEF EnvInv, EnvTypes, Places, Workers
<1>3. Step(r, s) /\ Locks(r) /\ KeepsTemps(r)
  BY <1>1 DEF ReconcileStart, Locks, KeepsTemps
<1>4. Grows /\ KeepsFile(r)
  BY NothingMoves DEF ReconcileStart
<1>5. Sound(r, s)' /\ s.at \notin Pushing
  BY <1>2 DEF Sound, Holding, Pushing
<1> QED
  BY <1>2, <1>3, <1>4, <1>5, WorkerStep

LEMMA ReconcilePlanKeeps ==
    ASSUME EnvInv, NEW r \in Reconcilers, NEW apply \in BOOLEAN, ReconcilePlan(r, apply)
    PROVE  EnvInv'
<1>0. r \in Workers /\ worker[r] \in Places
  BY DEF EnvInv, EnvTypes, Workers
<1> DEFINE p == Plan(worker[r].source, env)
           valid == ValidSource(worker[r].source.mail)
           go == valid /\ apply /\ p.planned # Text(env) /\ p \in approved
<1>1. worker[r].source \in SourceFiles
  BY <1>0, PlaceFields DEF ReconcilePlan
<1>2. valid => p \in GoodPlans
  BY <1>1 DEF EnvInv, EnvTypes, GoodPlans
<1>3. /\ approved' = IF valid /\ ~apply THEN approved \cup {p} ELSE approved
      /\ Step(r, IF go THEN [at |-> "lock", plan |-> p] ELSE NotRunning)
      /\ UNCHANGED <<source, env, nextInode, envLock, envBackups, temps, raced>>
  BY DEF ReconcilePlan
<1> HIDE DEF p, valid, go
<1>4. approved' \subseteq GoodPlans /\ approved \subseteq approved'
  BY <1>2, <1>3 DEF EnvInv, EnvTypes
<1>5. Grows /\ KeepsFile(r) /\ Locks(r) /\ KeepsTemps(r)
  BY <1>3, <1>4 DEF EnvInv, EnvTypes, Grows, KeepsFile, Locks, KeepsTemps
<1>6. CASE go
  <2>1. PICK s : s = [at |-> "lock", plan |-> p]
    OBVIOUS
  <2>2. p \in GoodPlans /\ p \in approved
    BY <1>6, <1>2 DEF go
  <2>3. s \in Places /\ s.at = "lock" /\ s.plan = p
    BY <2>1, <2>2 DEF Places
  <2>4. Step(r, s)
    BY <2>1, <1>3, <1>6
  <2>5. s.plan \in approved'
    BY <2>2, <2>3, <1>4
  <2>6. Sound(r, s)' /\ s.at \notin Pushing
    BY <2>3, <2>5 DEF Sound, Holding, Pushing
  <2> QED
    BY <1>0, <1>5, <2>3, <2>4, <2>6, WorkerStep
<1>7. CASE ~go
  BY <1>0, <1>3, <1>5, <1>7, WorkerStops
<1> QED
  BY <1>6, <1>7

LEMMA AcquireLockKeeps ==
    ASSUME EnvInv, NEW r \in Reconcilers, AcquireLock(r)
    PROVE  EnvInv'
<1>0. r \in Workers /\ worker \in [Workers -> Places]
  BY DEF EnvInv, EnvTypes, Workers
<1>1. Grows /\ KeepsFile(r) /\ KeepsTemps(r)
  BY NothingMoves DEF AcquireLock, KeepsTemps
<1>2. CASE LockFree /\ envLock' = r /\ Goto_(r, "source")
  <2>1. worker[r].at = "lock" /\ Sound(r, worker[r])
    BY <1>0 DEF AcquireLock, EnvInv
  <2>2. PICK s \in Places : s.at = "source" /\ s.plan = worker[r].plan /\ Step(r, s)
    BY <1>0, <1>2, <2>1, HolderMoves DEF Holding
  <2>3. s.plan \in approved'
    BY <2>1, <2>2, <1>1 DEF Sound, Grows
  <2>4. Sound(r, s)' /\ s.at \notin Pushing
    BY <2>2, <2>3, <1>2 DEF Sound, Holding, Pushing
  <2>5. Locks(r)
    BY <1>2 DEF Locks, LockFree
  <2> QED
    BY <1>0, <1>1, <2>2, <2>4, <2>5, WorkerStep
<1>3. CASE Step(r, NotRunning) /\ UNCHANGED envLock
  BY <1>0, <1>1, <1>3, WorkerStops DEF Locks
<1> QED
  BY <1>2, <1>3 DEF AcquireLock

\* A reconciler under the lock goes on to its next place.
LEMMA HolderGoesOn ==
    ASSUME EnvInv, NEW r \in Reconcilers, NEW at \in Holding, worker[r].at \in Holding,
           Goto_(r, at), UNCHANGED <<source, env, nextInode, envLock, approved, raced>>,
           envBackups \subseteq envBackups',
           at = "replace" => r \in temps',
           at \in {"backup", "temp", "replace"} /\ ~raced => worker[r].plan.destination = env,
           at \in {"temp", "replace"} => Text(worker[r].plan.destination) \in envBackups'
    PROVE  EnvInv'
<1>0. r \in Workers /\ worker \in [Workers -> Places] /\ Sound(r, worker[r])
  BY DEF EnvInv, EnvTypes, Workers
<1>1. PICK s \in Places : s.at = at /\ s.plan = worker[r].plan /\ Step(r, s)
  BY <1>0, HolderMoves
<1>2. Grows /\ KeepsFile(r)
  BY NothingMoves
<1>3. envLock = r /\ s.plan \in approved
  BY <1>0, <1>1 DEF Sound
<1>4. Locks(r) /\ KeepsTemps(r)
  BY <1>3 DEF Locks, KeepsTemps
<1>5. s.at \notin Pushing
  BY <1>1 DEF Holding, Pushing
<1>6. Sound(r, s)'
  BY <1>1, <1>3, <1>5 DEF Sound, Text
<1> QED
  BY <1>0, <1>1, <1>2, <1>4, <1>5, <1>6, WorkerStep

\* A reconciler that gives up under the lock.
LEMMA HolderGivesUp ==
    ASSUME EnvInv, NEW r \in Reconcilers, worker[r].at \in Holding, Step(r, NotRunning), Unlock(r),
           UNCHANGED <<source, env, nextInode, envBackups, approved, raced>>
    PROVE  EnvInv'
<1>0. r \in Workers /\ Sound(r, worker[r])
  BY DEF EnvInv, Workers
<1>1. Locks(r) /\ KeepsTemps(r)
  BY <1>0 DEF Locks, KeepsTemps, Sound
<1>2. Grows /\ KeepsFile(r)
  BY NothingMoves
<1> QED
  BY <1>0, <1>1, <1>2, WorkerStops

LEMMA RereadSourceKeeps ==
    ASSUME EnvInv, NEW r \in Reconcilers, RereadSource(r)
    PROVE  EnvInv'
<1>1. "reread" \in Holding /\ worker[r].at \in Holding
  BY DEF RereadSource, Holding
<1>2. CASE Goto_(r, "reread") /\ UNCHANGED envLock
  BY <1>1, <1>2, HolderGoesOn DEF RereadSource
<1>3. CASE Step(r, NotRunning) /\ Unlock(r)
  BY <1>1, <1>3, HolderGivesUp DEF RereadSource
<1> QED
  BY <1>2, <1>3 DEF RereadSource

LEMMA RereadDestinationKeeps ==
    ASSUME EnvInv, NEW r \in Reconcilers, RereadDestination(r)
    PROVE  EnvInv'
<1>1. "backup" \in Holding /\ worker[r].at \in Holding
  BY DEF RereadDestination, Holding
<1>2. CASE Unchanged(worker[r].plan, env) /\ Goto_(r, "backup") /\ UNCHANGED envLock
  <2>1. worker[r].plan.destination \in EnvFiles /\ env \in EnvFiles
    BY <1>1, PlaceFields, PlanFields DEF EnvInv, EnvTypes, Workers
  <2>2. worker[r].plan.destination = env
    BY <2>1, <1>2, SameFiles DEF Unchanged, SameFile
  <2> QED
    BY <1>1, <1>2, <2>2, HolderGoesOn DEF RereadDestination
<1>3. CASE Step(r, NotRunning) /\ Unlock(r)
  BY <1>1, <1>3, HolderGivesUp DEF RereadDestination
<1> QED
  BY <1>2, <1>3 DEF RereadDestination

LEMMA WriteBackupKeeps ==
    ASSUME EnvInv, NEW r \in Reconcilers, WriteBackup(r)
    PROVE  EnvInv'
<1>1. "temp" \in Holding /\ worker[r].at \in Holding /\ worker[r].at = "backup"
      /\ Sound(r, worker[r])
  BY DEF WriteBackup, Holding, EnvInv, Workers
<1>2. CASE /\ envBackups' = envBackups \cup {Text(worker[r].plan.destination)}
           /\ Goto_(r, "temp") /\ UNCHANGED envLock
  <2>1. ~raced => worker[r].plan.destination = env
    BY <1>1 DEF Sound
  <2> QED
    BY <1>1, <1>2, <2>1, HolderGoesOn DEF WriteBackup
<1>3. CASE Step(r, NotRunning) /\ Unlock(r) /\ UNCHANGED envBackups
  BY <1>1, <1>3, HolderGivesUp DEF WriteBackup
<1> QED
  BY <1>2, <1>3 DEF WriteBackup

LEMMA WriteTempKeeps ==
    ASSUME EnvInv, NEW r \in Reconcilers, WriteTemp(r)
    PROVE  EnvInv'
<1>1. "replace" \in Holding /\ worker[r].at \in Holding /\ worker[r].at = "temp"
      /\ Sound(r, worker[r])
  BY DEF WriteTemp, Holding, EnvInv, Workers
<1>2. CASE temps' = OwnTempOnly(r) /\ Goto_(r, "replace") /\ UNCHANGED envLock
  <2>1. /\ ~raced => worker[r].plan.destination = env
        /\ Text(worker[r].plan.destination) \in envBackups /\ r \in temps'
    BY <1>1, <1>2 DEF Sound, OwnTempOnly
  <2> QED
    BY <1>1, <1>2, <2>1, HolderGoesOn DEF WriteTemp
<1>3. CASE Step(r, NotRunning) /\ Unlock(r)
  BY <1>1, <1>3, HolderGivesUp DEF WriteTemp
<1> QED
  BY <1>2, <1>3 DEF WriteTemp

LEMMA VerifyDestinationKeeps ==
    ASSUME EnvInv, NEW r \in Reconcilers, VerifyDestination(r)
    PROVE  EnvInv'
<1>1. worker[r].at \in Holding
  BY DEF VerifyDestination, Holding
<1> QED
  BY <1>1, HolderGivesUp DEF VerifyDestination

LEMMA ReplaceIsFile ==
    ASSUME EnvInv, NEW mail \in Mails, NEW push \in {Unset, Partial} \cup PushTools,
           env' = [mail |-> mail, push |-> push, inode |-> nextInode], nextInode' = nextInode + 1
    PROVE  env' \in EnvFiles /\ nextInode' \in Nat
  BY DEF EnvInv, EnvTypes, EnvFiles

\* The reconciler's own write: nobody else is between reading and writing, or
\* it is the VAPID tool, and then the race is recorded.
LEMMA ReplaceDestinationKeeps ==
    ASSUME EnvInv, NEW r \in Reconcilers, ReplaceDestination(r)
    PROVE  EnvInv'
<1>0. /\ r \in Workers /\ worker \in [Workers -> Places] /\ Sound(r, worker[r])
      /\ worker[r].at = "replace" /\ Goto_(r, "verify") /\ worker[r] \in Places
      /\ UNCHANGED <<source, envLock, envBackups, approved>> /\ temps' = temps \ {r}
      /\ raced' = (raced \/ \E w \in PushTools : InPush(w))
  BY DEF EnvInv, EnvTypes, Workers, ReplaceDestination
<1>1. PICK s \in Places : s.at = "verify" /\ s.plan = worker[r].plan /\ Step(r, s)
  BY <1>0, HolderMoves DEF Holding
<1>2. envLock = r /\ s.plan \in approved
  BY <1>0, <1>1 DEF Sound, Holding
<1>3. worker[r].plan \in GoodPlans
  BY <1>0, PlaceFields DEF Holding
<1>4. /\ worker[r].plan.planned.mail \in Mails
      /\ worker[r].plan.planned.push \in {Unset, Partial} \cup PushTools
  BY <1>3, PlanFields, FileFields
<1>5. env' \in EnvFiles /\ nextInode' \in Nat
  BY <1>4, ReplaceIsFile DEF ReplaceDestination, Replace
<1>6. Grows
  BY <1>0, <1>5 DEF Grows, EnvInv, EnvTypes
<1>7. Locks(r) /\ KeepsTemps(r)
  BY <1>0 DEF Locks, KeepsTemps
<1>8. ASSUME ~raced', NEW v \in Workers \ {r}
      PROVE  worker[v].at \notin {"backup", "temp", "replace"} \cup Pushing
  <2>1. Sound(v, worker[v])
    BY DEF EnvInv
  <2>2. worker[v].at \notin {"backup", "temp", "replace"}
    BY <2>1, <1>2 DEF Sound, Holding
  <2>3. worker[v].at \notin Pushing
    BY <2>1, <1>0, <1>8 DEF Sound, InPush, Pushing
  <2> QED
    BY <2>2, <2>3
<1>9. KeepsFile(r)
  BY <1>8 DEF KeepsFile
<1>10. Sound(r, s)' /\ s.at \notin Pushing
  BY <1>0, <1>1, <1>2 DEF Sound, Holding, Pushing
<1> QED
  BY <1>0, <1>1, <1>6, <1>7, <1>9, <1>10, WorkerStep

LEMMA PushReadKeeps ==
    ASSUME EnvInv, NEW w \in PushTools, PushRead(w)
    PROVE  EnvInv'
<1>0. /\ w \in Workers /\ IdentityMissing(env.push)
      /\ raced' = (raced \/ \E v \in PushTools \ {w} : InPush(v))
      /\ UNCHANGED <<source, env, nextInode, envLock, envBackups, temps, approved>>
  BY DEF Workers, PushRead
<1>1. PICK s : s = [at |-> "pushBackup", read |-> env]
  OBVIOUS
<1>2. s \in Places /\ s.at = "pushBackup" /\ s.read = env
  BY <1>1 DEF EnvInv, EnvTypes, Places, Pushing
<1>3. Step(w, s)
  BY <1>1 DEF PushRead
<1>4. Grows /\ KeepsFile(w) /\ Locks(w) /\ KeepsTemps(w)
  BY <1>0 DEF Grows, KeepsFile, Locks, KeepsTemps, EnvInv, EnvTypes
<1>5. Sound(w, s)'
  BY <1>0, <1>2 DEF Sound, Holding, Pushing, IdentityMissing
<1>6. ~raced' => \A v \in PushTools \ {w} : ~InPush(v)
  BY <1>0
<1> QED
  BY <1>0, <1>2, <1>3, <1>4, <1>5, <1>6, WorkerStep

\* A VAPID tool goes on; neither the environment file nor the lock moves.
LEMMA PusherGoesOn ==
    ASSUME EnvInv, NEW w \in PushTools, NEW at \in Pushing, worker[w].at \in Pushing, Goto_(w, at),
           UNCHANGED <<source, env, nextInode, envLock, envBackups, temps, approved, raced>>
    PROVE  EnvInv'
<1>0. w \in Workers /\ worker \in [Workers -> Places] /\ Sound(w, worker[w])
  BY DEF EnvInv, EnvTypes, Workers
<1>1. PICK s \in Places : s.at = at /\ s.read = worker[w].read /\ Step(w, s)
  BY <1>0, PusherMoves
<1>2. Grows /\ KeepsFile(w)
  BY NothingMoves
<1>3. Locks(w) /\ KeepsTemps(w)
  BY DEF Locks, KeepsTemps
<1>4. ~raced => s.read = env /\ env.push = Unset
  BY <1>0, <1>1 DEF Sound
<1>5. Sound(w, s)'
  BY <1>1, <1>4 DEF Sound, Holding, Pushing
<1>6. ~raced' => \A v \in PushTools \ {w} : ~InPush(v)
  BY DEF EnvInv, InPush, Pushing
<1> QED
  BY <1>0, <1>1, <1>2, <1>3, <1>5, <1>6, WorkerStep

LEMMA PushBackupKeeps ==
    ASSUME EnvInv, NEW w \in PushTools, PushBackup(w) \/ PushBackupFilled(w)
    PROVE  EnvInv'
<1>1. CASE PushBackup(w)
  BY <1>1, PusherGoesOn DEF PushBackup, Pushing
<1>2. CASE PushBackupFilled(w)
  BY <1>2, PusherGoesOn DEF PushBackupFilled, Pushing
<1> QED
  BY <1>1, <1>2

LEMMA PushReplaceKeeps ==
    ASSUME EnvInv, NEW w \in PushTools, PushReplace(w)
    PROVE  EnvInv'
<1>0. /\ w \in Workers /\ worker[w] \in Places /\ worker[w].at = "pushReplace"
      /\ Step(w, NotRunning) /\ raced' = (raced \/ \E r \in Reconcilers : InReconcile(r))
      /\ UNCHANGED <<source, envLock, envBackups, temps, approved>>
      /\ \A v \in Workers : Sound(v, worker[v])
  BY DEF EnvInv, EnvTypes, Workers, PushReplace
<1>1. worker[w].read.mail \in Mails
  BY <1>0, PlaceFields, FileFields DEF Pushing
<1>2. env' \in EnvFiles /\ nextInode' \in Nat
  BY <1>1, ReplaceIsFile DEF PushReplace, Replace
<1>3. Grows /\ Locks(w) /\ KeepsTemps(w)
  BY <1>0, <1>2 DEF Grows, Locks, KeepsTemps, EnvInv, EnvTypes
<1>4. ASSUME ~raced', NEW v \in Workers \ {w}
      PROVE  worker[v].at \notin {"backup", "temp", "replace"} \cup Pushing
  <2>1. worker[v].at \notin Pushing
    BY <1>0, <1>4 DEF EnvInv, InPush, Pushing, Sound
  <2>2. CASE v \in Reconcilers
    BY <2>1, <2>2, <1>0, <1>4 DEF InReconcile
  <2>3. CASE v \in PushTools
    <3>1. v \notin Reconcilers
      BY <2>3, EnvAssumption
    <3> QED
      BY <2>1, <3>1, <1>0 DEF Sound, Holding
  <2> QED
    BY <2>2, <2>3 DEF Workers
<1>5. KeepsFile(w)
  BY <1>4 DEF KeepsFile
<1> QED
  BY <1>0, <1>3, <1>5, WorkerStops

LEMMA WorkerDiesKeeps ==
    ASSUME EnvInv, NEW w \in Workers, WorkerDies(w)
    PROVE  EnvInv'
<1>1. Grows /\ KeepsFile(w)
  BY NothingMoves DEF WorkerDies
<1>2. Locks(w) /\ KeepsTemps(w) /\ Step(w, NotRunning)
  BY DEF WorkerDies, Locks, KeepsTemps
<1> QED
  BY <1>1, <1>2, WorkerStops

LEMMA EnvInitially == EnvInit => EnvInv
<1> SUFFICES ASSUME EnvInit PROVE EnvInv
  OBVIOUS
<1>1. source \in SourceFiles
  BY DEF EnvInit, SourceFiles
<1>2. env \in EnvFiles
  BY DEF EnvInit, EnvFiles, Mails
<1>3. worker = [w \in Workers |-> NotRunning]
  BY DEF EnvInit
<1>4. EnvTypes
  BY <1>1, <1>2, <1>3, NotRunningIsPlace DEF EnvInit, EnvTypes
<1>5. \A w \in Workers : Sound(w, worker[w])
  BY <1>3 DEF Sound, NotRunning, Holding, Pushing
<1>6. \A w \in PushTools : ~InPush(w)
  BY <1>3 DEF InPush, NotRunning, Workers
<1> QED
  BY <1>4, <1>5, <1>6 DEF EnvInv

LEMMA EnvStep == EnvInv /\ [EnvNext]_envVars => EnvInv'
<1> SUFFICES ASSUME EnvInv, [EnvNext]_envVars PROVE EnvInv'
  OBVIOUS
<1>1. ASSUME NEW r \in Reconcilers, Reconcile(r) PROVE EnvInv'
  BY <1>1, ReconcileStartKeeps, ReconcilePlanKeeps, AcquireLockKeeps, RereadSourceKeeps,
     RereadDestinationKeeps, WriteBackupKeeps, WriteTempKeeps, ReplaceDestinationKeeps,
     VerifyDestinationKeeps DEF Reconcile
<1>2. ASSUME NEW w \in PushTools, EnsurePush(w) PROVE EnvInv'
  BY <1>2, PushReadKeeps, PushBackupKeeps, PushReplaceKeeps DEF EnsurePush
<1>3. ASSUME NEW m \in MailSettings, NEW inPlace \in BOOLEAN, EditSource(m, inPlace) PROVE EnvInv'
  BY <1>3, EditSourceKeeps
<1>4. ASSUME NEW w \in Workers, WorkerDies(w) PROVE EnvInv'
  BY <1>4, WorkerDiesKeeps
<1>5. CASE UNCHANGED envVars
  BY <1>5 DEF envVars, EnvInv, EnvTypes, Sound, Text, InPush
<1> QED
  BY <1>1, <1>2, <1>3, <1>4, <1>5 DEF EnvNext

LEMMA MailsAreReady ==
    ASSUME NEW mail \in Mails, mail # NoMail
    PROVE  ReadinessPasses(mail)
<1>1. PICK m \in MailSettings : ValidSource(m) /\ mail = Selected(m)
  BY DEF Mails
<1> QED
  BY <1>1, SelectedFields
  DEF ReadinessPasses, LoginReady, MailReady, AuthReady, ParseBool, ValidSource

\* Whatever source was approved and however the tools interleave or die, the mail
\* settings in the environment file are none or pass the readiness check, and a
\* reconciler that is about to replace the file holds the lock and has its own
\* temporary file (validate_source, run_checks, reconcile).
THEOREM EnvReconciledIsReady == EnvSpec => []ReconciledIsReady
<1>1. EnvInv => ReconciledIsReady
  <2> SUFFICES ASSUME EnvInv PROVE ReconciledIsReady
    OBVIOUS
  <2>1. env.mail # NoMail => ReadinessPasses(env.mail)
    BY FileFields, MailsAreReady DEF EnvInv, EnvTypes
  <2>2. \A r \in Reconcilers : worker[r].at = "replace" => r \in temps /\ envLock = r
    BY DEF EnvInv, Sound, Holding, Workers
  <2> QED
    BY <2>1, <2>2 DEF ReconciledIsReady
<1> QED
  BY <1>1, EnvInitially, EnvStep, PTL DEF EnvSpec

\* A step that changes the environment file is the write of one of the two tools.
LEMMA WritersOfEnv ==
    ASSUME [EnvNext]_envVars, env' # env
    PROVE  (\E r \in Reconcilers : ReplaceDestination(r)) \/ (\E w \in PushTools : PushReplace(w))
<1>1. ASSUME NEW r \in Reconcilers, Reconcile(r) PROVE ReplaceDestination(r)
  BY <1>1 DEF Reconcile, ReconcileStart, ReconcilePlan, AcquireLock, RereadSource,
     RereadDestination, WriteBackup, WriteTemp, VerifyDestination
<1>2. ASSUME NEW w \in PushTools, EnsurePush(w) PROVE PushReplace(w)
  BY <1>2 DEF EnsurePush, PushRead, PushBackup, PushBackupFilled
<1> QED
  BY <1>1, <1>2 DEF EnvNext, EditSource, WorkerDies, envVars

\* Unless the VAPID tool overlapped another writer, a change of the environment file
\* is an approved plan applied to exactly the file it was made for, which a backup
\* keeps, or the addition of a missing push identity that leaves the mail settings
\* alone (reconcile, ensure_web_push_env).
THEOREM EnvUpdatesAreKept == EnvSpec => UpdatesAreKept
<1> DEFINE Kept ==
      env' # env /\ ~raced' =>
         \/ \E p \in approved :
              /\ p.destination = env /\ p.planned = Text(env')
              /\ Text(env) \in envBackups /\ env'.push = env.push
         \/ env.push = Unset /\ env'.push \in PushTools /\ env'.mail = env.mail
<1>1. EnvInv /\ [EnvNext]_envVars => Kept
  <2> SUFFICES ASSUME EnvInv, [EnvNext]_envVars, env' # env, ~raced'
               PROVE  \/ \E p \in approved :
                           /\ p.destination = env /\ p.planned = Text(env')
                           /\ Text(env) \in envBackups /\ env'.push = env.push
                      \/ env.push = Unset /\ env'.push \in PushTools /\ env'.mail = env.mail
    OBVIOUS
  <2>1. ASSUME NEW r \in Reconcilers, ReplaceDestination(r)
        PROVE  \E p \in approved :
                 /\ p.destination = env /\ p.planned = Text(env')
                 /\ Text(env) \in envBackups /\ env'.push = env.push
    <3>1. /\ worker[r] \in Places /\ Sound(r, worker[r]) /\ worker[r].at = "replace" /\ ~raced
          /\ env' = [mail |-> worker[r].plan.planned.mail, push |-> worker[r].plan.planned.push,
                     inode |-> nextInode]
      BY <2>1 DEF EnvInv, EnvTypes, Workers, ReplaceDestination, Replace
    <3>2. PICK p : p = worker[r].plan
      OBVIOUS
    <3>3. p \in approved /\ p.destination = env /\ Text(env) \in envBackups
      BY <3>1, <3>2 DEF Sound, Holding
    <3>4. p \in GoodPlans
      BY <3>1, <3>2, PlaceFields DEF Holding
    <3>5. p.planned = Text(env')
      BY <3>1, <3>2, <3>4, PlanFields DEF Text
    <3>6. env'.push = env.push
      BY <3>1, <3>2, <3>3, <3>4, PlanFields
    <3> QED
      BY <3>3, <3>5, <3>6
  <2>2. ASSUME NEW w \in PushTools, PushReplace(w)
        PROVE  env.push = Unset /\ env'.push \in PushTools /\ env'.mail = env.mail
    <3>1. /\ Sound(w, worker[w]) /\ worker[w].at = "pushReplace" /\ ~raced
          /\ env' = [mail |-> worker[w].read.mail, push |-> w, inode |-> nextInode]
      BY <2>2 DEF EnvInv, Workers, PushReplace, Replace
    <3>2. worker[w].read = env /\ env.push = Unset
      BY <3>1 DEF Sound, Pushing
    <3> QED
      BY <3>1, <3>2
  <2> QED
    BY <2>1, <2>2, WritersOfEnv
<1> QED
  BY <1>1, EnvInitially, EnvStep, PTL DEF EnvSpec, UpdatesAreKept

(***************************************************************************)
(* Production evidence.  An observer asks one question after the other, so *)
(* the invariant says of each place in its course what it has read and,    *)
(* while nothing changed under it, that what it read is still so; of the   *)
(* backups and the proofs of restore it says whose bytes they are.         *)
(***************************************************************************)

ProbeNames == {"dns", "redirect", "shell", "ready", "metrics", "version", "style", "glyphs", "tiles"}
Done(at) == {Probes[j] : j \in 1..(at - 1)}
Found(names, commit) == {p \in names : ProbeFinds(p, commit)}

Sites == [bundle : Releases, edge : Releases, api : Releases, tree : BOOLEAN,
          modes : BOOLEAN, defects : SUBSET Defects]
Backups == [file : Labels, sha : Nat, dump : Nat, created : Nat]
RestoreProofs == [of : Labels, sha : Nat, created : Nat]

ProductionTypes ==
    /\ site \in Sites /\ database \in Nat /\ hour \in Nat
    /\ backup \in [Labels -> {NoBackup} \cup Backups]
    /\ proof \in [Labels -> {NoProof} \cup RestoreProofs]
    /\ DOMAIN receipt = Observers

\* What the collector has read when it is at a place.
KnowsReady == {"version", "web", "modes", "backup", "restore"}
KnowsVersion == {"web", "modes", "backup", "restore"}
KnowsWeb == {"modes", "backup", "restore"}
KnowsModes == {"backup", "restore"}

ObserverFields(o) ==
    /\ "tool" \in DOMAIN o /\ o.tool \in {"none"} \cup Observers
    /\ o.tool = "none" => o = NoObserver
    /\ o.tool # "none" => {"at", "calm"} \subseteq DOMAIN o /\ o.calm \in BOOLEAN
    /\ o.tool \in {"release", "live"} => "expected" \in DOMAIN o /\ o.expected \in Releases
    /\ o.tool = "release" /\ o.at = "api" => "frontend" \in DOMAIN o
    /\ o.tool = "live" => "failed" \in DOMAIN o /\ o.at \in 1..10
    /\ o.tool = "evidence" =>
         /\ {"now", "label"} \subseteq DOMAIN o /\ o.now \in Nat /\ o.label \in Labels
         /\ o.at \in {"ready"} \cup KnowsReady
         /\ o.at \in KnowsReady => "ready" \in DOMAIN o
         /\ o.at \in KnowsVersion => "version" \in DOMAIN o
         /\ o.at \in KnowsWeb => "web" \in DOMAIN o
         /\ o.at \in KnowsModes => "modes" \in DOMAIN o
         /\ o.at = "restore" => "backup" \in DOMAIN o

VersionAnswer == [header |-> Full(site.api), body |-> Full(site.api)]
WebAnswer == [header |-> Short(site.edge), body |-> Full(site.bundle)]

\* An undisturbed observer has read the site as it is.
Calm(o) ==
    /\ o.tool = "release" /\ o.at = "api" /\ o.calm => o.frontend = FrontendAnswer
    /\ o.tool = "live" /\ o.calm => o.failed = Found(Done(o.at), o.expected)
    /\ o.tool = "evidence" /\ o.calm =>
         /\ o.at \in KnowsReady => o.ready = Ready
         /\ o.at \in KnowsVersion => o.version = VersionAnswer
         /\ o.at \in KnowsWeb => o.web = WebAnswer

\* A backup that the collector found good was intact and fresh.
Vouched(b, atHour) ==
    /\ b.created \in Nat /\ b.created <= atHour
    /\ b.ok => b.dump = b.sha /\ atHour - b.created <= BackupMaxAge
Held(o) == o.tool = "evidence" /\ o.at = "restore" => Vouched(o.backup, o.now)

ProofsAreReal ==
    \A l \in Labels : proof[l] # NoProof =>
        \E r \in restored : r.content = proof[l].sha /\ r.at = proof[l].created

ReleaseTrue(r) == r.status = "pass" <=> (site.tree /\ \A part \in ReleaseSteps : site[part] = r.commit)
LiveTrue(v) == v.failed = Found(ProbeNames, v.commit) /\ (v.status = "pass" <=> v.failed = {})
EvidenceTrue(e) ==
    /\ e.version = VersionAnswer /\ e.web = WebAnswer /\ e.ready = Ready
    /\ e.public = PublicEvidence(e)

\* A steady report is true of the site as it is.
SteadyIsTrue ==
    /\ "release" \in steady => ReleaseTrue(receipt["release"])
    /\ "live" \in steady => LiveTrue(receipt["live"])
    /\ "evidence" \in steady => EvidenceTrue(receipt["evidence"])

ProductionInv ==
    /\ ProductionTypes /\ ObserverFields(observer) /\ Calm(observer) /\ Held(observer)
    /\ ProofsAreReal /\ SteadyIsTrue /\ EvidenceIsRestorable

LEMMA ProbesAreDone ==
    /\ Done(1) = {} /\ Done(10) = ProbeNames
    /\ \A i \in 1..10 : Probes[i] = "done" <=> i = 10
    /\ \A i \in 1..9 : Done(i + 1) = Done(i) \cup {Probes[i]}
<1>1. Done(1) = {}
  BY DEF Done
<1>2. \A i \in 1..9 : Done(i + 1) = Done(i) \cup {Probes[i]}
  <2>1. ASSUME NEW i \in 1..9 PROVE 1..i = 1..(i - 1) \cup {i}
    OBVIOUS
  <2> QED
    BY <2>1 DEF Done
<1>3. Done(10) = ProbeNames
  <2>1. /\ Probes[1] = "dns" /\ Probes[2] = "redirect" /\ Probes[3] = "shell"
        /\ Probes[4] = "ready" /\ Probes[5] = "metrics" /\ Probes[6] = "version"
        /\ Probes[7] = "style" /\ Probes[8] = "glyphs" /\ Probes[9] = "tiles"
    BY DEF Probes
  <2>2. 1..(10 - 1) = {1, 2, 3, 4, 5, 6, 7, 8, 9}
    OBVIOUS
  <2> QED
    BY <2>1, <2>2 DEF Done, ProbeNames
<1>4. \A i \in 1..10 : Probes[i] = "done" <=> i = 10
  BY DEF Probes
<1> QED
  BY <1>1, <1>2, <1>3, <1>4

\* A site without a defect is one that no probe but that of the version objects to.
LEMMA DefectsAreFound ==
    ASSUME site \in Sites, NEW c
    PROVE  Found(ProbeNames, c) = {} <=> site.defects = {} /\ site.bundle = c
<1>1. site.defects \subseteq {"foreignAddress", "redirectLost", "noShell", "notReady", "metricsExposed",
                              "styleNotRevalidated", "noGlyphs", "noRanges"}
  BY ProductionAssumption DEF Sites
<1>2. /\ ProbeFinds("dns", c) <=> "foreignAddress" \in site.defects
      /\ ProbeFinds("redirect", c) <=> "redirectLost" \in site.defects
      /\ ProbeFinds("shell", c) <=> "noShell" \in site.defects
      /\ ProbeFinds("ready", c) <=> "notReady" \in site.defects
      /\ ProbeFinds("metrics", c) <=> "metricsExposed" \in site.defects
      /\ ProbeFinds("version", c) <=> site.bundle # c
      /\ ProbeFinds("style", c) <=> "styleNotRevalidated" \in site.defects
      /\ ProbeFinds("glyphs", c) <=> "noGlyphs" \in site.defects
      /\ ProbeFinds("tiles", c) <=> "noRanges" \in site.defects
  BY DEF ProbeFinds, SurfaceDefect, MapDefect, VersionDiffers
<1>3. Found(ProbeNames, c) = {} <=> \A p \in ProbeNames : ~ProbeFinds(p, c)
  BY DEF Found
<1> QED
  BY <1>1, <1>2, <1>3 DEF ProbeNames

LEMMA ProbeOfVersionAndReady ==
    ASSUME NEW c
    PROVE  /\ "version" \in Found(ProbeNames, c) <=> site.bundle # c
           /\ "ready" \in Found(ProbeNames, c) <=> ~Ready
  BY DEF Found, ProbeNames, ProbeFinds, SurfaceDefect, MapDefect, VersionDiffers, Ready

LEMMA IdentitiesMeanTheSite ==
    ASSUME site \in Sites, NEW c \in Releases
    PROVE  IdentityVerified(c, FrontendAnswer, ApiAnswer) /\ TreeVerified(c, FrontendAnswer)
             <=> (site.tree /\ \A part \in ReleaseSteps : site[part] = c)
<1>1. \A d, e : (Full(d) = Full(e) <=> d = e) /\ (Short(d) = Short(e) <=> d = e)
  BY DEF Full, Short
<1>2. /\ FrontendAnswer.ok /\ FrontendAnswer.commit = Full(site.bundle)
      /\ FrontendAnswer.version = Short(site.bundle)
      /\ FrontendAnswer.tree = IF site.tree THEN Full(site.bundle) ELSE Full("missing")
  BY DEF FrontendAnswer
<1>3. /\ ApiAnswer.ok /\ ApiAnswer.commit = Full(site.api) /\ ApiAnswer.build = Full(site.api)
      /\ ApiAnswer.edge = Short(site.edge)
  BY DEF ApiAnswer
<1>4. c # "missing" /\ site.tree \in BOOLEAN
  BY ProductionAssumption DEF Sites
<1>5. (\A part \in ReleaseSteps : site[part] = c) <=> site.bundle = c /\ site.edge = c /\ site.api = c
  BY DEF ReleaseSteps
<1> QED
  BY <1>1, <1>2, <1>3, <1>4, <1>5 DEF IdentityVerified, TreeVerified

\* Steady reports agree with one another.
LEMMA SteadyReportsAgree ==
    ASSUME site \in Sites, SteadyIsTrue
    PROVE  ObserversAgree
<1> DEFINE r == receipt["release"]
           e == receipt["evidence"]
           v == receipt["live"]
<1>1. "release" \in steady =>
        (r.status = "pass" <=> site.tree /\ \A part \in ReleaseSteps : site[part] = r.commit)
  BY DEF SteadyIsTrue, ReleaseTrue
<1>2. "live" \in steady => v.failed = Found(ProbeNames, v.commit) /\ (v.status = "pass" <=> v.failed = {})
  BY DEF SteadyIsTrue, LiveTrue
<1>3. "evidence" \in steady => /\ e.version = VersionAnswer /\ e.web = WebAnswer /\ e.ready = Ready
                               /\ e.public = PublicEvidence(e)
  BY DEF SteadyIsTrue, EvidenceTrue
<1> HIDE DEF r, e, v
<1>4. "live" \in steady => (v.status = "pass" <=> site.defects = {} /\ site.bundle = v.commit)
  BY <1>2, DefectsAreFound
<1>5. "release" \in steady /\ r.status = "pass" =>
        site.bundle = r.commit /\ site.edge = r.commit /\ site.api = r.commit
  BY <1>1 DEF ReleaseSteps
<1>6. ASSUME {"release", "evidence"} \subseteq steady, r.status = "pass"
      PROVE  /\ e.version.body = Full(r.commit) /\ e.web.body = Full(r.commit)
             /\ e.public = e.ready
  <2>1. e.version = [header |-> Full(r.commit), body |-> Full(r.commit)]
        /\ e.web = [header |-> Short(r.commit), body |-> Full(r.commit)]
    BY <1>3, <1>5, <1>6 DEF VersionAnswer, WebAnswer
  <2>2. IdentitiesMatch(e.version.header, e.version.body) /\ IdentitiesMatch(e.web.header, e.web.body)
    BY <2>1 DEF IdentitiesMatch, Full, Short
  <2>3. e.public = e.ready
    <3>1. PublicEvidence(e) <=> e.ready
      BY <2>2 DEF PublicEvidence
    <3> QED
      BY <3>1, <1>3, <1>6 DEF PublicEvidence, Ready
  <2> QED
    BY <2>1, <2>3
<1>7. {"release", "live"} \subseteq steady /\ r.status = "pass" /\ v.commit = r.commit => "version" \notin v.failed
  BY <1>2, <1>5, ProbeOfVersionAndReady
<1>8. {"evidence", "live"} \subseteq steady => (e.ready <=> "ready" \notin v.failed)
  BY <1>2, <1>3, ProbeOfVersionAndReady
<1> QED
  BY <1>1, <1>4, <1>6, <1>7, <1>8 DEF ObserversAgree, r, e, v

\* The site changes: the observer at work is disturbed, no report stays steady.
LEMMA SiteChanges ==
    ASSUME ProductionInv, site' \in Sites, Disturbed, steady' = {},
           UNCHANGED <<database, backup, proof, hour, restored, receipt>>
    PROVE  ProductionInv'
<1>1. ProductionTypes'
  BY DEF ProductionInv, ProductionTypes
<1>2. ProofsAreReal' /\ EvidenceIsRestorable' /\ SteadyIsTrue'
  BY DEF ProductionInv, ProofsAreReal, EvidenceIsRestorable, SteadyIsTrue
<1>3. CASE observer = NoObserver
  <2>1. observer' = observer /\ observer'.tool = "none"
    BY <1>3 DEF Disturbed, NoObserver
  <2>2. ObserverFields(observer)'
    BY <2>1 DEF ProductionInv, ObserverFields
  <2>3. Calm(observer)' /\ Held(observer)'
    BY <2>1 DEF Calm, Held
  <2> QED
    BY <1>1, <1>2, <2>2, <2>3 DEF ProductionInv
<1>4. CASE observer # NoObserver
  <2>0. observer.tool # "none" /\ {"tool", "at", "calm"} \subseteq DOMAIN observer
    BY <1>4 DEF ProductionInv, ObserverFields
  <2>1. observer' = [observer EXCEPT !.calm = FALSE]
    BY <1>4 DEF Disturbed
  <2>2. /\ DOMAIN observer' = DOMAIN observer /\ observer'.calm = FALSE
        /\ \A f \in DOMAIN observer \ {"calm"} : observer'[f] = observer[f]
    BY <2>0, <2>1
  <2>3. observer'.tool = observer.tool /\ observer'.at = observer.at
    BY <2>0, <2>2
  <2>4. observer.tool \in {"release", "live"} => observer'.expected = observer.expected
    BY <2>2 DEF ProductionInv, ObserverFields
  <2>5. /\ observer.tool = "evidence" => observer'.now = observer.now /\ observer'.label = observer.label
        /\ observer.tool = "evidence" /\ observer.at = "restore" => observer'.backup = observer.backup
    BY <2>2 DEF ProductionInv, ObserverFields
  <2>6. ObserverFields(observer)'
    BY <2>0, <2>2, <2>3, <2>4, <2>5 DEF ProductionInv, ObserverFields
  <2>7. Calm(observer)'
    BY <2>2 DEF Calm
  <2>8. Held(observer)'
    BY <2>3, <2>5 DEF ProductionInv, Held, Vouched
  <2> QED
    BY <1>1, <1>2, <2>6, <2>7, <2>8 DEF ProductionInv
<1> QED
  BY <1>3, <1>4

LEMMA SiteNextKeeps == ASSUME ProductionInv, SiteNext PROVE ProductionInv'
<1>0. site \in Sites
  BY DEF ProductionInv, ProductionTypes
<1>1. ASSUME NEW part \in ReleaseSteps, NEW c \in Releases, NEW tree \in BOOLEAN, ReleaseStep(part, c, tree)
      PROVE  ProductionInv'
  <2>1. site' \in Sites
    BY <1>0, <1>1 DEF ReleaseStep, Sites, ReleaseSteps
  <2> QED
    BY <1>1, <2>1, SiteChanges DEF ReleaseStep
<1>2. CASE SurfaceChange
  <2>1. site' \in Sites
    BY <1>0, <1>2 DEF SurfaceChange, Sites
  <2> QED
    BY <1>2, <2>1, SiteChanges DEF SurfaceChange
<1> QED
  BY <1>1, <1>2 DEF SiteNext

\* Data and backups change: restores are remembered, and each proof has one.
LEMMA BackupChanges ==
    ASSUME ProductionInv, UNCHANGED <<site, observer, receipt, steady>>,
           database' \in Nat, hour' \in Nat,
           backup' \in [Labels -> {NoBackup} \cup Backups],
           proof' \in [Labels -> {NoProof} \cup RestoreProofs],
           restored \subseteq restored', ProofsAreReal'
    PROVE  ProductionInv'
<1>1. ProductionTypes'
  BY DEF ProductionInv, ProductionTypes
<1>2. ObserverFields(observer)' /\ Held(observer)'
  BY DEF ProductionInv, ObserverFields, Held, Vouched
<1>3. Calm(observer)'
  BY DEF ProductionInv, Calm, FrontendAnswer, Found, ProbeFinds, VersionDiffers, Ready,
         VersionAnswer, WebAnswer
<1>4. EvidenceIsRestorable'
  BY DEF ProductionInv, EvidenceIsRestorable
<1>5. SteadyIsTrue'
  BY DEF ProductionInv, SteadyIsTrue, ReleaseTrue, LiveTrue, EvidenceTrue, Found, ProbeFinds,
         VersionDiffers, Ready, VersionAnswer, WebAnswer
<1> QED
  BY <1>1, <1>2, <1>3, <1>4, <1>5 DEF ProductionInv

LEMMA BackupNextKeeps == ASSUME ProductionInv, BackupNext PROVE ProductionInv'
<1>0. /\ database \in Nat /\ hour \in Nat /\ backup \in [Labels -> {NoBackup} \cup Backups]
      /\ proof \in [Labels -> {NoProof} \cup RestoreProofs] /\ ProofsAreReal
  BY DEF ProductionInv, ProductionTypes
<1>1. UNCHANGED <<proof, restored>> => ProofsAreReal'
  BY <1>0 DEF ProofsAreReal
<1>2. \A k \in Labels : Swept(backup[k]) \in {NoBackup} \cup Backups
  BY <1>0 DEF Swept
<1>3. CASE Hour
  BY <1>0, <1>1, <1>3, BackupChanges DEF Hour
<1>4. CASE Write
  BY <1>0, <1>1, <1>4, BackupChanges DEF Write
<1>5. CASE BackupElsewhere
  <2>1. backup' \in [Labels -> {NoBackup} \cup Backups]
    BY <1>2, <1>5 DEF BackupElsewhere
  <2> QED
    BY <1>0, <1>1, <1>5, <2>1, BackupChanges DEF BackupElsewhere
<1>6. ASSUME NEW l \in Labels, Backup(l) PROVE ProductionInv'
  <2>1. [file |-> l, sha |-> database, dump |-> database, created |-> hour] \in Backups
    BY <1>0 DEF Backups
  <2>2. backup' \in [Labels -> {NoBackup} \cup Backups]
    BY <1>2, <1>6, <2>1 DEF Backup
  <2> QED
    BY <1>0, <1>1, <1>6, <2>2, BackupChanges DEF Backup
<1>7. ASSUME NEW l \in Labels, Damage(l) PROVE ProductionInv'
  <2>1. backup[l] \in Backups /\ Damaged \in Nat
    BY <1>0, <1>7, ProductionAssumption DEF Damage, Damaged
  <2>2. [backup[l] EXCEPT !.dump = Damaged] \in Backups
    BY <2>1 DEF Backups
  <2>3. backup' \in [Labels -> {NoBackup} \cup Backups]
    BY <1>0, <1>7, <2>2 DEF Damage
  <2> QED
    BY <1>0, <1>1, <1>7, <2>3, BackupChanges DEF Damage
<1>8. ASSUME NEW l \in Labels, RestoreProof(l) PROVE ProductionInv'
  <2>1. backup[l] \in Backups /\ backup[l].dump = backup[l].sha
    BY <1>0, <1>8 DEF RestoreProof
  <2> DEFINE p == [of |-> l, sha |-> backup[l].sha, created |-> hour]
             r == [content |-> backup[l].dump, at |-> hour]
  <2>2. p \in RestoreProofs /\ p.sha = backup[l].sha /\ p.created = hour
    BY <1>0, <2>1 DEF RestoreProofs, Backups
  <2>3. r.content = backup[l].sha /\ r.at = hour
    BY <2>1
  <2>4. proof' = [proof EXCEPT ![l] = p] /\ restored' = restored \cup {r}
    BY <1>8 DEF RestoreProof
  <2> HIDE DEF p, r
  <2>5. proof' \in [Labels -> {NoProof} \cup RestoreProofs]
    BY <1>0, <2>2, <2>4
  <2>6. ProofsAreReal'
    <3> SUFFICES ASSUME NEW k \in Labels, proof'[k] # NoProof
                 PROVE  \E x \in restored' : x.content = proof'[k].sha /\ x.at = proof'[k].created
      BY DEF ProofsAreReal
    <3>1. CASE k = l
      BY <1>0, <2>2, <2>3, <2>4, <3>1
    <3>2. CASE k # l
      BY <1>0, <2>4, <3>2 DEF ProofsAreReal
    <3> QED
      BY <3>1, <3>2
  <2> QED
    BY <1>0, <1>8, <2>4, <2>5, <2>6, BackupChanges DEF RestoreProof
<1> QED
  BY <1>3, <1>4, <1>5, <1>6, <1>7, <1>8 DEF BackupNext

LEMMA ObserverMoves ==
    ASSUME ProductionInv, NEW o, observer' = o, ObserverFields(o), Calm(o), Held(o),
           UNCHANGED <<site, database, backup, proof, hour, restored, receipt, steady>>
    PROVE  ProductionInv'
<1>1. ProductionTypes' /\ ProofsAreReal'
  BY DEF ProductionInv, ProductionTypes, ProofsAreReal
<1>2. ObserverFields(observer)' /\ Held(observer)'
  BY DEF ObserverFields, Held, Vouched
<1>3. Calm(observer)'
  BY DEF Calm, FrontendAnswer, Found, ProbeFinds, VersionDiffers, Ready, VersionAnswer, WebAnswer
<1>4. EvidenceIsRestorable'
  BY DEF ProductionInv, EvidenceIsRestorable
<1>5. SteadyIsTrue'
  BY DEF ProductionInv, SteadyIsTrue, ReleaseTrue, LiveTrue, EvidenceTrue, Found, ProbeFinds,
         VersionDiffers, Ready, VersionAnswer, WebAnswer
<1> QED
  BY <1>1, <1>2, <1>3, <1>4, <1>5 DEF ProductionInv

\* No observer at work: nothing is claimed of it.
LEMMA NobodyObserves == ObserverFields(NoObserver) /\ Calm(NoObserver) /\ Held(NoObserver)
  BY DEF ObserverFields, Calm, Held, NoObserver

TrueReport(which, report) ==
    /\ which = "release" => ReleaseTrue(report)
    /\ which = "live" => LiveTrue(report)
    /\ which = "evidence" => EvidenceTrue(report)
Restorable(e) ==
    e.status = "partial" =>
        \E r \in restored :
            /\ r.content = e.backup.dump
            /\ e.backup.created <= r.at /\ r.at <= e.now
            /\ e.now - r.at <= RestoreMaxAge /\ e.now - e.backup.created <= BackupMaxAge

LEMMA ObserverReports ==
    ASSUME ProductionInv, NEW o, observer' = o, ObserverFields(o), Calm(o), Held(o),
           NEW which \in Observers, NEW report, WriteReport(which, report),
           NEW calm \in BOOLEAN, Reported(which, calm),
           calm => TrueReport(which, report), which = "evidence" => Restorable(report),
           UNCHANGED <<site, database, backup, proof, hour, restored>>
    PROVE  ProductionInv'
<1>0. DOMAIN receipt = Observers /\ receipt' = [receipt EXCEPT ![which] = report]
  BY DEF ProductionInv, ProductionTypes, WriteReport
<1>1. /\ DOMAIN receipt' = Observers /\ receipt'[which] = report
      /\ \A x \in Observers \ {which} : receipt'[x] = receipt[x]
  BY <1>0
<1>2. ProductionTypes' /\ ProofsAreReal'
  BY <1>1 DEF ProductionInv, ProductionTypes, ProofsAreReal
<1>3. ObserverFields(observer)' /\ Held(observer)'
  BY DEF ObserverFields, Held, Vouched
<1>4. Calm(observer)'
  BY DEF Calm, FrontendAnswer, Found, ProbeFinds, VersionDiffers, Ready, VersionAnswer, WebAnswer
<1>5. EvidenceIsRestorable'
  <2>1. CASE which = "evidence"
    BY <1>1, <2>1 DEF EvidenceIsRestorable, Restorable
  <2>2. CASE which # "evidence"
    <3>1. receipt'["evidence"] = receipt["evidence"]
      BY <1>1, <2>2 DEF Observers
    <3> QED
      BY <3>1 DEF ProductionInv, EvidenceIsRestorable
  <2> QED
    BY <2>1, <2>2
<1>6. \A x \in Observers : x \in steady' => TrueReport(x, receipt'[x])
  <2> SUFFICES ASSUME NEW x \in Observers, x \in steady' PROVE TrueReport(x, receipt'[x])
    OBVIOUS
  <2>1. CASE x = which
    BY <1>1, <2>1 DEF Reported
  <2>2. CASE x # which
    <3>1. x \in steady
      BY <2>2 DEF Reported
    <3>2. TrueReport(x, receipt[x])
      BY <3>1 DEF ProductionInv, SteadyIsTrue, TrueReport
    <3> QED
      BY <1>1, <2>2, <3>2
  <2> QED
    BY <2>1, <2>2
<1>7. /\ "release" \in steady' => ReleaseTrue(receipt'["release"])
      /\ "live" \in steady' => LiveTrue(receipt'["live"])
      /\ "evidence" \in steady' => EvidenceTrue(receipt'["evidence"])
  BY <1>6 DEF TrueReport, Observers
<1>8. SteadyIsTrue'
  BY <1>7 DEF SteadyIsTrue, ReleaseTrue, LiveTrue, EvidenceTrue, Found, ProbeFinds,
         VersionDiffers, Ready, VersionAnswer, WebAnswer
<1> QED
  BY <1>2, <1>3, <1>4, <1>5, <1>8 DEF ProductionInv

LEMMA AnswersAreMarked == FrontendAnswer.ok = TRUE /\ ApiAnswer.ok = TRUE /\ Failed.ok = FALSE
  BY DEF FrontendAnswer, ApiAnswer, Failed

LEMMA PollingIsCalm ==
    ASSUME NEW c \in Releases, NEW n
    PROVE  ObserverFields(Polling(c, n)) /\ Calm(Polling(c, n)) /\ Held(Polling(c, n))
<1>1. /\ DOMAIN Polling(c, n) = {"tool", "at", "expected", "polls", "calm"}
      /\ Polling(c, n).tool = "release" /\ Polling(c, n).at = "frontend"
      /\ Polling(c, n).expected = c /\ Polling(c, n).calm = TRUE
  BY DEF Polling
<1> QED
  BY <1>1 DEF ObserverFields, Calm, Held, Observers

LEMMA ReleaseNextKeeps == ASSUME ProductionInv, ReleaseNext PROVE ProductionInv'
<1>1. ASSUME NEW c \in Releases, VerifyRelease(c) PROVE ProductionInv'
  <2>1. PICK o : o = Polling(c, 1)
    OBVIOUS
  <2>2. ObserverFields(o) /\ Calm(o) /\ Held(o)
    BY <2>1, PollingIsCalm
  <2> QED
    BY <1>1, <2>1, <2>2, ObserverMoves DEF VerifyRelease
<1>2. CASE FetchFrontend
  <2>1. observer.tool = "release" /\ observer.expected \in Releases
    BY <1>2 DEF FetchFrontend, ProductionInv, ObserverFields
  <2>2. PICK answer \in {FrontendAnswer, Failed} :
          observer' = [tool |-> "release", at |-> "api", expected |-> observer.expected,
                       polls |-> observer.polls, calm |-> answer.ok, frontend |-> answer]
    BY <1>2 DEF FetchFrontend
  <2>3. answer.ok \in BOOLEAN /\ (answer.ok => answer = FrontendAnswer)
    BY AnswersAreMarked
  <2>4. PICK o : o = observer'
    OBVIOUS
  <2>5. /\ DOMAIN o = {"tool", "at", "expected", "polls", "calm", "frontend"}
        /\ o.tool = "release" /\ o.at = "api" /\ o.expected = observer.expected
        /\ o.calm = answer.ok /\ o.frontend = answer
    BY <2>2, <2>4
  <2>6. ObserverFields(o) /\ Held(o)
    BY <2>1, <2>3, <2>5 DEF ObserverFields, Held, Observers
  <2>7. Calm(o)
    BY <2>3, <2>5 DEF Calm
  <2> QED
    BY <1>2, <2>4, <2>6, <2>7, ObserverMoves DEF FetchFrontend
<1>3. CASE FetchApi
  <2>1. /\ observer.tool = "release" /\ observer.at = "api" /\ observer.expected \in Releases
        /\ observer.calm \in BOOLEAN /\ (observer.calm => observer.frontend = FrontendAnswer)
    BY <1>3 DEF FetchApi, ProductionInv, ObserverFields, Calm
  <2> DEFINE c == observer.expected
             pass(answer) == IdentityVerified(c, observer.frontend, answer) /\ TreeVerified(c, observer.frontend)
             report(answer) == [status |-> IF pass(answer) THEN "pass" ELSE "failed", commit |-> c]
  <2>2. PICK answer \in {ApiAnswer, Failed} :
          /\ WriteReport("release", report(answer)) /\ Reported("release", observer.calm /\ answer.ok)
          /\ observer' = NoObserver \/ observer' = Polling(c, observer.polls + 1)
    BY <1>3 DEF FetchApi
  <2>3. answer.ok \in BOOLEAN /\ (answer.ok => answer = ApiAnswer)
    BY AnswersAreMarked
  <2>4. PICK o : o = observer'
    OBVIOUS
  <2>5. ObserverFields(o) /\ Calm(o) /\ Held(o)
    BY <2>1, <2>2, <2>4, PollingIsCalm, NobodyObserves
  <2>6. PICK calm \in BOOLEAN : calm <=> observer.calm /\ answer.ok
    OBVIOUS
  <2>7. report(answer).commit = c /\ (report(answer).status = "pass" <=> pass(answer))
    OBVIOUS
  <2>8. calm => (pass(answer) <=> (site.tree /\ \A part \in ReleaseSteps : site[part] = c))
    BY <2>1, <2>3, <2>6, IdentitiesMeanTheSite DEF ProductionInv, ProductionTypes
  <2>9. Reported("release", calm)
    BY <2>2, <2>6 DEF Reported
  <2> HIDE DEF report, pass, c
  <2>10. calm => TrueReport("release", report(answer))
    BY <2>7, <2>8 DEF TrueReport, ReleaseTrue
  <2>11. UNCHANGED <<site, database, backup, proof, hour, restored>> /\ "release" \in Observers
    BY <1>3 DEF FetchApi, Observers
  <2> QED
    BY <2>2, <2>4, <2>5, <2>9, <2>10, <2>11, ObserverReports
<1> QED
  BY <1>1, <1>2, <1>3 DEF ReleaseNext

LEMMA SeesFields ==
    ASSUME ProductionInv, observer.tool = "evidence", NEW field, NEW value, NEW next,
           field \notin {"tool", "at", "now", "label", "calm"}, Sees(field, value, next),
           NEW o, o = observer'
    PROVE  /\ DOMAIN o = DOMAIN observer \cup {field} /\ o[field] = value /\ o.at = next
           /\ o.tool = "evidence" /\ o.calm = observer.calm /\ o.now = observer.now
           /\ o.label = observer.label
           /\ \A f \in DOMAIN observer \ {"at", field} : o[f] = observer[f]
<1>1. {"tool", "at", "now", "label", "calm"} \subseteq DOMAIN observer
  BY DEF ProductionInv, ObserverFields
<1>2. o = [f \in DOMAIN observer \cup {field} |->
             IF f = field THEN value ELSE IF f = "at" THEN next ELSE observer[f]]
  BY DEF Sees
<1>3. DOMAIN o = DOMAIN observer \cup {field} /\ o[field] = value
      /\ \A f \in DOMAIN observer \ {"at", field} : o[f] = observer[f]
  BY <1>2
<1>4. o["at"] = next
  BY <1>1, <1>2
<1> QED
  BY <1>1, <1>3, <1>4

\* One more reading of the collector: the parts read before are as they were.
LEMMA CollectorReads ==
    ASSUME ProductionInv, observer.tool = "evidence", NEW field, NEW value, NEW next,
           Sees(field, value, next), UNCHANGED <<site, database, backup, proof, hour, restored>>,
           \/ observer.at = "ready" /\ field = "ready" /\ next = "version" /\ value = Ready
           \/ observer.at = "version" /\ field = "version" /\ next = "web" /\ value = VersionAnswer
           \/ observer.at = "web" /\ field = "web" /\ next = "modes" /\ value = WebAnswer
           \/ observer.at = "modes" /\ field = "modes" /\ next = "backup"
           \/ observer.at = "backup" /\ field = "backup" /\ next = "restore" /\ Vouched(value, observer.now)
    PROVE  ProductionInv'
<1>1. PICK o : o = observer'
  OBVIOUS
<1>2. field \notin {"tool", "at", "now", "label", "calm"}
  OBVIOUS
<1>3. /\ DOMAIN o = DOMAIN observer \cup {field} /\ o[field] = value /\ o.at = next
      /\ o.tool = "evidence" /\ o.calm = observer.calm /\ o.now = observer.now
      /\ o.label = observer.label
      /\ \A f \in DOMAIN observer \ {"at", field} : o[f] = observer[f]
  BY <1>1, <1>2, SeesFields
<1>4. ObserverFields(observer) /\ Calm(observer)
  BY DEF ProductionInv
<1>5. ObserverFields(o)
  BY <1>3, <1>4 DEF ObserverFields, Observers, KnowsReady, KnowsVersion, KnowsWeb, KnowsModes
<1>6. /\ next \in KnowsReady \ {"version"} => o["ready"] = observer["ready"]
      /\ next \in KnowsVersion \ {"web"} => o["version"] = observer["version"]
      /\ next \in KnowsWeb \ {"modes"} => o["web"] = observer["web"]
  BY <1>3, <1>4 DEF ObserverFields, KnowsReady, KnowsVersion, KnowsWeb, KnowsModes
<1>7. Calm(o)
  BY <1>3, <1>4, <1>6 DEF Calm, KnowsReady, KnowsVersion, KnowsWeb
<1>8. Held(o)
  BY <1>3 DEF Held
<1> QED
  BY <1>1, <1>5, <1>7, <1>8, ObserverMoves DEF Sees

LEMMA CollectorFails ==
    ASSUME ProductionInv, CollectFails, UNCHANGED <<site, database, backup, proof, hour, restored>>
    PROVE  ProductionInv'
<1>1. PICK o : o = NoObserver
  OBVIOUS
<1>2. PICK report : report = [status |-> "fail"]
  OBVIOUS
<1>3. Restorable(report) /\ "evidence" \in Observers
  BY <1>2 DEF Restorable, Observers
<1>4. PICK calm \in BOOLEAN : calm = FALSE
  OBVIOUS
<1>5. WriteReport("evidence", report) /\ Reported("evidence", calm) /\ observer' = o
  BY <1>1, <1>2, <1>4 DEF CollectFails
<1>6. ObserverFields(o) /\ Calm(o) /\ Held(o)
  BY <1>1, NobodyObserves
<1> QED
  BY <1>3, <1>4, <1>5, <1>6, ObserverReports

LEMMA CollectPublicKeeps == ASSUME ProductionInv, CollectPublic \/ CollectModes PROVE ProductionInv'
<1>1. observer.tool = "evidence" /\ UNCHANGED <<site, database, backup, proof, hour, restored>>
  BY DEF CollectPublic, CollectModes
<1>2. CASE CollectFails
  BY <1>1, <1>2, CollectorFails
<1>3. CASE observer.at = "ready" /\ Sees("ready", Ready, "version")
  BY <1>1, <1>3, CollectorReads
<1>4. CASE observer.at = "version" /\ Sees("version", VersionAnswer, "web")
  BY <1>1, <1>4, CollectorReads
<1>5. CASE observer.at = "web" /\ Sees("web", WebAnswer, "modes")
  BY <1>1, <1>5, CollectorReads
<1>6. CASE observer.at = "modes" /\ Sees("modes", site.modes, "backup")
  BY <1>1, <1>6, CollectorReads
<1> QED
  BY <1>2, <1>3, <1>4, <1>5, <1>6 DEF CollectPublic, CollectModes, VersionAnswer, WebAnswer

LEMMA CollectBackupKeeps == ASSUME ProductionInv, CollectBackup PROVE ProductionInv'
<1>1. /\ observer.tool = "evidence" /\ observer.at = "backup" /\ observer.label \in Labels
      /\ observer.now \in Nat /\ UNCHANGED <<site, database, backup, proof, hour, restored>>
      /\ backup[observer.label] \in {NoBackup} \cup Backups
  BY DEF CollectBackup, ProductionInv, ProductionTypes, ObserverFields
<1> DEFINE b == backup[observer.label]
           fresh == Intact(b) /\ observer.now - b.created <= BackupMaxAge
           seen == [file |-> b.file, sha |-> b.sha, created |-> b.created, dump |-> b.dump, ok |-> fresh]
<1>2. CASE CollectFails
  BY <1>1, <1>2, CollectorFails
<1>3. CASE b # NoBackup /\ b.created <= observer.now /\ Sees("backup", seen, "restore")
  <2>1. b \in Backups /\ b.created <= observer.now
    BY <1>1, <1>3
  <2>2. seen.created = b.created /\ seen.dump = b.dump /\ seen.sha = b.sha
    OBVIOUS
  <2>3. seen.ok <=> fresh
    OBVIOUS
  <2>4. b.created \in Nat /\ (fresh => b.dump = b.sha /\ observer.now - b.created <= BackupMaxAge)
    BY <2>1 DEF Backups, Intact
  <2> HIDE DEF seen, fresh
  <2>5. Vouched(seen, observer.now)
    BY <2>1, <2>2, <2>3, <2>4 DEF Vouched
  <2> QED
    BY <1>1, <1>3, <2>5, CollectorReads
<1> QED
  BY <1>2, <1>3 DEF CollectBackup

LEMMA CollectRestoreKeeps == ASSUME ProductionInv, CollectRestore PROVE ProductionInv'
<1>1. /\ observer.tool = "evidence" /\ observer.at = "restore" /\ observer.label \in Labels
      /\ observer.now \in Nat /\ UNCHANGED <<site, database, backup, proof, hour, restored>>
      /\ observer.calm \in BOOLEAN /\ Vouched(observer.backup, observer.now) /\ Calm(observer)
      /\ proof[observer.label] \in {NoProof} \cup RestoreProofs
  BY DEF CollectRestore, ProductionInv, ProductionTypes, ObserverFields, Held
<1> DEFINE p == proof[observer.label]
           b == observer.backup
           required == /\ PublicEvidence(observer) /\ observer.modes
                       /\ b.ok /\ RestoreEvidence(p, b, observer.now)
           report(copy) == [status |-> IF required /\ copy # "fail" THEN "partial" ELSE "fail",
                            backup |-> b, now |-> observer.now, version |-> observer.version,
                            web |-> observer.web, ready |-> observer.ready, public |-> PublicEvidence(observer)]
<1>2. CASE CollectFails
  BY <1>1, <1>2, CollectorFails
<1>3. CASE /\ p # NoProof /\ p.created <= observer.now
           /\ \E copy \in SecondaryCopies : WriteReport("evidence", report(copy))
           /\ observer' = NoObserver /\ Reported("evidence", observer.calm)
  <2>1. PICK copy \in SecondaryCopies : WriteReport("evidence", report(copy))
    BY <1>3
  <2>2. PICK e : e = report(copy)
    OBVIOUS
  <2>3. /\ e.backup = b /\ e.now = observer.now /\ e.version = observer.version
        /\ e.web = observer.web /\ e.ready = observer.ready /\ e.public = PublicEvidence(observer)
        /\ (e.status = "partial" => required)
    BY <2>2
  <2>4. p \in RestoreProofs /\ p.created <= observer.now /\ p.created \in Nat
    BY <1>1, <1>3 DEF RestoreProofs
  <2>5. PICK r \in restored : r.content = p.sha /\ r.at = p.created
    BY <1>1, <1>3 DEF ProductionInv, ProofsAreReal
  <2>6. required => /\ b.dump = b.sha /\ observer.now - b.created <= BackupMaxAge
                    /\ observer.now - p.created <= RestoreMaxAge /\ p.created >= b.created /\ p.sha = b.sha
    BY <1>1 DEF Vouched, RestoreEvidence
  <2>7. b.created \in Nat
    BY <1>1 DEF Vouched
  <2> HIDE DEF p, b, required, report
  <2>8. Restorable(e)
    BY <1>1, <2>3, <2>4, <2>5, <2>6, <2>7 DEF Restorable
  <2>9. observer.calm => observer.ready = Ready /\ observer.version = VersionAnswer /\ observer.web = WebAnswer
    BY <1>1 DEF Calm, KnowsReady, KnowsVersion, KnowsWeb
  <2>10. PublicEvidence(e) = PublicEvidence(observer)
    BY <2>3 DEF PublicEvidence
  <2>11. observer.calm => TrueReport("evidence", e)
    BY <2>3, <2>9, <2>10 DEF TrueReport, EvidenceTrue
  <2>12. PICK o : o = NoObserver
    OBVIOUS
  <2>13. ObserverFields(o) /\ Calm(o) /\ Held(o) /\ "evidence" \in Observers
    BY <2>12, NobodyObserves DEF Observers
  <2>14. WriteReport("evidence", e) /\ Reported("evidence", observer.calm) /\ observer' = o
    BY <1>3, <2>1, <2>2, <2>12
  <2>15. PICK calm \in BOOLEAN : calm = observer.calm
    BY <1>1
  <2> QED
    BY <1>1, <2>8, <2>11, <2>13, <2>14, <2>15, ObserverReports
<1> QED
  BY <1>2, <1>3 DEF CollectRestore

LEMMA CollectNextKeeps == ASSUME ProductionInv, CollectNext PROVE ProductionInv'
<1>1. ASSUME NEW l \in Labels, CollectStart(l) PROVE ProductionInv'
  <2>1. PICK o : o = [tool |-> "evidence", at |-> "ready", now |-> hour, label |-> l, calm |-> TRUE]
    OBVIOUS
  <2>2. /\ DOMAIN o = {"tool", "at", "now", "label", "calm"} /\ o.tool = "evidence" /\ o.at = "ready"
        /\ o.now = hour /\ o.label = l /\ o.calm = TRUE /\ hour \in Nat
    BY <2>1 DEF ProductionInv, ProductionTypes
  <2>3. ObserverFields(o)
    BY <2>2 DEF ObserverFields, Observers, KnowsReady, KnowsVersion, KnowsWeb, KnowsModes
  <2>4. Calm(o) /\ Held(o)
    BY <2>2 DEF Calm, Held, KnowsReady, KnowsVersion, KnowsWeb
  <2> QED
    BY <1>1, <2>1, <2>3, <2>4, ObserverMoves DEF CollectStart
<1> QED
  BY <1>1, CollectPublicKeeps, CollectBackupKeeps, CollectRestoreKeeps DEF CollectNext

LEMMA LiveNextKeeps == ASSUME ProductionInv, LiveNext PROVE ProductionInv'
<1>1. ASSUME NEW c \in Releases, LiveStart(c) PROVE ProductionInv'
  <2>1. PICK o : o = [tool |-> "live", at |-> 1, expected |-> c, failed |-> {}, calm |-> TRUE]
    OBVIOUS
  <2>2. /\ DOMAIN o = {"tool", "at", "expected", "failed", "calm"} /\ o.tool = "live" /\ o.at = 1
        /\ o.expected = c /\ o.failed = {} /\ o.calm = TRUE
    BY <2>1
  <2>3. o.at \in 1..10 /\ o.calm \in BOOLEAN /\ o.expected \in Releases /\ o.tool = "live"
    <3>1. o.at = 1
      BY <2>2
    <3>2. o.at \in 1..10
      BY <3>1
    <3>3. o.expected \in Releases /\ o.tool = "live"
      BY <1>1, <2>2
    <3>4. o.calm \in BOOLEAN
      BY <2>2, Zenon
    <3> QED
      BY <3>2, <3>3, <3>4
  <2>4. ObserverFields(o) /\ Held(o)
    <3>1. DOMAIN o = {"tool", "at", "expected", "failed", "calm"}
      BY <2>2
    <3> QED
      BY <2>3, <3>1 DEF ObserverFields, Observers, Held
  <2>5. Calm(o)
    BY <2>2, ProbesAreDone DEF Calm, Found
  <2> QED
    BY <1>1, <2>1, <2>4, <2>5, ObserverMoves DEF LiveStart
<1>2. CASE Probe
  <2>1. /\ observer.tool = "live" /\ observer.at \in 1..10 /\ observer.expected \in Releases
        /\ {"tool", "at", "calm", "expected", "failed"} \subseteq DOMAIN observer
        /\ observer.calm \in BOOLEAN /\ Probes[observer.at] # "done"
        /\ (observer.calm => observer.failed = Found(Done(observer.at), observer.expected))
    BY <1>2 DEF Probe, ProductionInv, ObserverFields, Calm
  <2>2. observer.at \in 1..9
    BY <2>1, ProbesAreDone
  <2> DEFINE probed == Probes[observer.at]
             bad == ProbeFinds(probed, observer.expected)
  <2>3. PICK answered \in {TRUE, ~observer.calm} :
          observer' = [observer EXCEPT !.at = @ + 1, !.calm = @ /\ answered,
                                       !.failed = IF bad \/ ~answered THEN @ \cup {probed} ELSE @]
    BY <1>2 DEF Probe
  <2>4. PICK o : o = observer'
    OBVIOUS
  <2> HIDE DEF probed, bad
  <2>5. /\ DOMAIN o = DOMAIN observer /\ o["at"] = observer.at + 1
        /\ o["failed"] = (IF bad \/ ~answered THEN observer.failed \cup {probed} ELSE observer.failed)
        /\ \A f \in DOMAIN observer \ {"at", "calm", "failed"} : o[f] = observer[f]
    BY <2>1, <2>3, <2>4
  <2>6. o["calm"] = (observer.calm /\ answered)
    BY <2>1, <2>3, <2>4
  <2>7. o["tool"] = "live" /\ o["expected"] = observer.expected
    BY <2>1, <2>5
  <2>8. answered \in BOOLEAN
    BY <2>1
  <2>9. o["calm"] \in BOOLEAN /\ (o["calm"] => observer.calm /\ answered)
    BY <2>1, <2>6, <2>8
  <2>10. ObserverFields(o)
    BY <2>1, <2>2, <2>5, <2>7, <2>9 DEF ObserverFields, Observers
  <2>11. o["calm"] => o["failed"] = Found(Done(o["at"]), o["expected"])
    <3>1. Done(observer.at + 1) = Done(observer.at) \cup {probed}
      BY <2>2, ProbesAreDone DEF probed
    <3>2. Found(Done(observer.at) \cup {probed}, observer.expected)
            = IF bad THEN Found(Done(observer.at), observer.expected) \cup {probed}
                     ELSE Found(Done(observer.at), observer.expected)
      BY DEF Found, bad
    <3> QED
      BY <3>1, <3>2, <2>1, <2>5, <2>7, <2>9
  <2>12. Calm(o) /\ Held(o)
    BY <2>7, <2>11 DEF Calm, Held
  <2> QED
    BY <1>2, <2>4, <2>10, <2>12, ObserverMoves DEF Probe
<1>3. CASE LiveEnd
  <2>1. /\ observer.tool = "live" /\ observer.at \in 1..10 /\ observer.calm \in BOOLEAN
        /\ Probes[observer.at] = "done"
        /\ (observer.calm => observer.failed = Found(Done(observer.at), observer.expected))
        /\ UNCHANGED <<site, database, backup, proof, hour, restored>>
    BY <1>3 DEF LiveEnd, ProductionInv, ObserverFields, Calm
  <2>2. observer.calm => observer.failed = Found(ProbeNames, observer.expected)
    BY <2>1, ProbesAreDone
  <2>3. PICK v : v = [status |-> IF observer.failed = {} THEN "pass" ELSE "fail", failed |-> observer.failed,
                      commit |-> observer.expected]
    OBVIOUS
  <2>4. v.failed = observer.failed /\ v.commit = observer.expected /\ (v.status = "pass" <=> v.failed = {})
    BY <2>3
  <2>5. observer.calm => TrueReport("live", v)
    BY <2>2, <2>4 DEF TrueReport, LiveTrue
  <2>6. PICK o : o = NoObserver
    OBVIOUS
  <2>7. ObserverFields(o) /\ Calm(o) /\ Held(o) /\ "live" \in Observers
    BY <2>6, NobodyObserves DEF Observers
  <2>8. WriteReport("live", v) /\ Reported("live", observer.calm) /\ observer' = o
    BY <1>3, <2>3, <2>6 DEF LiveEnd
  <2>9. PICK calm \in BOOLEAN : calm = observer.calm
    BY <2>1
  <2> QED
    BY <2>1, <2>5, <2>7, <2>8, <2>9, ObserverReports
<1> QED
  BY <1>1, <1>2, <1>3 DEF LiveNext

LEMMA ProductionInitially == ProductionInit => ProductionInv
<1> SUFFICES ASSUME ProductionInit PROVE ProductionInv
  OBVIOUS
<1>1. site \in Sites /\ database = 0 /\ hour = 0 /\ observer = NoObserver /\ steady = {}
      /\ receipt = [o \in Observers |-> NoReport]
  BY DEF ProductionInit, Sites
<1>2. backup \in [Labels -> {NoBackup} \cup Backups]
  BY DEF ProductionInit, Backups
<1>3. proof \in [Labels -> {NoProof} \cup RestoreProofs]
  BY DEF ProductionInit, RestoreProofs
<1>4. ProofsAreReal
  <2>1. CASE proof = [l \in Labels |-> NoProof]
    BY <2>1 DEF ProofsAreReal
  <2>2. CASE /\ proof = [l \in Labels |-> [of |-> l, sha |-> 0, created |-> 0]]
             /\ restored = {[content |-> 0, at |-> 0]}
    <3>1. PICK r \in restored : r.content = 0 /\ r.at = 0
      BY <2>2
    <3>2. \A l \in Labels : proof[l].sha = 0 /\ proof[l].created = 0
      BY <2>2
    <3> QED
      BY <3>1, <3>2 DEF ProofsAreReal
  <2> QED
    BY <2>1, <2>2 DEF ProductionInit
<1>5. ProductionTypes
  BY <1>1, <1>2, <1>3 DEF ProductionTypes
<1>6. receipt["evidence"].status = "none"
  BY <1>1 DEF Observers, NoReport
<1>7. EvidenceIsRestorable /\ SteadyIsTrue
  BY <1>1, <1>6 DEF EvidenceIsRestorable, SteadyIsTrue
<1> QED
  BY <1>1, <1>4, <1>5, <1>7, NobodyObserves DEF ProductionInv

LEMMA ProductionStep == ProductionInv /\ [ProductionNext]_productionVars => ProductionInv'
<1> SUFFICES ASSUME ProductionInv, [ProductionNext]_productionVars PROVE ProductionInv'
  OBVIOUS
<1>1. CASE ObserverDies
  <2>1. PICK o : o = NoObserver
    OBVIOUS
  <2>2. ObserverFields(o) /\ Calm(o) /\ Held(o)
    BY <2>1, NobodyObserves
  <2> QED
    BY <1>1, <2>1, <2>2, ObserverMoves DEF ObserverDies
<1>2. CASE UNCHANGED productionVars
  <2>1. PICK o : o = observer
    OBVIOUS
  <2>2. ObserverFields(o) /\ Calm(o) /\ Held(o)
    BY <2>1 DEF ProductionInv
  <2> QED
    BY <1>2, <2>1, <2>2, ObserverMoves DEF productionVars
<1> QED
  BY <1>1, <1>2, SiteNextKeeps, BackupNextKeeps, ReleaseNextKeeps, CollectNextKeeps, LiveNextKeeps
  DEF ProductionNext

\* Whatever is deployed, written, backed up, expired, damaged or restored between the
\* requests of the observers, and wherever they die: evidence that is not a failure
\* names bytes that a restore imported in time, and reports made of one state of the
\* site agree with it and with each other (collect_production_runtime_evidence.py,
\* verify_public_release_commit.py, check_public_live_readiness.py).
THEOREM ProductionReportsAreSound == ProductionSpec => []ReportsAreSound
<1>1. ProductionInv => ReportsAreSound
  BY SteadyReportsAgree DEF ProductionInv, ProductionTypes, ReportsAreSound
<1> QED
  BY <1>1, ProductionInitially, ProductionStep, PTL DEF ProductionSpec

(***************************************************************************)
(* Performance evidence.  A report is written from six files of different  *)
(* times, so the invariant says of each file what its tool can have put    *)
(* there (the times of a load lie in its window, histograms count), and of *)
(* a report that it is consistent by itself, whatever the checkout is by   *)
(* then: that is what verify recomputes.                                   *)
(***************************************************************************)

Histograms == [Classes -> Nat]
LoadTimes(l) == /\ l.start \in Int /\ IsFiniteSet(l.times)
                /\ l.times \subseteq Nat /\ \A t \in l.times : l.start <= t

\* The files that count, as their tools leave them.
ReceiptFile(f) == f.start \in Int /\ f.finish \in Nat
K6File(f) ==
    /\ f.http \in HttpOutcomes /\ f.start \in Int /\ f.finish \in Nat
    /\ f.requests \in Nat /\ f.times \subseteq Nat
    /\ \A t \in f.times : f.start <= t /\ t <= f.finish
    /\ f.requests > 0 => f.times # {}
ScrapeFile(f) == f.http \in Nat /\ f.hist \in Histograms

FilesAreReal ==
    /\ DOMAIN file = Artifacts \cup {"report"}
    /\ file["k6"] = NoFile \/ K6File(file["k6"])
    /\ \A a \in {"before", "after"} : file[a] = NoFile \/ ScrapeFile(file[a])
    /\ \A s \in Samplers : file[s] = NoFile \/ ReceiptFile(file[s])

EarnedPass(r) ==
    r.status = "pass" =>
         /\ r.times # {}
         /\ \A t \in r.times, taken \in {r.resource, r.connections} :
              taken.run = r.run /\ taken.start <= t /\ t <= taken.finish
         /\ r.binding.commit = r.head /\ r.measured = r.head
         /\ r.http.p95 <= MaxP95 /\ r.http.failed <= MaxFailed

EvidenceTypes ==
    /\ clock \in Nat
    /\ api \in [commit : Commits, http : Nat, seen : Histograms]
    /\ sampler \in [RunIds -> [Samplers -> Int]]
    /\ DOMAIN load = {"start", "times"} /\ LoadTimes(load)
    /\ load.start <= clock /\ \A t \in load.times : t <= clock

EvidenceInv ==
    /\ EvidenceTypes /\ FilesAreReal
    /\ LET r == file["report"] IN r # NoFile => EarnedPass(r) /\ ReportConsistent(r)
    /\ verdict[1] = "regression" => verdict[2] = "fail"

\* The quantiles of a histogram in which something was counted exist and are in order.

LEMMA ClassIsFirst ==
  ASSUME NEW d \in [Classes -> Nat], NEW percent \in 1..100
  PROVE  LET k == QuantileClass(d, percent) IN
         /\ k \in Classes /\ 100 * d[k] >= percent * d[3]
         /\ \A j \in 1..(k - 1) : 100 * d[j] < percent * d[3]
<1> DEFINE P(k) == /\ 100 * d[k] >= percent * d[3]
                   /\ \A j \in 1..(k - 1) : 100 * d[j] < percent * d[3]
<1>1. 100 * d[3] >= percent * d[3]
  <2>1. d[3] \in Nat
    BY DEF Classes
  <2> QED
    BY <2>1
<1>2. \E k \in Classes : P(k)
  <2>1. CASE 100 * d[1] >= percent * d[3]
    BY <2>1 DEF Classes
  <2>2. CASE 100 * d[1] < percent * d[3] /\ 100 * d[2] >= percent * d[3]
    <3>1. 2 \in Classes /\ \A j \in 1..(2 - 1) : j = 1
      BY DEF Classes
    <3> QED
      BY <2>2, <3>1
  <2>3. CASE 100 * d[1] < percent * d[3] /\ 100 * d[2] < percent * d[3]
    <3>1. 3 \in Classes /\ \A j \in 1..(3 - 1) : j = 1 \/ j = 2
      BY DEF Classes
    <3> QED
      BY <1>1, <2>3, <3>1
  <2>4. d[1] \in Nat /\ d[2] \in Nat /\ d[3] \in Nat
    BY DEF Classes
  <2>5. 100 * d[1] \in Int /\ 100 * d[2] \in Int /\ percent * d[3] \in Int
    BY <2>4
  <2> QED
    BY <2>1, <2>2, <2>3, <2>5
<1> QED
  BY <1>2, Zenon DEF QuantileClass

LEMMA DivMonotone ==
  ASSUME NEW a \in Nat, NEW b \in Nat, NEW n \in Nat, n > 0, a <= b
  PROVE  a \div n <= b \div n
  OBVIOUS

LEMMA DivBounds ==
  ASSUME NEW a \in Nat, NEW n \in Nat, n > 0, a <= 100 * n
  PROVE  a \div n \in 0..100
  OBVIOUS

\* A quantile lies in its class, at a place that grows with the percentage.
Below(d, k) == IF k = 1 THEN 0 ELSE d[k - 1]
PlacedIn(d, percent, k) ==
    /\ k \in Classes /\ Below(d, k) \in Nat /\ d[k] \in Nat /\ d[k] > Below(d, k)
    /\ percent * d[3] - 100 * Below(d, k) \in Nat
    /\ Quantile(d, percent) = 100 * (k - 1) + (percent * d[3] - 100 * Below(d, k)) \div (d[k] - Below(d, k))
    /\ Quantile(d, percent) \in 100 * (k - 1)..100 * k
LEMMA QuantileInClass ==
  ASSUME NEW d \in [Classes -> Nat], d[3] > 0, NEW percent \in 1..100
  PROVE  PlacedIn(d, percent, QuantileClass(d, percent))
<1> DEFINE k == QuantileClass(d, percent)
           lower == Below(d, k)
<1>1. k \in Classes /\ 100 * d[k] >= percent * d[3] /\ \A j \in 1..(k - 1) : 100 * d[j] < percent * d[3]
  BY ClassIsFirst
<1> HIDE DEF k
<1>2. d[3] \in Nat /\ d[k] \in Nat /\ k \in 1..3
  BY <1>1 DEF Classes
<1>3. percent * d[3] \in Nat /\ percent * d[3] > 0
  BY <1>2
<1>4. lower \in Nat /\ 100 * lower < percent * d[3]
  <2>1. CASE k = 1
    BY <1>3, <2>1 DEF Below
  <2>2. CASE k # 1
    <3>1. k - 1 \in 1..(k - 1) /\ k - 1 \in Classes
      BY <1>2, <2>2 DEF Classes
    <3> QED
      BY <1>1, <2>2, <3>1 DEF Below
  <2> QED
    BY <2>1, <2>2
<1> HIDE DEF lower
<1>5. PICK m \in Nat : m = percent * d[3]
  BY <1>3
<1>6. d[k] > lower /\ m - 100 * lower \in Nat /\ m - 100 * lower <= 100 * (d[k] - lower)
  BY <1>1, <1>2, <1>4, <1>5
<1>7. Quantile(d, percent) = 100 * (k - 1) + (m - 100 * lower) \div (d[k] - lower)
  <2>1. Quantile(d, percent) = 100 * (k - 1) + (IF d[k] = lower THEN 100
                         ELSE (percent * d[3] - 100 * lower) \div (d[k] - lower))
    BY Zenon DEF Quantile, k, lower, Below
  <2> QED
    BY <2>1, <1>2, <1>4, <1>5, <1>6
<1>8. (m - 100 * lower) \div (d[k] - lower) \in 0..100
  <2>1. d[k] - lower \in Nat /\ d[k] - lower > 0
    BY <1>2, <1>4, <1>6
  <2> QED
    BY <1>6, <2>1, DivBounds
<1>9. Quantile(d, percent) \in 100 * (k - 1)..100 * k
  BY <1>2, <1>7, <1>8
<1> QED
  BY <1>1, <1>2, <1>4, <1>5, <1>6, <1>7, <1>9 DEF PlacedIn, k, lower

LEMMA QuantilesInOrder ==
  ASSUME NEW d \in [Classes -> Nat], d[3] > 0, NEW p \in 1..100, NEW q \in 1..100, p <= q
  PROVE  Quantile(d, p) <= Quantile(d, q)
<1> DEFINE k == QuantileClass(d, p)
           l == QuantileClass(d, q)
           lower == Below(d, k)
<1>0. PlacedIn(d, p, k) /\ PlacedIn(d, q, l)
  BY QuantileInClass, Zenon
<1>1. /\ k \in Classes /\ lower \in Nat /\ d[k] \in Nat /\ d[k] > lower
      /\ p * d[3] - 100 * lower \in Nat
      /\ Quantile(d, p) = 100 * (k - 1) + (p * d[3] - 100 * lower) \div (d[k] - lower)
      /\ Quantile(d, p) \in 100 * (k - 1)..100 * k
  BY <1>0, Zenon DEF PlacedIn
<1>2. /\ l \in Classes
      /\ l = k => /\ q * d[3] - 100 * lower \in Nat
                  /\ Quantile(d, q) = 100 * (k - 1) + (q * d[3] - 100 * lower) \div (d[k] - lower)
      /\ Quantile(d, q) \in 100 * (l - 1)..100 * l
  <2> HIDE DEF k, l
  <2> QED
    BY <1>0 DEF PlacedIn
<1>3. k <= l
  <2>1. k \in Classes /\ l \in Classes /\ 100 * d[l] >= q * d[3]
        /\ \A j \in 1..(k - 1) : 100 * d[j] < p * d[3]
    BY ClassIsFirst
  <2> HIDE DEF k, l
  <2>2. d[3] \in Nat /\ d[l] \in Nat /\ k \in 1..3 /\ l \in 1..3
    BY <2>1 DEF Classes
  <2>3. q * d[3] >= p * d[3] /\ q * d[3] \in Nat /\ p * d[3] \in Nat
    BY <2>2
  <2>4. SUFFICES ASSUME l < k PROVE FALSE
    BY <2>2
  <2>5. 100 * d[l] < p * d[3]
    BY <2>1, <2>2, <2>4
  <2> QED
    BY <2>1, <2>2, <2>3, <2>5
<1> HIDE DEF k, l, lower
<1>4. CASE k < l
  BY <1>1, <1>2, <1>4 DEF Classes
<1>5. CASE k = l
  <2>1. d[3] \in Nat
    BY DEF Classes
  <2>2. q * d[3] >= p * d[3] /\ q * d[3] \in Nat /\ p * d[3] \in Nat
    BY <2>1
  <2>3. PICK a \in Nat : a = p * d[3] - 100 * lower
    BY <1>1
  <2>4. PICK b \in Nat : b = q * d[3] - 100 * lower
    BY <1>2, <1>5
  <2>5. PICK n \in Nat : n = d[k] - lower /\ n > 0
    BY <1>1
  <2>6. a <= b
    BY <1>1, <2>2, <2>3, <2>4
  <2>7. a \div n <= b \div n
    BY <2>5, <2>6, DivMonotone
  <2>8. a \div n \in Int /\ b \div n \in Int
    BY <2>5
  <2>9. Quantile(d, p) = 100 * (k - 1) + a \div n /\ Quantile(d, q) = 100 * (k - 1) + b \div n
    BY <1>1, <1>2, <1>5, <2>3, <2>4, <2>5
  <2> QED
    BY <2>7, <2>8, <2>9, <1>1 DEF Classes
<1> QED
  BY <1>1, <1>2, <1>3, <1>4, <1>5 DEF Classes

\* The regression fixture is consistent and breaches the budgets.
LEMMA RegressionFails ==
  ~AssembleFails(RegressionFiles) /\ Report(RegressionFiles).status = "fail"
<1> DEFINE f == RegressionFiles
           d == HistogramDelta(f["before"].hist, f["after"].hist)
<1>1. /\ f["k6"] = [run |-> FixtureRun, start |-> 1, finish |-> 2, fixture |-> world.fixture,
                    http |-> Breached, requests |-> 3, times |-> {}]
      /\ f["before"] = [commit |-> world.head, http |-> 0, hist |-> <<0, 0, 0>>]
      /\ f["after"] = [commit |-> world.head, http |-> 1, hist |-> <<0, 1, 1>>]
      /\ f["binding"] = [run |-> FixtureRun, head |-> world.head, commit |-> world.head,
                         source |-> world.source, fixture |-> world.fixture, rows |-> world.fixture]
      /\ \A s \in Samplers : f[s] = [run |-> FixtureRun, start |-> 0, finish |-> 3]
  BY DEF RegressionFiles, Artifacts, Samplers
<1> HIDE DEF f
<1>2. RunBound(f)
  BY <1>1 DEF RunBound, BindingCurrent, BindingValid, FixtureCurrent, ReceiptsBound, WorkloadBound,
              Covers, Window, LoadMeasured
<1>3. /\ f["before"].hist = <<0, 0, 0>> /\ f["after"].hist = <<0, 1, 1>>
      /\ f["before"].http = 0 /\ f["after"].http = 1
  BY <1>1
<1>4. d[1] = 0 /\ d[2] = 1 /\ d[3] = 1 /\ d \in [Classes -> Nat]
  BY <1>3 DEF HistogramDelta, Classes
<1>5. DeltaValid(f["before"].hist, f["after"].hist)
  BY <1>3 DEF DeltaValid, Classes
<1>6. ScrapesOfOneBuild(f["before"], f["after"])
  BY <1>1, <1>3, <1>5 DEF ScrapesOfOneBuild
<1> HIDE DEF d
<1>7. Finite(d)
  <2> SUFFICES ASSUME NEW percent \in {50, 95, 99} PROVE QuantileClass(d, percent) < 3
    BY DEF Finite
  <2>1. /\ QuantileClass(d, percent) \in Classes
        /\ \A j \in 1..(QuantileClass(d, percent) - 1) : 100 * d[j] < percent * d[3]
    <3>1. percent \in 1..100
      OBVIOUS
    <3> QED
      BY <1>4, <3>1, ClassIsFirst, Zenon
  <2> QED
    BY <1>4, <2>1 DEF Classes
<1>8. ScrapesBound(f)
  BY <1>3, <1>4, <1>6, <1>7 DEF ScrapesBound, d
<1>9. "p95" \in ThresholdFailures(f["k6"].http)
  BY <1>1, EvidenceAssumption DEF ThresholdFailures, Thresholds, Breached
<1>10. Report(f).status = "fail"
  BY <1>9 DEF Report
<1> QED
  BY <1>2, <1>8, <1>10 DEF AssembleFails, f

\* What check writes is consistent in itself, and earned when it passes.
LEMMA ReportIsSound ==
  ASSUME FilesAreReal, \A a \in Artifacts : file[a] # NoFile, ~AssembleFails(file)
  PROVE  EarnedPass(Report(file)) /\ ReportConsistent(Report(file))
<1> DEFINE d == HistogramDelta(file["before"].hist, file["after"].hist)
<1>1. RunBound(file) /\ ScrapesBound(file)
  BY DEF AssembleFails
<1>2. K6File(file["k6"]) /\ ScrapeFile(file["before"]) /\ ScrapeFile(file["after"])
      /\ \A s \in Samplers : ReceiptFile(file[s])
  BY DEF FilesAreReal, Artifacts, Samplers
<1>3. PICK k : k = file["k6"]
  OBVIOUS
<1>4. PICK b : b = file["binding"]
  OBVIOUS
<1>5. PICK r : r = Report(file)
  OBVIOUS
<1>6. /\ r.run = b.run /\ r.binding = b /\ r.head = world.head /\ r.measured = file["before"].commit
      /\ r.resource = file["resource"] /\ r.connections = file["connections"]
      /\ r.window = [start |-> k.start, finish |-> k.finish, run |-> k.run]
      /\ r.http = k.http /\ r.requests = k.requests /\ r.times = k.times
      /\ r.expected = file["after"].http - file["before"].http /\ r.queries = d[3]
      /\ r.db = [c \in {50, 95, 99} |-> Quantile(d, c)]
      /\ r.failures = ThresholdFailures(k.http)
      /\ r.status = IF ThresholdFailures(k.http) = {} THEN "pass" ELSE "fail"
  BY <1>3, <1>4, <1>5 DEF Report
<1>7. /\ r.window.start = k.start /\ r.window.finish = k.finish /\ r.window.run = k.run
      /\ \A c \in {50, 95, 99} : r.db[c] = Quantile(d, c)
  BY <1>6
<1>8. /\ k.run = b.run /\ k.start < k.finish /\ k.requests > 0 /\ b.commit = world.head
      /\ \A s \in Samplers : /\ file[s].run = b.run /\ file[s].start < file[s].finish
                             /\ file[s].start <= k.start /\ file[s].finish >= k.finish
  BY <1>1, <1>3, <1>4 DEF RunBound, WorkloadBound, Window, LoadMeasured, BindingCurrent, ReceiptsBound, Covers
<1>9. /\ file["before"].commit = world.head
      /\ DeltaValid(file["before"].hist, file["after"].hist)
      /\ d[3] > 0 /\ d[3] = file["after"].http - file["before"].http
  BY <1>1 DEF ScrapesBound, ScrapesOfOneBuild
<1>10. d \in [Classes -> Nat]
  <2>1. file["before"].hist \in [Classes -> Nat] /\ file["after"].hist \in [Classes -> Nat]
    BY <1>2 DEF ScrapeFile, Histograms
  <2>2. \A c \in Classes : file["after"].hist[c] - file["before"].hist[c] \in Nat
    BY <1>9, <2>1 DEF DeltaValid
  <2> QED
    BY <2>2 DEF HistogramDelta
<1> HIDE DEF d
<1>11. /\ k.http \in HttpOutcomes /\ k.start \in Int /\ k.finish \in Nat /\ k.requests \in Nat
       /\ k.times \subseteq Nat /\ k.times # {} /\ \A t \in k.times : k.start <= t /\ t <= k.finish
  BY <1>2, <1>3, <1>8 DEF K6File
<1>12. /\ k.http.p50 \in Nat /\ k.http.p95 \in Nat /\ k.http.p99 \in Nat /\ k.http.failed \in Nat
       /\ k.http.p50 <= k.http.p95 /\ k.http.p95 <= k.http.p99 /\ MaxP95 \in Nat /\ MaxFailed \in Nat
  <2>1. k.http \in [p50 : Nat, p95 : Nat, p99 : Nat, failed : Nat]
    BY <1>11, EvidenceAssumption
  <2>2. k.http.p50 \in Nat /\ k.http.p95 \in Nat /\ k.http.p99 \in Nat /\ k.http.failed \in Nat
    BY <2>1
  <2> QED
    BY <1>11, <2>2, EvidenceAssumption
<1>13. EarnedPass(r)
  <2> SUFFICES ASSUME r.status = "pass"
      PROVE /\ r.times # {}
            /\ \A t \in r.times, taken \in {r.resource, r.connections} :
                 taken.run = r.run /\ taken.start <= t /\ t <= taken.finish
            /\ r.binding.commit = r.head /\ r.measured = r.head
            /\ r.http.p95 <= MaxP95 /\ r.http.failed <= MaxFailed
    BY DEF EarnedPass
  <2>1. ~(k.http.p95 > MaxP95) /\ ~(k.http.failed > MaxFailed)
    BY <1>6 DEF ThresholdFailures, Thresholds
  <2>2. ASSUME NEW t \in k.times, NEW s \in Samplers
        PROVE  file[s].run = r.run /\ file[s].start <= t /\ t <= file[s].finish
    <3>1. file[s].start \in Int /\ file[s].finish \in Nat /\ t \in Nat
      BY <1>2, <1>11 DEF ReceiptFile
    <3> QED
      BY <3>1, <1>6, <1>8, <1>11
  <2> QED
    BY <1>6, <1>8, <1>9, <1>11, <1>12, <2>1, <2>2 DEF Samplers
<1>14. ReportConsistent(r)
  <2>1. Window(r.window) /\ r.window.run = r.binding.run
    BY <1>6, <1>7, <1>8 DEF Window
  <2>2. \A taken \in {r.resource, r.connections} :
          taken.run = r.binding.run /\ Window(taken) /\ Covers(taken, r.window)
    BY <1>6, <1>7, <1>8 DEF Window, Covers, Samplers
  <2>3. Ordered(r.http.p50, r.http.p95, r.http.p99) /\ r.requests >= 1
    BY <1>6, <1>8, <1>11, <1>12 DEF Ordered
  <2>4. Ordered(r.db[50], r.db[95], r.db[99])
    <3>1. Quantile(d, 50) <= Quantile(d, 95) /\ Quantile(d, 95) <= Quantile(d, 99)
      BY <1>9, <1>10, QuantilesInOrder, SMTT(30) DEF d
    <3> QED
      BY <1>7, <3>1 DEF Ordered
  <2>5. r.expected >= 1 /\ r.expected = r.queries
    <3>1. d[3] \in Nat
      BY <1>10 DEF Classes
    <3> QED
      BY <1>6, <1>9, <3>1 DEF d
  <2>6. r.failures = ThresholdFailures(r.http) /\ r.status = IF r.failures = {} THEN "pass" ELSE "fail"
    BY <1>6
  <2> QED
    BY <2>1, <2>2, <2>3, <2>4, <2>5, <2>6 DEF ReportConsistent
<1> QED
  BY <1>5, <1>13, <1>14

\* A step that leaves the report, or writes one of these, and says nothing of the regression.
LEMMA EvidenceKept ==
  ASSUME EvidenceInv, EvidenceTypes', FilesAreReal',
         file'["report"] \in {file["report"], NoFile}
           \/ (EarnedPass(file'["report"]) /\ ReportConsistent(file'["report"])),
         verdict' = verdict \/ verdict'[1] # "regression"
  PROVE  EvidenceInv'
<1>1. file'["report"] # NoFile => EarnedPass(file'["report"]) /\ ReportConsistent(file'["report"])
  BY DEF EvidenceInv
<1> QED
  BY <1>1 DEF EvidenceInv, EarnedPass, ReportConsistent, Ordered, Window, Covers, ThresholdFailures, Thresholds

\* A new file under one name leaves the others alone.
LEMMA OneFileWritten ==
  ASSUME FilesAreReal, NEW a \in Artifacts, NEW f, file' = [file EXCEPT ![a] = f],
         a = "k6" => K6File(f), a \in {"before", "after"} => ScrapeFile(f), a \in Samplers => ReceiptFile(f)
  PROVE  FilesAreReal' /\ file'["report"] = file["report"]
<1>1. DOMAIN file' = DOMAIN file /\ file'[a] = f /\ \A b \in DOMAIN file \ {a} : file'[b] = file[b]
  BY DEF FilesAreReal
<1>2. "report" # a /\ {"k6", "before", "after", "report"} \cup Samplers \subseteq DOMAIN file
  BY DEF FilesAreReal, Artifacts, Samplers
<1>3. file'["report"] = file["report"]
  BY <1>1, <1>2
<1>4. file'["k6"] = NoFile \/ K6File(file'["k6"])
  BY <1>1, <1>2 DEF FilesAreReal
<1>5. \A b \in {"before", "after"} : file'[b] = NoFile \/ ScrapeFile(file'[b])
  BY <1>1, <1>2 DEF FilesAreReal
<1>6. \A s \in Samplers : file'[s] = NoFile \/ ReceiptFile(file'[s])
  BY <1>1, <1>2 DEF FilesAreReal
<1> QED
  BY <1>1, <1>3, <1>4, <1>5, <1>6 DEF FilesAreReal, K6File, ScrapeFile, ReceiptFile

LEMMA SameFilesReal ==
  ASSUME FilesAreReal, UNCHANGED file
  PROVE  FilesAreReal' /\ file'["report"] = file["report"]
  BY DEF FilesAreReal, K6File, ScrapeFile, ReceiptFile

LEMMA ScrapeIsReal == ASSUME EvidenceTypes PROVE ScrapeFile(Scrape)
<1>1. api.http \in Nat /\ api.seen \in [Classes -> Nat]
  BY DEF EvidenceTypes, Histograms
<1>2. api.seen[1] \in Nat /\ api.seen[2] \in Nat /\ api.seen[3] \in Nat
  BY <1>1 DEF Classes
<1>3. Cumulative(api.seen) \in [Classes -> Nat]
  BY <1>2 DEF Cumulative
<1>4. Scrape.http = api.http /\ Scrape.hist = Cumulative(api.seen)
  BY DEF Scrape
<1> QED
  BY <1>1, <1>3, <1>4 DEF ScrapeFile, Histograms

\* A step that leaves clock, API, samplers and load alone.
LEMMA SameTypes == ASSUME EvidenceTypes, UNCHANGED <<clock, api, sampler, load>> PROVE EvidenceTypes'
  BY DEF EvidenceTypes, LoadTimes

LEMMA NoLoadIsReal ==
  DOMAIN NoLoad = {"start", "times"} /\ LoadTimes(NoLoad) /\ NoLoad.times = {} /\ NoLoad.start = -1
<1>1. NoLoad.start = -1 /\ NoLoad.times = {} /\ DOMAIN NoLoad = {"start", "times"}
  BY DEF NoLoad, NotStarted
<1> QED
  BY <1>1, FS_EmptySet DEF LoadTimes

LEMMA StartedIsReal == ASSUME NEW c \in Commits PROVE Started(c) \in [commit : Commits, http : Nat, seen : Histograms]
  BY DEF Started, Histograms

LEMMA LoadFinishKeeps == ASSUME EvidenceInv, NEW h \in HttpOutcomes, LoadFinish(h) PROVE EvidenceInv'
<1>1. PICK f : f = [run |-> attempt.no, start |-> load.start, finish |-> clock, fixture |-> world.fixture,
                    http |-> h, requests |-> Cardinality(load.times), times |-> load.times]
  OBVIOUS
<1>2. /\ f.start = load.start /\ f.finish = clock /\ f.http = h
      /\ f.requests = Cardinality(load.times) /\ f.times = load.times
  BY <1>1
<1>3. /\ LoadTimes(load) /\ \A t \in load.times : t <= clock
      /\ clock \in Nat
  BY DEF EvidenceInv, EvidenceTypes
<1>4. Cardinality(load.times) \in Nat /\ (Cardinality(load.times) > 0 => load.times # {})
  BY <1>3, FS_EmptySet, FS_CardinalityType DEF LoadTimes
<1>5. K6File(f)
  BY <1>2, <1>3, <1>4 DEF K6File, LoadTimes
<1>6. FilesAreReal' /\ file'["report"] = file["report"]
  <2>1. file' = [file EXCEPT !["k6"] = f]
    BY <1>1 DEF LoadFinish
  <2>2. "k6" \in Artifacts /\ "k6" \notin Samplers
    BY DEF Artifacts, Samplers
  <2> QED
    BY <1>5, <2>1, <2>2, OneFileWritten DEF EvidenceInv
<1>7. EvidenceTypes'
  <2>1. load' = NoLoad /\ UNCHANGED <<clock, api, sampler>>
    BY DEF LoadFinish
  <2> QED
    BY <2>1, NoLoadIsReal DEF EvidenceInv, EvidenceTypes, LoadTimes
<1> QED
  BY <1>6, <1>7, EvidenceKept DEF LoadFinish

LEMMA SamplerFinishKeeps ==
  ASSUME EvidenceInv, NEW r \in RunIds, NEW s \in Samplers, SamplerFinish(r, s)
  PROVE  EvidenceInv'
<1>1. sampler[r][s] \in Int /\ clock \in Nat
  BY DEF EvidenceInv, EvidenceTypes
<1>2. PICK f : f = SamplerReceipt(r, sampler[r][s])
  OBVIOUS
<1>3. ReceiptFile(f)
  <2>1. f.start = sampler[r][s] /\ f.finish = clock
    BY <1>2 DEF SamplerReceipt
  <2> QED
    BY <1>1, <2>1 DEF ReceiptFile
<1>4. FilesAreReal' /\ file'["report"] = file["report"]
  <2>1. file' = [file EXCEPT ![s] = f]
    BY <1>2 DEF SamplerFinish
  <2>2. s \in Artifacts /\ s \notin {"k6", "before", "after"}
    BY DEF Artifacts, Samplers
  <2> QED
    BY <1>3, <2>1, <2>2, OneFileWritten DEF EvidenceInv
<1>5. sampler' \in [RunIds -> [Samplers -> Int]]
  BY DEF SamplerFinish, Ended, EvidenceInv, EvidenceTypes
<1>6. EvidenceTypes'
  BY <1>5 DEF SamplerFinish, EvidenceInv, EvidenceTypes, LoadTimes
<1> QED
  BY <1>4, <1>6, EvidenceKept DEF SamplerFinish

LEMMA SearchObservedKeeps == ASSUME EvidenceInv, NEW k \in Classes, SearchObserved(k) PROVE EvidenceInv'
<1>0. UNCHANGED <<clock, sampler>>
  BY DEF SearchObserved
<1>1. api' \in [commit : Commits, http : Nat, seen : Histograms]
  <2>1. api.seen \in [Classes -> Nat]
    BY DEF EvidenceInv, EvidenceTypes, Histograms
  <2>2. [api.seen EXCEPT ![k] = @ + 1] \in [Classes -> Nat]
    BY <2>1
  <2>3. api' = [api EXCEPT !.seen = [api.seen EXCEPT ![k] = @ + 1]]
    BY DEF SearchObserved
  <2> QED
    BY <2>2, <2>3 DEF EvidenceInv, EvidenceTypes, Histograms
<1>2. /\ DOMAIN load' = {"start", "times"} /\ LoadTimes(load)'
      /\ load'.start = load.start /\ \A t \in load'.times : t <= clock
  <2>1. DOMAIN load = {"start", "times"} /\ LoadTimes(load) /\ \A t \in load.times : t <= clock /\ clock \in Nat
    BY DEF EvidenceInv, EvidenceTypes
  <2>2. CASE load.start >= 0
    <3>1. clock \in Nat /\ load.start <= clock
      BY DEF EvidenceInv, EvidenceTypes
    <3>2. PICK l : l = load'
      OBVIOUS
    <3>3. DOMAIN l = DOMAIN load /\ l.start = load.start /\ l.times = load.times \cup {clock}
      BY <2>1, <2>2, <3>2 DEF SearchObserved
    <3>4. IsFiniteSet(l.times)
      BY <2>1, <3>3, FS_AddElement DEF LoadTimes
    <3>5. l.start \in Int /\ l.times \subseteq Nat /\ \A t \in l.times : l.start <= t /\ t <= clock
      BY <2>1, <3>1, <3>3 DEF LoadTimes
    <3> QED
      BY <2>1, <3>2, <3>3, <3>4, <3>5 DEF LoadTimes
  <2>3. CASE ~(load.start >= 0)
    BY <2>1, <2>3 DEF SearchObserved, LoadTimes
  <2> QED
    BY <2>2, <2>3
<1>3. EvidenceTypes'
  BY <1>0, <1>1, <1>2 DEF EvidenceInv, EvidenceTypes
<1> QED
  BY <1>3, SameFilesReal, EvidenceKept DEF SearchObserved, EvidenceInv

LEMMA SurroundingsKeep == ASSUME EvidenceInv, Surroundings PROVE EvidenceInv'
<1>1. api' \in [commit : Commits, http : Nat, seen : Histograms] /\ UNCHANGED <<clock, sampler, load, file, verdict>>
  BY StartedIsReal DEF Surroundings, Redeploy, ChangeOf, EvidenceInv, EvidenceTypes
<1>2. EvidenceTypes'
  BY <1>1 DEF EvidenceInv, EvidenceTypes, LoadTimes
<1> QED
  BY <1>1, <1>2, SameFilesReal, EvidenceKept DEF EvidenceInv

LEMMA CheckKeeps == ASSUME EvidenceInv, Check PROVE EvidenceInv'
<1>1. EvidenceTypes'
  BY SameTypes DEF Check, EvidenceInv
<1>2. verdict'[1] # "regression"
  BY DEF Check
<1>3. CASE UNCHANGED file
  BY <1>1, <1>2, <1>3, SameFilesReal, EvidenceKept DEF EvidenceInv
<1>4. CASE ~AssembleFails(file) /\ file' = [file EXCEPT !["report"] = Report(file)]
  <2>1. EarnedPass(Report(file)) /\ ReportConsistent(Report(file))
    BY <1>4, ReportIsSound DEF Check, EvidenceInv
  <2>2. PICK r : r = Report(file)
    OBVIOUS
  <2>3. DOMAIN file' = DOMAIN file /\ file'["report"] = r /\ \A a \in DOMAIN file \ {"report"} : file'[a] = file[a]
    BY <1>4, <2>2 DEF EvidenceInv, FilesAreReal
  <2>4. Artifacts \subseteq DOMAIN file \ {"report"} /\ {"k6", "before", "after"} \cup Samplers \subseteq Artifacts
    BY DEF EvidenceInv, FilesAreReal, Artifacts, Samplers
  <2>5. FilesAreReal'
    BY <2>3, <2>4 DEF EvidenceInv, FilesAreReal, K6File, ScrapeFile, ReceiptFile
  <2> QED
    BY <1>1, <1>2, <2>1, <2>2, <2>3, <2>5, EvidenceKept
<1> QED
  BY <1>3, <1>4 DEF Check

LEMMA GiveUpKeeps == ASSUME EvidenceInv, GiveUp PROVE EvidenceInv'
<1>1. EvidenceTypes'
  <2>1. load' = NoLoad /\ UNCHANGED <<clock, api, sampler>>
    BY DEF GiveUp
  <2> QED
    BY <2>1, NoLoadIsReal DEF EvidenceInv, EvidenceTypes, LoadTimes
<1>2. DOMAIN file' = DOMAIN file /\ \A a \in DOMAIN file : file'[a] \in {file[a], NoFile}
  BY DEF GiveUp
<1>3. {"k6", "before", "after", "report"} \cup Samplers \subseteq DOMAIN file
  BY DEF EvidenceInv, FilesAreReal, Artifacts, Samplers
<1>4. FilesAreReal'
  BY <1>2, <1>3 DEF EvidenceInv, FilesAreReal, K6File, ScrapeFile, ReceiptFile
<1>5. verdict'[1] # "regression"
  BY DEF GiveUp
<1> QED
  BY <1>1, <1>2, <1>3, <1>4, <1>5, EvidenceKept

LEMMA EvidenceInitially == EvidenceInit => EvidenceInv
<1> SUFFICES ASSUME EvidenceInit PROVE EvidenceInv
  OBVIOUS
<1>1. EvidenceTypes
  <2>1. api \in [commit : Commits, http : Nat, seen : Histograms]
    BY StartedIsReal DEF EvidenceInit
  <2>2. sampler \in [RunIds -> [Samplers -> Int]]
    BY DEF EvidenceInit, NotStarted
  <2>3. load = NoLoad /\ clock = 0
    BY DEF EvidenceInit
  <2> QED
    BY <2>1, <2>2, <2>3, NoLoadIsReal DEF EvidenceTypes
<1>2. FilesAreReal /\ file["report"] = NoFile
  BY DEF EvidenceInit, FilesAreReal, Artifacts, Samplers
<1>3. verdict[1] # "regression"
  BY DEF EvidenceInit
<1> QED
  BY <1>1, <1>2, <1>3 DEF EvidenceInv

LEMMA EvidenceStep == EvidenceInv /\ [EvidenceNext]_evidenceVars => EvidenceInv'
<1> SUFFICES ASSUME EvidenceInv, [EvidenceNext]_evidenceVars PROVE EvidenceInv'
  OBVIOUS
<1>1. ASSUME UNCHANGED <<clock, api, sampler, load, file>>, verdict' = verdict \/ verdict'[1] # "regression"
      PROVE  EvidenceInv'
  BY <1>1, SameTypes, SameFilesReal, EvidenceKept DEF EvidenceInv
<1>2. CASE CaptureStart \/ CaptureRows \/ CaptureGeneration \/ WaitSamplers \/ Verify \/ UNCHANGED evidenceVars
  BY <1>1, <1>2 DEF CaptureStart, CaptureRows, CaptureGeneration, WaitSamplers, Verify, evidenceVars
<1>3. CASE RegressionCheck
  <2>1. verdict' = <<"regression", "fail">>
    BY <1>3, RegressionFails DEF RegressionCheck
  <2>2. EvidenceTypes' /\ FilesAreReal' /\ file' = file
    BY <1>3, SameTypes, SameFilesReal DEF RegressionCheck, EvidenceInv
  <2> QED
    BY <2>1, <2>2 DEF EvidenceInv, EarnedPass, ReportConsistent, Ordered, Window, Covers,
                      ThresholdFailures, Thresholds
<1>4. CASE Tick
  <2>1. EvidenceTypes'
    BY <1>4 DEF Tick, EvidenceInv, EvidenceTypes, LoadTimes
  <2> QED
    BY <1>4, <2>1, SameFilesReal, EvidenceKept DEF Tick, EvidenceInv
<1>5. CASE SearchCounted
  <2>1. api' \in [commit : Commits, http : Nat, seen : Histograms]
    BY <1>5 DEF SearchCounted, EvidenceInv, EvidenceTypes
  <2>2. EvidenceTypes'
    BY <1>5, <2>1 DEF SearchCounted, EvidenceInv, EvidenceTypes, LoadTimes
  <2> QED
    BY <1>5, <2>2, SameFilesReal, EvidenceKept DEF SearchCounted, EvidenceInv
<1>6. ASSUME NEW s \in Samplers, SamplerStart(s) PROVE EvidenceInv'
  <2>1. sampler' \in [RunIds -> [Samplers -> Int]]
    <3>1. sampler \in [RunIds -> [Samplers -> Int]] /\ clock \in Int
      BY DEF EvidenceInv, EvidenceTypes
    <3>2. sampler' = [sampler EXCEPT ![attempt.no][s] = clock]
      BY <1>6 DEF SamplerStart
    <3>3. ASSUME NEW n \in RunIds PROVE [sampler[n] EXCEPT ![s] = clock] \in [Samplers -> Int]
      BY <3>1
    <3> QED
      BY <3>1, <3>2, <3>3
  <2>2. EvidenceTypes'
    BY <1>6, <2>1 DEF SamplerStart, EvidenceInv, EvidenceTypes, LoadTimes
  <2> QED
    BY <1>6, <2>2, SameFilesReal, EvidenceKept DEF SamplerStart, EvidenceInv
<1>7. CASE LoadStart
  <2>1. PICK l : l = load'
    OBVIOUS
  <2>2. DOMAIN l = {"start", "times"} /\ l.start = clock /\ l.times = {}
    BY <1>7, <2>1 DEF LoadStart
  <2>3. EvidenceTypes'
    BY <1>7, <2>1, <2>2, FS_EmptySet DEF LoadStart, EvidenceInv, EvidenceTypes, LoadTimes
  <2> QED
    BY <1>7, <2>3, SameFilesReal, EvidenceKept DEF LoadStart, EvidenceInv
<1>8. ASSUME NEW a \in {"before", "after"}, file' = [file EXCEPT ![a] = Scrape],
             UNCHANGED <<clock, api, sampler, load, verdict>>
      PROVE  EvidenceInv'
  <2>1. a \in Artifacts /\ a # "k6" /\ a \notin Samplers
    BY DEF Artifacts, Samplers
  <2>2. FilesAreReal' /\ file'["report"] = file["report"]
    BY <1>8, <2>1, ScrapeIsReal, OneFileWritten DEF EvidenceInv
  <2> QED
    BY <1>8, <2>2, SameTypes, EvidenceKept DEF EvidenceInv
<1>9. CASE ScrapeBefore \/ ScrapeAfter
  BY <1>8, <1>9 DEF ScrapeBefore, ScrapeAfter
<1>10. CASE CaptureApi
  <2>1. PICK b : file' = [file EXCEPT !["binding"] = b]
    BY <1>10 DEF CaptureApi
  <2>2. "binding" \in Artifacts /\ "binding" \notin {"k6", "before", "after"} \cup Samplers
    BY DEF Artifacts, Samplers
  <2>3. FilesAreReal' /\ file'["report"] = file["report"]
    BY <2>1, <2>2, OneFileWritten DEF EvidenceInv
  <2> QED
    BY <1>10, <2>3, SameTypes, EvidenceKept DEF CaptureApi, EvidenceInv
<1> QED
  BY <1>2, <1>3, <1>4, <1>5, <1>6, <1>7, <1>9, <1>10, GiveUpKeeps, CheckKeeps, SurroundingsKeep,
     SearchObservedKeeps, SamplerFinishKeeps, LoadFinishKeeps
  DEF EvidenceNext, EvidenceSteps

\* Whatever is deployed, checked out, edited or loaded between the steps of a load run,
\* and whichever sampler of an abandoned attempt still writes its receipt: a report that
\* passes is of searches served while both samplers of its own run were sampling, on the
\* build it names and within the budgets; verify accepts exactly the reports check passed
\* as long as the checkout is the one they name; and the regression fixture always fails
\* (assemble_report, verify_report, render_regression_fixture of scripts/performance).
THEOREM EvidenceVerdictIsSound == EvidenceSpec => []VerdictIsSound
<1>1. EvidenceInv => VerdictIsSound
  <2> SUFFICES ASSUME EvidenceInv PROVE VerdictIsSound
    OBVIOUS
  <2>1. PassIsEarned
    BY DEF EvidenceInv, EarnedPass, PassIsEarned
  <2>2. VerifyAgrees
    BY DEF EvidenceInv, VerifyAgrees, VerifyAccepts
  <2> QED
    BY <2>1, <2>2 DEF VerdictIsSound
<1> QED
  BY <1>1, EvidenceInitially, EvidenceStep, PTL DEF EvidenceSpec

\* A non-empty set of natural numbers has a least element.
LEMMA Least == ASSUME NEW S, S \subseteq Nat, S # {} PROVE \E x \in S : \A y \in S : x <= y
<1> DEFINE R == {ss \in Nat \X Nat : ss[1] < ss[2]}
<1>1. IsWellFoundedOn(R, Nat)
  BY NatLessThanWellFounded, Zenon DEF OpToRel
<1>2. \A y, x \in Nat : y < x => <<y, x>> \in R
  OBVIOUS
<1> HIDE DEF R
<1>3. PICK x \in S : \A y \in S : ~ (<<y, x>> \in R)
  BY <1>1, WFMin
<1>4. \A y \in S : ~ (y < x)
  BY <1>2, <1>3
<1>5. \A y \in S : x <= y
  BY <1>4
<1> QED
  BY <1>5

(***************************************************************************)
(* OCI publisher.  What an image's thread has seen of the registry may no  *)
(* longer be what its tag shows, but the bytes it saw are still stored.    *)
(***************************************************************************)

ThreadStates ==
    [at : {"none", "canonical", "existing", "verify", "done", "failed"}]
        \cup [at : {"copy"}, left : Nat]

PublisherInv ==
    /\ thread \in [Images -> ThreadStates]
    /\ mirrorTag \in [Images -> {"absent", "canonical", "other"}]
    /\ stored \subseteq Images /\ copying \subseteq Images /\ batch \in Nat
    /\ \A i \in Images :
         mirrorTag[i] = "canonical" \/ thread[i].at \in {"verify", "done"} => i \in stored
    /\ batch > 0 => \A i \in Images : BatchOf[i] < batch => i \in provenance.images
    /\ ProvenanceIsStored

\* The last batch is the highest number any image of the seed has.
LEMMA LastBatchIsLast ==
  ASSUME Images # {} PROVE LastBatch \in Nat /\ \A i \in Images : BatchOf[i] <= LastBatch
<1> DEFINE S == {n \in Nat : \A i \in Images : BatchOf[i] <= n}
<1>1. /\ Cardinality(Images) \in Nat
      /\ \A i \in Images : BatchOf[i] \in Nat /\ 1 <= BatchOf[i] /\ BatchOf[i] <= Cardinality(Images)
  BY PublisherAssumption, FS_CardinalityType
<1>2. PICK m \in S : \A n \in S : m <= n
  <2>1. Cardinality(Images) \in S
    BY <1>1
  <2> QED
    BY <2>1, Least, Zenon
<1>3. \E i \in Images : BatchOf[i] = m
  <2> SUFFICES ASSUME \A i \in Images : BatchOf[i] # m PROVE FALSE
    OBVIOUS
  <2>1. m - 1 \in S
    BY <1>1, <1>2
  <2> QED
    BY <1>2, <2>1
<1>4. m \in {BatchOf[i] : i \in Images} /\ \A i \in Images : BatchOf[i] <= m
  BY <1>2, <1>3
<1>5. LastBatch \in {BatchOf[i] : i \in Images} /\ \A i \in Images : BatchOf[i] <= LastBatch
  BY <1>4 DEF LastBatch
<1> QED
  BY <1>1, <1>5

LEMMA ThreadPlaces ==
  /\ \A s \in {"none", "canonical", "existing", "verify", "done", "failed"} : [at |-> s] \in ThreadStates
  /\ \A n \in Nat : [at |-> "copy", left |-> n] \in ThreadStates
  BY DEF ThreadStates

LEMMA ThreadMoves ==
  ASSUME PublisherInv, NEW i \in Images, NEW state \in ThreadStates, Becomes(i, state)
  PROVE  /\ thread' \in [Images -> ThreadStates] /\ thread'[i] = state
         /\ \A j \in Images : j # i => thread'[j] = thread[j]
  BY DEF PublisherInv, Becomes

\* A thread that moves leaves the registry and the file alone; a place that claims the
\* bytes is reached only where they are stored.
LEMMA ThreadSteps ==
  ASSUME PublisherInv, NEW i \in Images, NEW state \in ThreadStates, Becomes(i, state),
         state.at \in {"verify", "done"} => i \in stored,
         UNCHANGED <<mirrorTag, stored, batch, provenance>>, copying' \subseteq Images
  PROVE  PublisherInv'
  BY ThreadMoves DEF PublisherInv, ProvenanceIsStored

\* The canonical bytes of an image arrive.
LEMMA BytesArrive ==
  ASSUME PublisherInv, NEW i \in Images, Arrive(i), UNCHANGED <<batch, provenance>>,
         copying' \subseteq Images, thread' \in [Images -> ThreadStates],
         \A j \in Images : j # i => thread'[j] = thread[j]
  PROVE  PublisherInv'
<1>1. mirrorTag' \in [Images -> {"absent", "canonical", "other"}]
      /\ (\A j \in Images : j # i => mirrorTag'[j] = mirrorTag[j]) /\ stored' = stored \cup {i}
  BY DEF PublisherInv, Arrive
<1> QED
  BY <1>1 DEF PublisherInv, ProvenanceIsStored

LEMMA PublisherStartsSound == PublisherInit => PublisherInv
<1> SUFFICES ASSUME PublisherInit PROVE PublisherInv
  OBVIOUS
<1>1. thread \in [Images -> ThreadStates] /\ \A i \in Images : thread[i].at = "none"
  BY ThreadPlaces DEF PublisherInit, Quiet
<1> QED
  BY <1>1 DEF PublisherInit, PublisherInv, ProvenanceIsStored, NoProvenance

\* Whoever is submitted has seen nothing yet.
LEMMA NobodyClaims ==
  ASSUME NEW b, thread' = [i \in Images |-> IF BatchOf[i] = b THEN [at |-> "canonical"] ELSE Quiet]
  PROVE  thread' \in [Images -> ThreadStates] /\ \A i \in Images : thread'[i].at \in {"canonical", "none"}
  BY ThreadPlaces DEF Quiet

LEMMA BatchEndsSound == ASSUME PublisherInv, BatchEnds PROVE PublisherInv'
<1> DEFINE done == provenance.images \cup {i \in InBatch(batch) : thread[i].at = "done"}
           failed == {i \in InBatch(batch) : thread[i].at = "failed"}
           status == IF failed # {} THEN (IF done # {} THEN "partial" ELSE "failed")
                     ELSE IF batch = LastBatch THEN "pass" ELSE "running"
<1>1. /\ batch \in Nat /\ batch > 0 /\ UNCHANGED <<mirrorTag, stored, copying>>
      /\ \A i \in InBatch(batch) : thread[i].at \in {"done", "failed"}
      /\ provenance' = [status |-> status, images |-> done, failures |-> failed]
      /\ \/ status = "running" /\ batch' = batch + 1 /\ Submit(batch + 1)
         \/ status # "running" /\ batch' = 0 /\ thread' = [i \in Images |-> Quiet]
  BY DEF BatchEnds, PublisherInv
<1>2. done \subseteq stored
  BY DEF PublisherInv, ProvenanceIsStored, InBatch
<1>3. failed = {} => InBatch(batch) \subseteq done
  BY <1>1
<1>4. failed = {} => \A i \in Images : BatchOf[i] < batch + 1 => i \in done
  <2> SUFFICES ASSUME failed = {}, NEW i \in Images, BatchOf[i] < batch + 1 PROVE i \in done
    OBVIOUS
  <2>1. BatchOf[i] \in Nat
    BY PublisherAssumption
  <2>2. CASE BatchOf[i] = batch
    BY <1>3, <2>2 DEF InBatch
  <2>3. CASE BatchOf[i] < batch
    BY <1>1, <2>3 DEF PublisherInv
  <2> QED
    BY <1>1, <2>1, <2>2, <2>3
<1>5. status = "pass" => done = Images /\ failed = {}
  <2> SUFFICES ASSUME status = "pass" PROVE done = Images /\ failed = {}
    OBVIOUS
  <2>1. failed = {} /\ batch = LastBatch
    OBVIOUS
  <2>2. Images \subseteq done
    <3> SUFFICES ASSUME NEW i \in Images PROVE i \in done
      OBVIOUS
    <3>1. BatchOf[i] <= LastBatch /\ BatchOf[i] \in Nat
      BY LastBatchIsLast, PublisherAssumption
    <3>2. BatchOf[i] < batch + 1
      BY <1>1, <2>1, <3>1
    <3> QED
      BY <1>4, <2>1, <3>2, Zenon
  <2>3. done \subseteq Images
    BY <1>2 DEF PublisherInv
  <2> QED
    BY <2>1, <2>2, <2>3
<1>6. status = "running" => failed = {}
  OBVIOUS
<1> HIDE DEF done, failed, status
<1>7. /\ provenance'.images = done /\ provenance'.status = status /\ provenance'.failures = failed
  BY <1>1
<1>8. ProvenanceIsStored'
  BY <1>1, <1>2, <1>5, <1>7 DEF ProvenanceIsStored
<1>9. thread' \in [Images -> ThreadStates] /\ \A i \in Images : thread'[i].at \in {"canonical", "none"}
  <2>1. CASE Submit(batch + 1)
    BY <2>1, NobodyClaims DEF Submit
  <2>2. CASE thread' = [i \in Images |-> Quiet]
    BY <2>2, ThreadPlaces DEF Quiet
  <2> QED
    BY <1>1, <2>1, <2>2
<1>10. batch' \in Nat /\ (batch' > 0 => \A i \in Images : BatchOf[i] < batch' => i \in provenance'.images)
  BY <1>1, <1>4, <1>6, <1>7
<1> QED
  BY <1>1, <1>8, <1>9, <1>10 DEF PublisherInv

LEMMA PublisherStep == PublisherInv /\ [PublisherNext]_publisherVars => PublisherInv'
<1> SUFFICES ASSUME PublisherInv, [PublisherNext]_publisherVars PROVE PublisherInv'
  OBVIOUS
<1>1. CASE UNCHANGED publisherVars
  BY <1>1 DEF publisherVars, PublisherInv, ProvenanceIsStored
<1>2. CASE Publish
  <2>1. CASE batch' = 1 /\ Submit(1) /\ provenance' = [status |-> "running", images |-> {}, failures |-> {}]
    <3>1. thread' \in [Images -> ThreadStates] /\ \A i \in Images : thread'[i].at \in {"canonical", "none"}
      BY <2>1, NobodyClaims DEF Submit
    <3>2. \A i \in Images : ~(BatchOf[i] < 1)
      BY PublisherAssumption
    <3> QED
      BY <1>2, <2>1, <3>1, <3>2 DEF Publish, PublisherInv, ProvenanceIsStored
  <2>2. CASE UNCHANGED <<batch, thread>> /\ batch = 0
             /\ provenance' = [status |-> "failed", images |-> {}, failures |-> {"toolchain"}]
    BY <1>2, <2>2 DEF Publish, PublisherInv, ProvenanceIsStored
  <2> QED
    BY <1>2, <2>1, <2>2 DEF Publish
<1>3. CASE PublisherDies
  <2>1. thread' \in [Images -> ThreadStates] /\ (\A i \in Images : thread'[i].at = "none")
    BY <1>3, ThreadPlaces DEF PublisherDies, Quiet
  <2> QED
    BY <1>3, <2>1 DEF PublisherDies, PublisherInv, ProvenanceIsStored
<1>4. ASSUME NEW i \in Images, InspectCanonical(i) PROVE PublisherInv'
  BY <1>4, ThreadPlaces, ThreadSteps DEF InspectCanonical, Fails, PublisherInv
<1>5. ASSUME NEW i \in Images, InspectExisting(i) PROVE PublisherInv'
  BY <1>5, ThreadPlaces, ThreadSteps, PublisherAssumption DEF InspectExisting, Fails, Reusable, PublisherInv
<1>6. ASSUME NEW i \in Images, CopyOne(i) PROVE PublisherInv'
  <2>1. CASE Arrive(i) /\ Becomes(i, [at |-> "verify"]) /\ UNCHANGED copying
    BY <1>6, <2>1, ThreadPlaces, ThreadMoves, BytesArrive DEF CopyOne, PublisherInv
  <2>2. ASSUME copying' \in {copying, copying \cup {i}}, UNCHANGED <<mirrorTag, stored>>,
               IF thread[i].left > 1
               THEN Becomes(i, [at |-> "copy", left |-> thread[i].left - 1]) ELSE Fails(i)
        PROVE  PublisherInv'
    <3>1. thread[i].left \in Nat
      BY <1>6 DEF PublisherInv, ThreadStates, CopyOne
    <3>2. thread[i].left > 1 => thread[i].left - 1 \in Nat
      BY <3>1
    <3>3. copying' \subseteq Images
      BY <2>2 DEF PublisherInv
    <3> QED
      BY <1>6, <2>2, <3>2, <3>3, ThreadPlaces, ThreadSteps DEF CopyOne, Fails
  <2> QED
    BY <1>6, <2>1, <2>2 DEF CopyOne
<1>7. ASSUME NEW i \in Images, VerifyCopy(i) PROVE PublisherInv'
  BY <1>7, ThreadPlaces, ThreadSteps DEF VerifyCopy, Fails, PublisherInv
<1>8. ASSUME NEW i \in Images, LateCopy(i) PROVE PublisherInv'
  BY <1>8, BytesArrive DEF LateCopy, PublisherInv
<1>9. ASSUME NEW i \in Images, TagMoves(i) PROVE PublisherInv'
  <2>1. /\ mirrorTag' \in [Images -> {"absent", "canonical", "other"}]
        /\ \A j \in Images : mirrorTag'[j] = "canonical" => mirrorTag[j] = "canonical"
    BY <1>9 DEF TagMoves, PublisherInv
  <2> QED
    BY <1>9, <2>1 DEF TagMoves, PublisherInv, ProvenanceIsStored
<1> QED
  BY <1>1, <1>2, <1>3, <1>4, <1>5, <1>6, <1>7, <1>8, <1>9, BatchEndsSound DEF PublisherNext

(***************************************************************************)
(* Reused proofs.  The invariant follows one proof from the inspection of  *)
(* load-kind through the two files into the run that reuses it; nothing is *)
(* said of what Docker's tags show in between.                             *)
(***************************************************************************)

\* What KindReceipt makes of an inspection: all nodes ran the image it read
\* first, which is the locked one unless it read two.
SoundProof(p) == p.ran = {p.kindId} /\ (p.torn <=> p.kindId # p.digest)

BoundTo(p, identity) == SoundProof(p) /\ InputsOf[p.commit] = identity

AcceptedIsBound(w) ==
    /\ InputsOf[w.proof.commit] = w.identity
    /\ \/ w.proof.ran = {LockedDigest[w.identity]}
       \/ (w.proof.torn /\ w.proof.hostId # LockedDigest[w.identity])

WorkSound(w) ==
    /\ "at" \in DOMAIN w
    /\ w.at \in {"kindCheck", "kindLoad", "kindId", "kindDigests", "kindNodes"} => "lock" \in DOMAIN w
    /\ w.at \in {"kindDigests", "kindNodes"} => "kindId" \in DOMAIN w
    /\ w.at = "kindNodes" => (w.torn <=> w.kindId # w.lock)
    /\ w.at = "proved" => SoundProof(w.proof)
    /\ w.at = "record" => BoundTo(w.proof, w.identity)
    /\ w.at \in {"hash", "payload"} =>
         "record" \in DOMAIN w /\ "identity" \in DOMAIN w /\ BoundTo(w.record, w.identity)
    /\ w.at = "accepted" => AcceptedIsBound(w)

MirrorInv ==
    /\ work = [c \in Checkouts |-> work[c]]
    /\ \A c \in Checkouts : WorkSound(work[c])
    /\ recordFile.status = "pass" => BoundTo(recordFile.proof, recordFile.identity)
    /\ \A c \in Checkouts : work[c].at = "payload" => SoundProof(proofFile)

\* An invocation that moves on while the files stay.
LEMMA InvocationMoves ==
  ASSUME MirrorInv, NEW c \in Checkouts, NEW state, Goes(c, state), WorkSound(state),
         state.at = "payload" => SoundProof(proofFile), UNCHANGED <<proofFile, recordFile>>
  PROVE  MirrorInv'
<1>1. /\ work' = [d \in Checkouts |-> work'[d]]
      /\ work'[c] = state /\ \A d \in Checkouts : d # c => work'[d] = work[d]
  BY DEF MirrorInv, Goes
<1> QED
  BY <1>1 DEF MirrorInv

LEMMA AsleepIsSound == WorkSound(Asleep) /\ Asleep.at # "payload"
  BY DEF WorkSound, Asleep

LEMMA GoesAsleep ==
  ASSUME MirrorInv, NEW c \in Checkouts, Goes(c, Asleep), UNCHANGED <<proofFile, recordFile>>
  PROVE  MirrorInv'
  BY AsleepIsSound, InvocationMoves

LEMMA MirrorStartsSound == MirrorInit => MirrorInv
  BY AsleepIsSound DEF MirrorInit, MirrorInv, NoRecord

LEMMA ReadImageIdSound ==
  ASSUME MirrorInv, NEW c \in Checkouts, NEW at, NEW field, NEW next,
         ReadImageId(c, at, field, next),
         (field = "hostId" /\ next = "hostDigests")
           \/ (at = "kindId" /\ field = "kindId" /\ next = "kindDigests")
  PROVE  MirrorInv'
<1>1. WorkSound(work[c]) /\ work[c].at = at /\ UNCHANGED <<proofFile, recordFile>>
  BY DEF MirrorInv, ReadImageId, ReuseFiles
<1>2. CASE Goes(c, Asleep)
  BY <1>1, <1>2, GoesAsleep
<1> DEFINE v == [f \in DOMAIN work[c] \cup {field} |->
                       IF f = field THEN localTag ELSE IF f = "at" THEN next ELSE work[c][f]]
<1>3. CASE Goes(c, v)
  <2>1. "at" \in DOMAIN work[c]
    BY <1>1 DEF WorkSound
  <2>2. /\ DOMAIN v = DOMAIN work[c] \cup {field} /\ v.at = next
        /\ \A f \in DOMAIN work[c] \ {field, "at"} : v[f] = work[c][f]
    BY <2>1
  <2> HIDE DEF v
  <2>3. WorkSound(v) /\ v.at # "payload"
    BY <1>1, <2>1, <2>2 DEF WorkSound
  <2> QED
    BY <1>1, <1>3, <2>3, InvocationMoves
<1> QED
  BY <1>2, <1>3 DEF ReadImageId

LEMMA MirrorStep == MirrorInv /\ [MirrorNext]_mirrorVars => MirrorInv'
<1> SUFFICES ASSUME MirrorInv, [MirrorNext]_mirrorVars PROVE MirrorInv'
  OBVIOUS
<1>1. CASE UNCHANGED mirrorVars
  BY <1>1 DEF mirrorVars, MirrorInv
<1>2. CASE ForeignTag
  BY <1>2 DEF ForeignTag, ReuseFiles, MirrorInv
<1>3. ASSUME NEW c \in Checkouts, NEW h \in Heads, Switch(c, h) PROVE MirrorInv'
  BY <1>3 DEF Switch, ReuseFiles, MirrorInv
<1>4. ASSUME NEW c \in Checkouts, LoadHost(c) \/ StartMirrorProof(c) \/ Validate(c) PROVE MirrorInv'
  <2>1. ASSUME NEW state, Begins(c, state), WorkSound(state), state.at # "payload" PROVE MirrorInv'
    BY <2>1, InvocationMoves DEF Begins, ReuseFiles
  <2>2. CASE LoadHost(c)
    <3>1. WorkSound([at |-> "pull", lock |-> Lock(c)])
      BY DEF WorkSound
    <3> QED
      BY <2>1, <2>2, <3>1 DEF LoadHost
  <2>3. CASE StartMirrorProof(c)
    <3>1. WorkSound([at |-> "hostId", commit |-> headOf[c], lock |-> Lock(c)])
      BY DEF WorkSound
    <3> QED
      BY <2>1, <2>3, <3>1 DEF StartMirrorProof
  <2>4. CASE Validate(c)
    <3>1. WorkSound([at |-> "readRecord", identity |-> Inputs(c)])
      BY DEF WorkSound
    <3> QED
      BY <2>1, <2>4, <3>1 DEF Validate
  <2> QED
    BY <1>4, <2>2, <2>3, <2>4
<1>5. ASSUME NEW c \in Checkouts, PullOne(c) \/ Reuse(c) \/ RunDies(c) PROVE MirrorInv'
  BY <1>5, GoesAsleep DEF PullOne, Reuse, RunDies, ReuseFiles
<1>6. ASSUME NEW c \in Checkouts, HostImageId(c) \/ KindImageId(c) PROVE MirrorInv'
  BY <1>6, ReadImageIdSound DEF HostImageId, KindImageId
<1>7. ASSUME NEW c \in Checkouts, NEW at, NEW next, work[c].at = at, UNCHANGED <<proofFile, recordFile>>,
             (at = "hostDigests" /\ next = "hostHash") \/ (at = "kindCheck" /\ next = "kindLoad")
               \/ (at = "kindLoad" /\ next = "kindId"),
             Goes(c, [work[c] EXCEPT !.at = next])
      PROVE  MirrorInv'
  <2> DEFINE v == [work[c] EXCEPT !.at = next]
  <2>1. WorkSound(work[c])
    BY DEF MirrorInv
  <2>2. "at" \in DOMAIN work[c]
    BY <2>1 DEF WorkSound
  <2>3. DOMAIN v = DOMAIN work[c] /\ v.at = next
    BY <2>2
  <2> HIDE DEF v
  <2>4. WorkSound(v) /\ v.at # "payload"
    BY <1>7, <2>1, <2>3 DEF WorkSound
  <2>5. Goes(c, v)
    BY <1>7 DEF v
  <2> QED
    BY <1>7, <2>4, <2>5, InvocationMoves
<1>8. ASSUME NEW c \in Checkouts, HostDigests(c) \/ KindCheck(c) PROVE MirrorInv'
  BY <1>7, <1>8, GoesAsleep DEF HostDigests, KindCheck, ReuseFiles
<1>9. ASSUME NEW c \in Checkouts, KindLoad(c) PROVE MirrorInv'
  BY <1>7, <1>9, GoesAsleep DEF KindLoad, ReuseFiles
<1>10. ASSUME NEW c \in Checkouts, HostReceipt(c) PROVE MirrorInv'
  <2>1. WorkSound([at |-> "kindCheck", commit |-> work[c].commit, lock |-> Lock(c),
                hostId |-> work[c].hostId, hostLock |-> Lock(c)])
    BY DEF WorkSound
  <2> QED
    BY <1>10, <2>1, InvocationMoves DEF HostReceipt, ReuseFiles
<1>11. ASSUME NEW c \in Checkouts, KindDigests(c) PROVE MirrorInv'
  <2>1. WorkSound(work[c]) /\ work[c].at = "kindDigests" /\ UNCHANGED <<proofFile, recordFile>>
    BY <1>11 DEF MirrorInv, KindDigests, ReuseFiles
  <2>2. CASE Goes(c, Asleep)
    BY <2>1, <2>2, GoesAsleep
  <2> DEFINE v == [f \in DOMAIN work[c] \cup {"torn"} |->
                       IF f = "torn" THEN work[c].kindId # localTag
                       ELSE IF f = "at" THEN "kindNodes" ELSE work[c][f]]
  <2>3. CASE Goes(c, v) /\ localTag = work[c].lock
    <3>1. {"at", "lock", "kindId"} \subseteq DOMAIN work[c]
      BY <2>1 DEF WorkSound
    <3>2. /\ DOMAIN v = DOMAIN work[c] \cup {"torn"} /\ v.at = "kindNodes"
          /\ v.lock = work[c].lock /\ v.kindId = work[c].kindId
      BY <3>1
    <3>3. v.torn <=> work[c].kindId # localTag
      OBVIOUS
    <3> HIDE DEF v
    <3>4. v.torn <=> v.kindId # v.lock
      BY <2>3, <3>2, <3>3
    <3>5. WorkSound(v) /\ v.at # "payload"
      BY <3>1, <3>2, <3>4 DEF WorkSound
    <3> QED
      BY <2>1, <2>3, <3>5, InvocationMoves
  <2> QED
    BY <1>11, <2>2, <2>3 DEF KindDigests, DigestsBound
<1>12. ASSUME NEW c \in Checkouts, KindReceipt(c) PROVE MirrorInv'
  <2> DEFINE p == [status |-> "pass", commit |-> work[c].commit,
                                 hostId |-> work[c].hostId, hostLock |-> work[c].hostLock,
                                 kindId |-> work[c].kindId, kindLock |-> Lock(c),
                                 digest |-> work[c].lock, torn |-> work[c].torn,
                                 ran |-> {nodeImage[c][n] : n \in KindNodes}]
             v == [at |-> "proved", proof |-> p]
  <2>1. WorkSound(work[c]) /\ work[c].at = "kindNodes" /\ UNCHANGED <<proofFile, recordFile>>
    BY <1>12 DEF MirrorInv, KindReceipt, ReuseFiles
  <2>2. CASE Goes(c, Asleep)
    BY <2>1, <2>2, GoesAsleep
  <2>3. CASE Goes(c, v) /\ NodesBound(c)
    <3>1. p.ran = {work[c].kindId}
      BY <2>3, MirrorAssumption DEF NodesBound
    <3>2. p.kindId = work[c].kindId /\ p.digest = work[c].lock /\ p.torn = work[c].torn
      OBVIOUS
    <3>3. work[c].torn <=> work[c].kindId # work[c].lock
      BY <2>1 DEF WorkSound
    <3>4. v.proof = p /\ v.at = "proved" /\ "at" \in DOMAIN v
      OBVIOUS
    <3> HIDE DEF v, p
    <3>5. SoundProof(p)
      BY <3>1, <3>2, <3>3 DEF SoundProof
    <3>6. WorkSound(v) /\ v.at # "payload"
      BY <3>4, <3>5 DEF WorkSound
    <3> QED
      BY <2>1, <2>3, <3>6, InvocationMoves
  <2> QED
    BY <1>12, <2>2, <2>3 DEF KindReceipt
<1>13. ASSUME NEW c \in Checkouts, RecordProof(c) PROVE MirrorInv'
  <2> DEFINE v == [at |-> "record", identity |-> Inputs(c), proof |-> work[c].proof]
  <2>1. WorkSound(work[c]) /\ work[c].at = "proved" /\ UNCHANGED recordFile
    BY <1>13 DEF MirrorInv, RecordProof
  <2>2. CASE Goes(c, Asleep) /\ UNCHANGED proofFile
    BY <2>1, <2>2, GoesAsleep
  <2>3. CASE Goes(c, v) /\ work[c].proof.commit = headOf[c] /\ proofFile' = work[c].proof
    <3>1. SoundProof(work[c].proof)
      BY <2>1 DEF WorkSound
    <3>2. BoundTo(work[c].proof, Inputs(c))
      BY <2>3, <3>1 DEF BoundTo, Inputs
    <3>3. v.at = "record" /\ v.proof = work[c].proof /\ v.identity = Inputs(c) /\ "at" \in DOMAIN v
      OBVIOUS
    <3> HIDE DEF v
    <3>4. WorkSound(v) /\ v.at # "payload"
      BY <3>2, <3>3 DEF WorkSound
    <3>5. /\ work' = [d \in Checkouts |-> work'[d]]
          /\ work'[c] = v /\ \A d \in Checkouts : d # c => work'[d] = work[d]
      BY <2>3 DEF MirrorInv, Goes
    <3>6. SoundProof(proofFile')
      BY <2>3, <3>1
    <3> QED
      BY <2>1, <3>4, <3>5, <3>6 DEF MirrorInv
  <2> QED
    BY <1>13, <2>2, <2>3 DEF RecordProof
<1>14. ASSUME NEW c \in Checkouts, RecordIdentity(c) PROVE MirrorInv'
  <2>1. WorkSound(work[c]) /\ work[c].at = "record" /\ UNCHANGED proofFile /\ Goes(c, Asleep)
        /\ recordFile' = [status |-> "pass", identity |-> work[c].identity, proof |-> work[c].proof]
    BY <1>14 DEF MirrorInv, RecordIdentity
  <2>2. BoundTo(recordFile'.proof, recordFile'.identity)
    BY <2>1 DEF WorkSound
  <2>3. /\ work' = [d \in Checkouts |-> work'[d]]
        /\ work'[c] = Asleep /\ \A d \in Checkouts : d # c => work'[d] = work[d]
    BY <2>1 DEF MirrorInv, Goes
  <2> QED
    BY <2>1, <2>2, <2>3, AsleepIsSound DEF MirrorInv
<1>15. ASSUME NEW c \in Checkouts, ReadRecord(c) PROVE MirrorInv'
  <2> DEFINE v == [at |-> "hash", identity |-> work[c].identity, record |-> recordFile.proof]
  <2>1. UNCHANGED <<proofFile, recordFile>>
    BY <1>15 DEF ReadRecord, ReuseFiles
  <2>2. CASE Goes(c, Asleep)
    BY <2>1, <2>2, GoesAsleep
  <2>3. CASE Goes(c, v) /\ recordFile.status = "pass" /\ recordFile.identity = work[c].identity
    <3>1. BoundTo(recordFile.proof, work[c].identity)
      BY <2>3 DEF MirrorInv
    <3>2. v.at = "hash" /\ v.identity = work[c].identity /\ v.record = recordFile.proof
          /\ {"at", "identity", "record"} \subseteq DOMAIN v
      OBVIOUS
    <3> HIDE DEF v
    <3>3. WorkSound(v) /\ v.at # "payload"
      BY <3>1, <3>2 DEF WorkSound
    <3> QED
      BY <2>1, <2>3, <3>3, InvocationMoves
  <2> QED
    BY <1>15, <2>2, <2>3 DEF ReadRecord
<1>16. ASSUME NEW c \in Checkouts, HashProof(c) PROVE MirrorInv'
  <2> DEFINE v == [work[c] EXCEPT !.at = "payload"]
  <2>1. UNCHANGED <<proofFile, recordFile>> /\ WorkSound(work[c]) /\ work[c].at = "hash"
    BY <1>16 DEF HashProof, ReuseFiles, MirrorInv
  <2>2. CASE Goes(c, Asleep)
    BY <2>1, <2>2, GoesAsleep
  <2>3. CASE Goes(c, v) /\ proofFile = work[c].record
    <3>1. {"at", "record", "identity"} \subseteq DOMAIN work[c] /\ BoundTo(work[c].record, work[c].identity)
      BY <2>1 DEF WorkSound
    <3>2. DOMAIN v = DOMAIN work[c] /\ v.at = "payload" /\ v.record = work[c].record /\ v.identity = work[c].identity
      BY <3>1
    <3> HIDE DEF v
    <3>3. WorkSound(v)
      BY <3>1, <3>2 DEF WorkSound
    <3>4. SoundProof(proofFile)
      BY <2>3, <3>1 DEF BoundTo
    <3> QED
      BY <2>1, <2>3, <3>3, <3>4, InvocationMoves
  <2> QED
    BY <1>16, <2>2, <2>3 DEF HashProof, HashMatches
<1>17. ASSUME NEW c \in Checkouts, ReadProof(c) PROVE MirrorInv'
  <2> DEFINE v == [at |-> "accepted", identity |-> work[c].identity, proof |-> proofFile]
  <2>1. UNCHANGED <<proofFile, recordFile>> /\ WorkSound(work[c]) /\ work[c].at = "payload" /\ SoundProof(proofFile)
    BY <1>17 DEF ReadProof, ReuseFiles, MirrorInv
  <2>2. CASE Goes(c, Asleep)
    BY <2>1, <2>2, GoesAsleep
  <2>3. CASE /\ Goes(c, v) /\ LockedDigest[work[c].identity] = Lock(c)
             /\ proofFile.commit = work[c].record.commit /\ ControlledProof(proofFile, Lock(c))
    <3>1. InputsOf[proofFile.commit] = work[c].identity
      BY <2>1, <2>3 DEF WorkSound, BoundTo
    <3>2. \/ proofFile.ran = {LockedDigest[work[c].identity]}
          \/ (proofFile.torn /\ proofFile.hostId # LockedDigest[work[c].identity])
      BY <2>1, <2>3 DEF SoundProof, ControlledProof, ClusterImage
    <3>3. v.at = "accepted" /\ v.identity = work[c].identity /\ v.proof = proofFile /\ "at" \in DOMAIN v
      OBVIOUS
    <3> HIDE DEF v
    <3>4. WorkSound(v) /\ v.at # "payload"
      BY <3>1, <3>2, <3>3 DEF WorkSound, AcceptedIsBound
    <3> QED
      BY <2>1, <2>3, <3>4, InvocationMoves
  <2> QED
    BY <1>17, <2>2, <2>3 DEF ReadProof
<1> QED
  BY <1>1, <1>2, <1>3, <1>4, <1>5, <1>6, <1>8, <1>9, <1>10, <1>11, <1>12, <1>13, <1>14, <1>15, <1>16, <1>17
  DEF MirrorNext

LEMMA AcceptedProofs == MirrorInv => ReusedProofIsBound
  BY DEF MirrorInv, WorkSound, AcceptedIsBound, ReusedProofIsBound

(***************************************************************************)
(* Dockerfiles.  The loop keeps a count of stages, a set of aliases and a  *)
(* count per base image; the invariant says they are those of the file     *)
(* written so far, at every line of it.                                    *)
(***************************************************************************)

ScanTypes ==
    [joining : BOOLEAN, part : Words \cup {NoWords}, aliases : SUBSET {Folded[n] : n \in StageNames},
     stages : Nat, observed : [BaseImages -> Nat], rewritten : Seq(Words),
     verdict : {"reading", "refused", "accepted"}]

OnBase(instrs, b) == {i \in Stages(instrs) : instrs[i].base = ociLock[b].local}
AliasesOf(instrs) == {Folded[instrs[i].alias] : i \in {j \in Stages(instrs) : instrs[j].alias # ""}}
Complete(t) == t.keyword \notin {"", "ADD", "ONBUILD"}

FileSound(instrs) ==
    /\ \A i \in Stages(instrs) :
         (\E b \in BaseImages : instrs[i].base = ociLock[b].local) \/ EarlierStages(instrs, i, instrs[i].base) # {}
    /\ \A i \in DOMAIN instrs : Complete(instrs[i]) /\ \A src \in Reads(instrs[i]) : ReadsStage(instrs, i, src)

CountsSound(s) ==
    /\ s.stages = Cardinality(Stages(s.rewritten))
    /\ s.aliases = AliasesOf(s.rewritten)
    /\ \A b \in BaseImages : s.observed[b] = Cardinality(OnBase(s.rewritten, b))

TextLines(lines) == {i \in DOMAIN lines : lines[i].kind = "text"}
EndLines(lines) == {i \in TextLines(lines) : ~lines[i].more}

\* Every instruction is written once; a line that goes on is followed by text
\* or is the last one read.
LinesSound(s, lines) ==
    /\ Len(s.rewritten) = Cardinality(EndLines(lines))
    /\ \A i \in TextLines(lines) : lines[i].more => i + 1 \in TextLines(lines) \/ (i = Len(lines) /\ s.joining)

DockerfileInv ==
    /\ ociLock \in OciLocks /\ dockerfile \in Seq(DockerLines) /\ scan \in ScanTypes
    /\ scan.verdict # "refused" =>
         /\ scan.joining => scan.part \in Words
         /\ FileSound(scan.rewritten) /\ CountsSound(scan) /\ LinesSound(scan, dockerfile)
    /\ scan.verdict = "accepted" => ~scan.joining /\ \A b \in BaseImages : scan.observed[b] = 1

LEMMA StagesAreFinite ==
  ASSUME NEW instrs \in Seq(Words)
  PROVE  /\ Stages(instrs) \subseteq 1..Len(instrs) /\ IsFiniteSet(Stages(instrs))
         /\ Cardinality(Stages(instrs)) \in Nat
<1>1. Len(instrs) \in Nat /\ Stages(instrs) \subseteq 1..Len(instrs)
  BY DEF Stages
<1>2. IsFiniteSet(1..Len(instrs))
  BY <1>1, FS_Interval
<1>3. IsFiniteSet(Stages(instrs))
  BY <1>1, <1>2, FS_Subset
<1> QED
  BY <1>1, <1>3, FS_CardinalityType

\* One instruction more.
LEMMA OneMore ==
  ASSUME NEW instrs \in Seq(Words), NEW t \in Words
  PROVE  LET q == Append(instrs, t)
             k == Len(instrs) + 1
         IN /\ q \in Seq(Words) /\ Len(q) = k /\ q[k] = t /\ k \in Nat
            /\ \A i \in 1..Len(instrs) : q[i] = instrs[i] /\ i < k
            /\ DOMAIN q = DOMAIN instrs \cup {k} /\ k \notin DOMAIN instrs
            /\ t.keyword = "FROM" => Stages(q) = Stages(instrs) \cup {k}
            /\ t.keyword # "FROM" => Stages(q) = Stages(instrs)
            /\ k \notin Stages(instrs) /\ Stages(instrs) \subseteq DOMAIN instrs
            /\ \A i \in DOMAIN instrs : q[i] = instrs[i]
<1> DEFINE q == Append(instrs, t)
           k == Len(instrs) + 1
<1>1. q \in Seq(Words) /\ Len(q) = k /\ q[k] = t /\ k \in Nat
      /\ (\A i \in 1..Len(instrs) : q[i] = instrs[i] /\ i < k) /\ DOMAIN q = 1..k /\ DOMAIN instrs = 1..Len(instrs)
  OBVIOUS
<1>2. DOMAIN q = DOMAIN instrs \cup {k} /\ k \notin DOMAIN instrs
  BY <1>1
<1> HIDE DEF q, k
<1>3. k \notin Stages(instrs)
  BY <1>2 DEF Stages
<1>4. ASSUME NEW i PROVE i \in Stages(q) <=> (i \in Stages(instrs) \/ (i = k /\ t.keyword = "FROM"))
  BY <1>1, <1>2 DEF Stages
<1>5. t.keyword = "FROM" => Stages(q) = Stages(instrs) \cup {k}
  BY <1>4
<1>6. t.keyword # "FROM" => Stages(q) = Stages(instrs)
  BY <1>4
<1> QED
  BY <1>1, <1>2, <1>3, <1>5, <1>6 DEF q, k, Stages

\* The stages before a line that was there stay, and before the new one there
\* are all those of the file.
LEMMA BegunBefore ==
  ASSUME NEW instrs \in Seq(Words), NEW t \in Words
  PROVE  LET q == Append(instrs, t)
             k == Len(instrs) + 1
         IN /\ \A i \in DOMAIN instrs : {j \in Stages(q) : j < i} = {j \in Stages(instrs) : j < i}
            /\ \A i \in DOMAIN instrs : \A n : EarlierStages(q, i, n) = EarlierStages(instrs, i, n)
            /\ {j \in Stages(q) : j < k} = Stages(instrs)
            /\ \A n : EarlierStages(q, k, n) # {} <=> n \in DOMAIN Folded /\ Folded[n] \in AliasesOf(instrs)
<1> DEFINE q == Append(instrs, t)
           k == Len(instrs) + 1
<1>1. /\ \A i \in 1..Len(instrs) : q[i] = instrs[i] /\ i < k
      /\ DOMAIN instrs = 1..Len(instrs) /\ k \in Nat /\ k \notin Stages(instrs)
      /\ Stages(q) = Stages(instrs) \cup {k} \/ Stages(q) = Stages(instrs)
      /\ Stages(instrs) \subseteq 1..Len(instrs)
  BY OneMore, StagesAreFinite
<1> HIDE DEF q, k
<1>2. ASSUME NEW i \in DOMAIN instrs PROVE {j \in Stages(q) : j < i} = {j \in Stages(instrs) : j < i}
  BY <1>1
<1>3. ASSUME NEW i \in DOMAIN instrs, NEW n PROVE EarlierStages(q, i, n) = EarlierStages(instrs, i, n)
  <2>1. ASSUME NEW j PROVE j \in Stages(q) /\ j < i <=> j \in Stages(instrs) /\ j < i
    BY <1>2
  <2>2. \A j \in Stages(instrs) : q[j] = instrs[j]
    BY <1>1
  <2> QED
    BY <2>1, <2>2 DEF EarlierStages
<1>4. {j \in Stages(q) : j < k} = Stages(instrs)
  BY <1>1
<1>5. ASSUME NEW n PROVE EarlierStages(q, k, n) # {} <=> n \in DOMAIN Folded /\ Folded[n] \in AliasesOf(instrs)
  <2>1. ASSUME NEW j PROVE j \in Stages(q) /\ j < k <=> j \in Stages(instrs)
    BY <1>4
  <2>2. \A j \in Stages(instrs) : q[j] = instrs[j]
    BY <1>1
  <2>3. EarlierStages(q, k, n) = {j \in Stages(instrs) : /\ instrs[j].alias # "" /\ n \in DOMAIN Folded
                                  /\ Folded[instrs[j].alias] = Folded[n]}
    BY <2>1, <2>2 DEF EarlierStages
  <2>4. ASSUME n \in DOMAIN Folded, Folded[n] \in AliasesOf(instrs) PROVE EarlierStages(q, k, n) # {}
    <3>1. PICK j \in Stages(instrs) : instrs[j].alias # "" /\ Folded[n] = Folded[instrs[j].alias]
      BY <2>4 DEF AliasesOf
    <3> QED
      BY <2>3, <2>4, <3>1
  <2>5. ASSUME EarlierStages(q, k, n) # {} PROVE n \in DOMAIN Folded /\ Folded[n] \in AliasesOf(instrs)
    BY <2>3, <2>5 DEF AliasesOf
  <2> QED
    BY <2>4, <2>5
<1> QED
  BY <1>2, <1>3, <1>4, <1>5 DEF q, k

\* A file stays sound with a line that is.
LEMMA FileGrows ==
  ASSUME NEW instrs \in Seq(Words), NEW t \in Words, FileSound(instrs), Complete(t),
         t.keyword = "FROM" =>
            \/ \E b \in BaseImages : t.base = ociLock[b].local
            \/ t.base \in DOMAIN Folded /\ Folded[t.base] \in AliasesOf(instrs),
         \A src \in Reads(t) :
            IF src.name = "" THEN src.index < Cardinality(Stages(instrs))
            ELSE src.name \in DOMAIN Folded /\ Folded[src.name] \in AliasesOf(instrs)
  PROVE  FileSound(Append(instrs, t))
<1> DEFINE q == Append(instrs, t)
           k == Len(instrs) + 1
<1>1. /\ q[k] = t /\ (\A i \in DOMAIN instrs : q[i] = instrs[i]) /\ DOMAIN q = DOMAIN instrs \cup {k}
      /\ Stages(q) = Stages(instrs) \cup {k} \/ Stages(q) = Stages(instrs)
      /\ Stages(instrs) \subseteq DOMAIN instrs /\ k \notin Stages(instrs)
      /\ t.keyword # "FROM" => Stages(q) = Stages(instrs)
  BY OneMore, ZenonT(40)
<1>2. /\ \A i \in DOMAIN instrs : {j \in Stages(q) : j < i} = {j \in Stages(instrs) : j < i}
      /\ \A i \in DOMAIN instrs : \A n : EarlierStages(q, i, n) = EarlierStages(instrs, i, n)
      /\ {j \in Stages(q) : j < k} = Stages(instrs)
      /\ \A n : EarlierStages(q, k, n) # {} <=> n \in DOMAIN Folded /\ Folded[n] \in AliasesOf(instrs)
  BY BegunBefore
<1> HIDE DEF q, k
<1>3. ASSUME NEW i \in Stages(q)
      PROVE  (\E b \in BaseImages : q[i].base = ociLock[b].local) \/ EarlierStages(q, i, q[i].base) # {}
  <2>1. CASE i \in Stages(instrs)
    <3>1. i \in DOMAIN instrs /\ q[i] = instrs[i]
      BY <1>1, <2>1
    <3>2. EarlierStages(q, i, q[i].base) = EarlierStages(instrs, i, instrs[i].base)
      BY <1>2, <3>1
    <3> QED
      BY <2>1, <3>1, <3>2 DEF FileSound
  <2>2. CASE i = k /\ t.keyword = "FROM"
    BY <1>1, <1>2, <2>2
  <2> QED
    BY <1>1, <2>1, <2>2
<1>4. ASSUME NEW i \in DOMAIN q
      PROVE  Complete(q[i]) /\ \A src \in Reads(q[i]) : ReadsStage(q, i, src)
  <2>1. CASE i \in DOMAIN instrs
    <3>1. q[i] = instrs[i] /\ {j \in Stages(q) : j < i} = {j \in Stages(instrs) : j < i}
      BY <1>1, <1>2, <2>1
    <3>2. ASSUME NEW src \in Reads(q[i]) PROVE ReadsStage(q, i, src)
      <4>1. ReadsStage(instrs, i, src)
        BY <2>1, <3>1, <3>2 DEF FileSound
      <4>2. EarlierStages(q, i, src.name) = EarlierStages(instrs, i, src.name)
        BY <1>2, <2>1
      <4> QED
        BY <3>1, <4>1, <4>2 DEF ReadsStage
    <3> QED
      BY <2>1, <3>1, <3>2 DEF FileSound
  <2>2. CASE i = k
    <3>1. ASSUME NEW src \in Reads(t) PROVE ReadsStage(q, k, src)
      BY <1>2, <3>1 DEF ReadsStage
    <3> QED
      BY <1>1, <2>2, <3>1
  <2> QED
    BY <1>1, <2>1, <2>2
<1>5. FileSound(q)
  BY <1>3, <1>4 DEF FileSound
<1> QED
  BY <1>5 DEF q

\* An instruction that is no FROM leaves the counts alone.
LEMMA NoStageAdded ==
  ASSUME NEW instrs \in Seq(Words), NEW t \in Words, t.keyword # "FROM"
  PROVE  LET q == Append(instrs, t)
         IN Stages(q) = Stages(instrs) /\ AliasesOf(q) = AliasesOf(instrs)
            /\ \A b \in BaseImages : OnBase(q, b) = OnBase(instrs, b)
<1> DEFINE q == Append(instrs, t)
<1>1. (\A i \in Stages(instrs) : q[i] = instrs[i]) /\ Stages(q) = Stages(instrs)
  BY OneMore, StagesAreFinite
<1> HIDE DEF q
<1>2. AliasesOf(q) = AliasesOf(instrs) /\ \A b \in BaseImages : OnBase(q, b) = OnBase(instrs, b)
  BY <1>1 DEF AliasesOf, OnBase
<1> QED
  BY <1>1, <1>2 DEF q

\* A FROM adds a stage, its alias and, for one base image at most, a count.
LEMMA StageAdded ==
  ASSUME NEW instrs \in Seq(Words), NEW t \in Words, t.keyword = "FROM"
  PROVE  LET q == Append(instrs, t)
         IN /\ Cardinality(Stages(q)) = Cardinality(Stages(instrs)) + 1
            /\ AliasesOf(q) = IF t.alias = "" THEN AliasesOf(instrs) ELSE AliasesOf(instrs) \cup {Folded[t.alias]}
            /\ \A b \in BaseImages : Cardinality(OnBase(q, b)) =
                  Cardinality(OnBase(instrs, b)) + IF t.base = ociLock[b].local THEN 1 ELSE 0
<1> DEFINE q == Append(instrs, t)
           k == Len(instrs) + 1
<1>1. /\ q[k] = t /\ (\A i \in Stages(instrs) : q[i] = instrs[i])
      /\ Stages(q) = Stages(instrs) \cup {k} /\ k \notin Stages(instrs)
      /\ IsFiniteSet(Stages(instrs)) /\ Cardinality(Stages(instrs)) \in Nat
  BY OneMore, StagesAreFinite
<1> HIDE DEF q, k
<1>2. Cardinality(Stages(q)) = Cardinality(Stages(instrs)) + 1
  BY <1>1, FS_AddElement
<1>3. ASSUME NEW i \in Stages(instrs) PROVE i \in Stages(q) /\ q[i].alias = instrs[i].alias
  BY <1>1
<1>4. AliasesOf(q) = IF t.alias = "" THEN AliasesOf(instrs) ELSE AliasesOf(instrs) \cup {Folded[t.alias]}
  <2>1. ASSUME NEW x \in AliasesOf(q) PROVE x \in AliasesOf(instrs) \/ (t.alias # "" /\ x = Folded[t.alias])
    <3>1. PICK i \in Stages(q) : q[i].alias # "" /\ x = Folded[q[i].alias]
      BY DEF AliasesOf
    <3> QED
      BY <1>1, <1>3, <3>1 DEF AliasesOf
  <2>2. AliasesOf(instrs) \subseteq AliasesOf(q)
    <3> SUFFICES ASSUME NEW x \in AliasesOf(instrs) PROVE x \in AliasesOf(q)
      OBVIOUS
    <3>1. PICK i \in Stages(instrs) : instrs[i].alias # "" /\ x = Folded[instrs[i].alias]
      BY DEF AliasesOf
    <3>2. i \in Stages(q) /\ q[i].alias # "" /\ x = Folded[q[i].alias]
      BY <1>3, <3>1
    <3> QED
      BY <3>2 DEF AliasesOf
  <2>3. t.alias # "" => Folded[t.alias] \in AliasesOf(q)
    BY <1>1 DEF AliasesOf
  <2> QED
    BY <2>1, <2>2, <2>3
<1>5. ASSUME NEW b \in BaseImages
      PROVE  Cardinality(OnBase(q, b)) = Cardinality(OnBase(instrs, b)) + IF t.base = ociLock[b].local THEN 1 ELSE 0
  <2>1. OnBase(instrs, b) \subseteq Stages(instrs) /\ k \notin OnBase(instrs, b)
    BY <1>1 DEF OnBase
  <2>2. IsFiniteSet(OnBase(instrs, b))
    BY <1>1, <2>1, FS_Subset
  <2>3. Cardinality(OnBase(instrs, b)) \in Nat
    BY <2>2, FS_CardinalityType
  <2>4. CASE t.base = ociLock[b].local
    <3>1. OnBase(q, b) = OnBase(instrs, b) \cup {k}
      BY <1>1, <2>4 DEF OnBase
    <3> QED
      BY <2>1, <2>2, <2>4, <3>1, FS_AddElement
  <2>5. CASE t.base # ociLock[b].local
    <3>1. OnBase(q, b) = OnBase(instrs, b)
      BY <1>1, <2>5 DEF OnBase
    <3> QED
      BY <2>3, <2>5, <3>1
  <2> QED
    BY <2>4, <2>5
<1> QED
  BY <1>2, <1>4, <1>5 DEF q

\* What one instruction makes of a sound scan: it is refused, or it is written
\* and the scan is sound.
Written(s, v) ==
    /\ v.verdict = "reading" /\ v.joining = s.joining
    /\ Len(v.rewritten) = Len(s.rewritten) + 1
    /\ FileSound(v.rewritten) /\ CountsSound(v)
OneInstruction(s, v) == v \in ScanTypes /\ (v.verdict = "refused" \/ Written(s, v))

LEMMA RefusedIsTyped ==
  ASSUME NEW s \in ScanTypes PROVE Reject(s) \in ScanTypes /\ Reject(s).verdict = "refused"
  BY DEF ScanTypes, Reject

LEMMA JoinedIsTyped == ASSUME NEW first \in Words, NEW t \in Words PROVE Join(first, t) \in Words
<1> DEFINE w == Join(first, t)
           odd == first.odd \/ t.odd \/ (first.keyword = "FROM" /\ t # [NoWords EXCEPT !.alias = t.alias])
                    \/ (first.alias # "" /\ t.alias # "")
<1>1. w = [first EXCEPT !.alias = IF first.alias = "" THEN t.alias ELSE first.alias,
                        !.sources = first.sources \cup t.sources, !.odd = odd]
  BY DEF Join
<1>2. odd \in BOOLEAN
  BY DEF Words
<1> HIDE DEF odd
<1> QED
  BY <1>1, <1>2, ZenonT(40) DEF Words

\* A source the scan allows is a stage of the file written so far.
LEMMA AllowedReads ==
  ASSUME NEW s \in ScanTypes, CountsSound(s), NEW t \in Words, SourcesAllowed(s, t)
  PROVE  \A src \in Reads(t) :
            IF src.name = "" THEN src.index < Cardinality(Stages(s.rewritten))
            ELSE src.name \in DOMAIN Folded /\ Folded[src.name] \in AliasesOf(s.rewritten)
<1> SUFFICES ASSUME NEW src \in Reads(t)
             PROVE  IF src.name = "" THEN src.index < Cardinality(Stages(s.rewritten))
                    ELSE src.name \in DOMAIN Folded /\ Folded[src.name] \in AliasesOf(s.rewritten)
  OBVIOUS
<1>1. src \in t.sources
  BY DEF Reads
<1>2. src \in StageSources
  BY <1>1 DEF Words
<1>3. src.name \in DOMAIN Folded \cup {""}
  BY <1>2 DEF StageSources
<1>4. StageSourceAllowed(s, src)
  BY DEF SourcesAllowed
<1> QED
  BY <1>3, <1>4 DEF StageSourceAllowed, CountsSound

LEMMA KeepsOne ==
  ASSUME NEW s \in ScanTypes, s.verdict = "reading", FileSound(s.rewritten), CountsSound(s),
         NEW t \in Words, t.keyword \notin {"", "FROM"}, SourcesAllowed(s, t)
  PROVE  OneInstruction(s, Keeps(s, t))
<1> DEFINE v == Keeps(s, t)
           instrs == s.rewritten
<1>1. instrs \in Seq(Words)
  BY DEF ScanTypes
<1>2. /\ v.rewritten = Append(instrs, t) /\ v.stages = s.stages /\ v.aliases = s.aliases
      /\ v.observed = s.observed /\ v.verdict = "reading" /\ v.joining = s.joining /\ v.part = s.part
  BY DEF Keeps, ScanTypes
<1>3. Append(instrs, t) \in Seq(Words) /\ Len(Append(instrs, t)) = Len(instrs) + 1
  BY <1>1, OneMore
<1>6. v \in ScanTypes
  BY <1>3 DEF Keeps, ScanTypes
<1>4. FileSound(v.rewritten)
  <2>1. Complete(t)
    BY DEF Complete, SourcesAllowed
  <2> QED
    BY <1>1, <1>2, <2>1, AllowedReads, FileGrows
<1>5. CountsSound(v)
  BY <1>1, <1>2, NoStageAdded DEF CountsSound
<1> QED
  BY <1>2, <1>3, <1>4, <1>5, <1>6 DEF OneInstruction, Written

\* No base image of a stage goes by the name of a stage.
LEMMA LocalIsNoStage ==
  ASSUME ociLock \in OciLocks, NEW instrs \in Seq(Words), NEW b \in BaseImages,
         ociLock[b].local \in DOMAIN Folded
  PROVE  Folded[ociLock[b].local] \notin AliasesOf(instrs)
<1> SUFFICES ASSUME Folded[ociLock[b].local] \in AliasesOf(instrs) PROVE FALSE
  OBVIOUS
<1>1. PICK i \in Stages(instrs) : instrs[i].alias # "" /\ Folded[ociLock[b].local] = Folded[instrs[i].alias]
  BY DEF AliasesOf
<1>2. instrs[i] \in Words
  BY DEF Stages
<1>3. instrs[i].alias \in StageNames
  BY <1>1, <1>2 DEF Words
<1> QED
  BY <1>1, <1>3, DockerfileAssumption

LEMMA FromOne ==
  ASSUME OwnLocalNames, ociLock \in OciLocks, ~LockAmbiguous,
         NEW s \in ScanTypes, s.verdict = "reading", FileSound(s.rewritten), CountsSound(s),
         NEW t \in Words, t.keyword = "FROM"
  PROVE  OneInstruction(s, From(s, t))
<1> DEFINE controlled == t.base \in ControlledRefs
           written == IF controlled THEN [t EXCEPT !.base = ociLock[BaseOf(t.base)].local] ELSE t
           counted == [b \in BaseImages |-> s.observed[b] + IF controlled /\ b = BaseOf(t.base) THEN 1 ELSE 0]
           named == IF t.alias = "" THEN s.aliases ELSE s.aliases \cup {Folded[t.alias]}
           instrs == s.rewritten
           v == [Keeps(s, written) EXCEPT !.observed = counted, !.aliases = named, !.stages = s.stages + 1]
<1>1. CASE t.odd \/ ~(controlled \/ EarlierStage(s, t))
  BY <1>1, RefusedIsTyped DEF From, OneInstruction
<1>2. CASE ~t.odd /\ (controlled \/ EarlierStage(s, t))
  <2>1. From(s, t) = v
    BY <1>2 DEF From, Keeps, ScanTypes
  <2>2. instrs \in Seq(Words) /\ s.observed \in [BaseImages -> Nat] /\ s.stages \in Nat
        /\ s.aliases \subseteq {Folded[n] : n \in StageNames}
    BY DEF ScanTypes
  <2>3. controlled => BaseOf(t.base) \in BaseImages /\ ociLock[BaseOf(t.base)].ref = t.base
    BY DEF ControlledRefs, BaseOf
  <2>4. \A b \in BaseImages : ociLock[b].local \in STRING
    BY DockerfileAssumption
  <2>5. written \in Words /\ written.keyword = "FROM" /\ written.alias = t.alias /\ written.sources = t.sources
        /\ (controlled => written.base = ociLock[BaseOf(t.base)].local) /\ (~controlled => written.base = t.base)
    BY <2>3, <2>4 DEF Words
  <2>6. counted \in [BaseImages -> Nat] /\ named \in SUBSET {Folded[n] : n \in StageNames}
    <3>1. counted \in [BaseImages -> Nat]
      BY <2>2
    <3>2. t.alias # "" => t.alias \in StageNames
      BY DEF Words
    <3>3. named \in SUBSET {Folded[n] : n \in StageNames}
      BY <2>2, <3>2
    <3> QED
      BY <3>1, <3>3
  <2> HIDE DEF written, counted, named
  <2>7. /\ v.rewritten = Append(instrs, written) /\ v.stages = s.stages + 1 /\ v.aliases = named
        /\ v.observed = counted /\ v.verdict = "reading" /\ v.joining = s.joining
    BY DEF Keeps, ScanTypes
  <2>8. v \in ScanTypes
    <3>1. Append(instrs, written) \in Seq(Words) /\ s.stages + 1 \in Nat
      BY <2>2, <2>5, OneMore
    <3> QED
      BY <2>6, <3>1 DEF Keeps, ScanTypes
  <2>9. ~controlled => t.base \in DOMAIN Folded /\ Folded[t.base] \in AliasesOf(instrs)
    BY <1>2 DEF EarlierStage, CountsSound
  <2>10. FileSound(Append(instrs, written))
    <3>1. Complete(written) /\ Reads(written) = {}
      BY <2>5 DEF Complete, Reads, Words, StageSources
    <3>2. (\E b \in BaseImages : written.base = ociLock[b].local)
            \/ (written.base \in DOMAIN Folded /\ Folded[written.base] \in AliasesOf(instrs))
      BY <2>3, <2>5, <2>9
    <3> QED
      BY <2>2, <2>5, <3>1, <3>2, FileGrows
  <2>11. \A b \in BaseImages : counted[b] = s.observed[b] + IF written.base = ociLock[b].local THEN 1 ELSE 0
    <3> SUFFICES ASSUME NEW b \in BaseImages
                 PROVE  (controlled /\ b = BaseOf(t.base)) <=> written.base = ociLock[b].local
      BY DEF counted
    <3>1. CASE controlled
      <4>1. ASSUME ociLock[BaseOf(t.base)].local = ociLock[b].local PROVE b = BaseOf(t.base)
        <5>1. ociLock[BaseOf(t.base)].ref = ociLock[b].ref
          BY <2>3, <3>1, <4>1 DEF OwnLocalNames
        <5> QED
          BY <2>3, <3>1, <5>1 DEF LockAmbiguous
      <4> QED
        BY <2>5, <3>1, <4>1
    <3>2. CASE ~controlled
      <4>1. t.base # ociLock[b].local
        BY <2>2, <2>9, <3>2, LocalIsNoStage
      <4> QED
        BY <2>5, <3>2, <4>1
    <3> QED
      BY <3>1, <3>2
  <2>12. CountsSound(v)
    <3>1. /\ Cardinality(Stages(Append(instrs, written))) = Cardinality(Stages(instrs)) + 1
          /\ AliasesOf(Append(instrs, written)) =
               IF t.alias = "" THEN AliasesOf(instrs) ELSE AliasesOf(instrs) \cup {Folded[t.alias]}
          /\ \A b \in BaseImages : Cardinality(OnBase(Append(instrs, written), b)) =
                  Cardinality(OnBase(instrs, b)) + IF written.base = ociLock[b].local THEN 1 ELSE 0
      BY <2>2, <2>5, StageAdded
    <3>2. /\ s.stages = Cardinality(Stages(instrs)) /\ s.aliases = AliasesOf(instrs)
          /\ \A b \in BaseImages : s.observed[b] = Cardinality(OnBase(instrs, b))
      BY DEF CountsSound
    <3>3. v.aliases = AliasesOf(v.rewritten)
      BY <2>7, <3>1, <3>2 DEF named
    <3>4. \A b \in BaseImages : v.observed[b] = Cardinality(OnBase(v.rewritten, b))
      BY <2>7, <2>11, <3>1, <3>2
    <3>5. v.stages = Cardinality(Stages(v.rewritten))
      BY <2>7, <3>1, <3>2
    <3> HIDE DEF v
    <3> QED
      BY <3>3, <3>4, <3>5 DEF CountsSound
  <2>13. Len(v.rewritten) = Len(instrs) + 1
    BY <2>2, <2>7
  <2> HIDE DEF v
  <2> QED
    BY <2>1, <2>7, <2>8, <2>10, <2>12, <2>13 DEF OneInstruction, Written
<1> QED
  BY <1>1, <1>2 DEF Words

LEMMA InstructOne ==
  ASSUME OwnLocalNames, ociLock \in OciLocks, ~LockAmbiguous,
         NEW s \in ScanTypes, s.verdict = "reading", FileSound(s.rewritten), CountsSound(s), NEW t \in Words
  PROVE  OneInstruction(s, Instruct(s, t))
  BY RefusedIsTyped, KeepsOne, FromOne DEF Instruct, OneInstruction

LEMMA LineAdded ==
  ASSUME NEW lines \in Seq(DockerLines), NEW line \in DockerLines
  PROVE  LET q == Append(lines, line)
             k == Len(lines) + 1
         IN /\ q \in Seq(DockerLines) /\ Len(q) = k
            /\ TextLines(q) = TextLines(lines) \cup (IF line.kind = "text" THEN {k} ELSE {})
            /\ EndLines(q) = EndLines(lines) \cup (IF line.kind = "text" /\ ~line.more THEN {k} ELSE {})
            /\ k \notin EndLines(lines) /\ TextLines(lines) \subseteq 1..Len(lines)
            /\ q[k] = line /\ \A i \in TextLines(lines) : q[i] = lines[i]
            /\ IsFiniteSet(EndLines(lines)) /\ Cardinality(EndLines(lines)) \in Nat
<1> DEFINE q == Append(lines, line)
           k == Len(lines) + 1
<1>1. q \in Seq(DockerLines) /\ Len(q) = k /\ q[k] = line /\ k \in Nat /\ Len(lines) \in Nat
      /\ (\A i \in 1..Len(lines) : q[i] = lines[i] /\ i < k) /\ DOMAIN q = 1..k /\ DOMAIN lines = 1..Len(lines)
  OBVIOUS
<1>2. DOMAIN q = DOMAIN lines \cup {k} /\ k \notin DOMAIN lines /\ \A i \in DOMAIN lines : q[i] = lines[i]
  BY <1>1
<1>3. TextLines(lines) \subseteq 1..Len(lines) /\ EndLines(lines) \subseteq 1..Len(lines)
  BY <1>1 DEF TextLines, EndLines
<1> HIDE DEF q, k
<1>4. ASSUME NEW i PROVE i \in TextLines(q) <=> (i \in TextLines(lines) \/ (i = k /\ line.kind = "text"))
  BY <1>1, <1>2 DEF TextLines
<1>5. TextLines(q) = TextLines(lines) \cup (IF line.kind = "text" THEN {k} ELSE {})
  BY <1>4
<1>6. \A i \in TextLines(lines) : q[i] = lines[i]
  BY <1>1, <1>3
<1>7. ASSUME NEW i PROVE i \in EndLines(q) <=> (i \in EndLines(lines) \/ (i = k /\ line.kind = "text" /\ ~line.more))
  BY <1>1, <1>4, <1>6, <1>2 DEF EndLines, TextLines
<1>8. EndLines(q) = EndLines(lines) \cup (IF line.kind = "text" /\ ~line.more THEN {k} ELSE {})
  BY <1>7
<1>9. k \notin EndLines(lines)
  BY <1>2 DEF EndLines, TextLines
<1>10. IsFiniteSet(EndLines(lines))
  <2>1. IsFiniteSet(1..Len(lines))
    BY <1>1, FS_Interval
  <2> QED
    BY <1>3, <2>1, FS_Subset
<1>11. Cardinality(EndLines(lines)) \in Nat
  BY <1>10, FS_CardinalityType
<1> QED
  BY <1>1, <1>3, <1>5, <1>6, <1>8, <1>9, <1>10, <1>11 DEF q, k

\* The bookkeeping of lines, for the three ways a line is taken.
LEMMA LinesGrow ==
  ASSUME NEW lines \in Seq(DockerLines), NEW line \in DockerLines, NEW s \in ScanTypes, NEW v \in ScanTypes,
         LinesSound(s, lines),
         \/ line.kind # "text" /\ ~s.joining /\ v = s
         \/ line.kind = "text" /\ line.more /\ v.joining /\ v.rewritten = s.rewritten
         \/ line.kind = "text" /\ ~line.more /\ ~v.joining /\ Len(v.rewritten) = Len(s.rewritten) + 1
  PROVE  LinesSound(v, Append(lines, line))
<1> DEFINE q == Append(lines, line)
           k == Len(lines) + 1
<1>1. /\ q \in Seq(DockerLines) /\ Len(q) = k /\ Len(lines) \in Nat
      /\ TextLines(q) = TextLines(lines) \cup (IF line.kind = "text" THEN {k} ELSE {})
      /\ EndLines(q) = EndLines(lines) \cup (IF line.kind = "text" /\ ~line.more THEN {k} ELSE {})
      /\ k \notin EndLines(lines) /\ TextLines(lines) \subseteq 1..Len(lines)
      /\ q[k] = line /\ \A i \in TextLines(lines) : q[i] = lines[i]
      /\ IsFiniteSet(EndLines(lines)) /\ Cardinality(EndLines(lines)) \in Nat
  BY LineAdded
<1> HIDE DEF q
<1>2. Len(v.rewritten) = Cardinality(EndLines(q))
  <2>1. Len(s.rewritten) = Cardinality(EndLines(lines))
    BY DEF LinesSound
  <2>2. CASE line.kind = "text" /\ ~line.more
    <3>1. Cardinality(EndLines(q)) = Cardinality(EndLines(lines)) + 1
      <4>1. EndLines(q) = EndLines(lines) \cup {k} /\ k \notin EndLines(lines) /\ IsFiniteSet(EndLines(lines))
        BY <1>1, <2>2
      <4> HIDE DEF k
      <4> QED
        BY <4>1, FS_AddElement
    <3> QED
      BY <2>1, <2>2, <3>1
  <2>3. CASE ~(line.kind = "text" /\ ~line.more)
    <3>1. EndLines(q) = EndLines(lines)
      BY <1>1, <2>3
    <3> QED
      BY <2>1, <2>3, <3>1
  <2> QED
    BY <2>2, <2>3
<1>3. ASSUME NEW i \in TextLines(q), q[i].more
      PROVE  i + 1 \in TextLines(q) \/ (i = Len(q) /\ v.joining)
  <2>1. CASE i = k
    BY <1>1, <1>3, <2>1
  <2>2. CASE i # k
    <3>1. i \in TextLines(lines) /\ lines[i].more
      BY <1>1, <1>3, <2>2
    <3>2. i + 1 \in TextLines(lines) \/ (i = Len(lines) /\ s.joining)
      BY <3>1 DEF LinesSound
    <3>3. CASE i = Len(lines) /\ s.joining
      <4>1. line.kind = "text"
        BY <3>3
      <4> QED
        BY <1>1, <3>3, <4>1
    <3> QED
      BY <1>1, <3>2, <3>3
  <2> QED
    BY <2>1, <2>2
<1>4. LinesSound(v, q)
  BY <1>2, <1>3 DEF LinesSound
<1> QED
  BY <1>4 DEF q

LEMMA DockerfileStartsSound == DockerfileInit => DockerfileInv
<1> SUFFICES ASSUME DockerfileInit PROVE DockerfileInv
  OBVIOUS
<1>1. dockerfile \in Seq(DockerLines) /\ dockerfile = << >> /\ ociLock \in OciLocks
  BY DEF DockerfileInit
<1>2. scan \in ScanTypes
  BY DEF DockerfileInit, ScanTypes
<1>3. /\ scan.joining = FALSE /\ scan.aliases = {} /\ scan.stages = 0 /\ scan.rewritten = << >>
      /\ scan.observed = [b \in BaseImages |-> 0] /\ scan.verdict = "reading"
  BY DEF DockerfileInit
<1>4. DOMAIN << >> = {} /\ Len(<< >>) = 0 /\ Cardinality({}) = 0
  BY FS_EmptySet
<1>5. Stages(<< >>) = {} /\ TextLines(<< >>) = {}
  BY <1>4 DEF Stages, TextLines
<1>6. EndLines(<< >>) = {} /\ AliasesOf(<< >>) = {} /\ \A b \in BaseImages : OnBase(<< >>, b) = {}
  BY <1>5 DEF EndLines, AliasesOf, OnBase
<1>7. FileSound(scan.rewritten)
  BY <1>3, <1>4, <1>5 DEF FileSound
<1>8. CountsSound(scan)
  BY <1>3, <1>4, <1>5, <1>6 DEF CountsSound
<1>9. LinesSound(scan, dockerfile)
  BY <1>1, <1>3, <1>4, <1>5, <1>6 DEF LinesSound
<1> QED
  BY <1>1, <1>2, <1>3, <1>7, <1>8, <1>9 DEF DockerfileInv

LEMMA ReadLineSound == ASSUME OwnLocalNames, DockerfileInv, ReadLine PROVE DockerfileInv'
<1>1. PICK line \in DockerLines :
        /\ dockerfile' = Append(dockerfile, line)
        /\ scan' = IF LockAmbiguous THEN Reject(scan) ELSE Physical(scan, line)
  BY DEF ReadLine
<1>2. /\ scan.verdict = "reading" /\ ociLock' = ociLock /\ ociLock \in OciLocks /\ scan \in ScanTypes
      /\ dockerfile \in Seq(DockerLines) /\ dockerfile' \in Seq(DockerLines)
      /\ FileSound(scan.rewritten) /\ CountsSound(scan) /\ LinesSound(scan, dockerfile)
      /\ scan.joining => scan.part \in Words
  BY <1>1, LineAdded DEF ReadLine, DockerfileInv
<1>3. line.kind \in {"blank", "comment", "directive", "text"} /\ line.text \in Words /\ line.more \in BOOLEAN
  BY DockerfileAssumption
<1>4. CASE scan' = Reject(scan)
  BY <1>2, <1>4, RefusedIsTyped DEF DockerfileInv
<1>5. ASSUME scan' \in ScanTypes, scan'.verdict = "reading", scan'.joining => scan'.part \in Words,
             FileSound(scan'.rewritten), CountsSound(scan'), LinesSound(scan', Append(dockerfile, line))
      PROVE  DockerfileInv'
  <2>1. FileSound(scan.rewritten)'
    BY <1>2, <1>5 DEF FileSound
  <2>2. CountsSound(scan)'
    BY <1>2, <1>5 DEF CountsSound, OnBase
  <2>3. LinesSound(scan, dockerfile)'
    BY <1>1, <1>5
  <2> QED
    BY <1>2, <1>5, <2>1, <2>2, <2>3 DEF DockerfileInv
<1>6. CASE ~LockAmbiguous /\ scan' # Reject(scan)
  <2>1. CASE line.kind \in {"blank", "comment"}
    <3>1. ~scan.joining /\ scan' = scan
      BY <1>1, <1>6, <2>1 DEF Physical
    <3>2. LinesSound(scan, Append(dockerfile, line))
      BY <1>2, <2>1, <3>1, LinesGrow
    <3> QED
      BY <1>2, <1>5, <3>1, <3>2
  <2> DEFINE whole == IF scan.joining THEN Join(scan.part, line.text) ELSE line.text
             done == [scan EXCEPT !.joining = FALSE, !.part = NoWords]
  <2>2. whole \in Words
    BY <1>2, <1>3, JoinedIsTyped
  <2>3. CASE line.kind = "text" /\ line.more
    <3>1. scan' = [scan EXCEPT !.joining = TRUE, !.part = whole]
      BY <1>1, <1>6, <2>3 DEF Physical
    <3> HIDE DEF whole
    <3>2. /\ scan' \in ScanTypes /\ scan'.verdict = "reading" /\ scan'.part \in Words /\ scan'.joining
          /\ scan'.rewritten = scan.rewritten /\ scan'.stages = scan.stages /\ scan'.aliases = scan.aliases
          /\ scan'.observed = scan.observed
      BY <1>2, <2>2, <3>1 DEF ScanTypes
    <3>3. CountsSound(scan') /\ FileSound(scan'.rewritten)
      BY <1>2, <3>2 DEF CountsSound
    <3>4. LinesSound(scan', Append(dockerfile, line))
      BY <1>2, <2>3, <3>2, LinesGrow
    <3> QED
      BY <1>5, <3>2, <3>3, <3>4
  <2>4. CASE line.kind = "text" /\ ~line.more
    <3>1. scan' = Instruct(done, whole)
      BY <1>1, <1>6, <2>4 DEF Physical
    <3>2. /\ done \in ScanTypes /\ done.verdict = "reading" /\ done.joining = FALSE
          /\ done.rewritten = scan.rewritten /\ done.stages = scan.stages /\ done.aliases = scan.aliases
          /\ done.observed = scan.observed
      BY <1>2 DEF ScanTypes
    <3> HIDE DEF whole, done
    <3>3. FileSound(done.rewritten) /\ CountsSound(done)
      BY <1>2, <3>2 DEF CountsSound
    <3>4. OneInstruction(done, scan')
      BY <1>2, <1>6, <2>2, <3>1, <3>2, <3>3, InstructOne
    <3>5. CASE scan'.verdict = "refused"
      BY <1>2, <3>4, <3>5 DEF DockerfileInv, OneInstruction
    <3>6. CASE Written(done, scan')
      <4>1. /\ scan' \in ScanTypes /\ scan'.verdict = "reading" /\ ~scan'.joining
            /\ Len(scan'.rewritten) = Len(scan.rewritten) + 1
            /\ FileSound(scan'.rewritten) /\ CountsSound(scan')
        BY <3>2, <3>4, <3>6 DEF OneInstruction, Written
      <4>2. LinesSound(scan', Append(dockerfile, line))
        BY <1>2, <2>4, <4>1, LinesGrow
      <4> QED
        BY <1>5, <4>1, <4>2
    <3> QED
      BY <3>4, <3>5, <3>6 DEF OneInstruction
  <2>5. CASE line.kind = "directive"
    BY <1>1, <1>6, <2>5 DEF Physical
  <2> QED
    BY <1>3, <2>1, <2>3, <2>4, <2>5
<1> QED
  BY <1>1, <1>4, <1>6

LEMMA EndOfFileSound == ASSUME DockerfileInv, EndOfFile PROVE DockerfileInv'
<1>1. /\ scan.verdict = "reading" /\ UNCHANGED <<dockerfile, ociLock>> /\ ociLock \in OciLocks /\ scan \in ScanTypes
      /\ FileSound(scan.rewritten) /\ CountsSound(scan) /\ LinesSound(scan, dockerfile)
      /\ dockerfile \in Seq(DockerLines)
  BY DEF EndOfFile, DockerfileInv
<1>2. CASE scan' = Reject(scan)
  BY <1>1, <1>2, RefusedIsTyped DEF DockerfileInv
<1>3. CASE /\ ~scan.joining /\ (\A b \in BaseImages : scan.observed[b] = 1)
           /\ scan' = [scan EXCEPT !.verdict = "accepted"]
  <2>1. /\ scan' \in ScanTypes /\ scan'.verdict = "accepted" /\ scan'.joining = scan.joining
        /\ scan'.rewritten = scan.rewritten /\ scan'.stages = scan.stages /\ scan'.aliases = scan.aliases
        /\ scan'.observed = scan.observed
    BY <1>1, <1>3 DEF ScanTypes
  <2>2. FileSound(scan.rewritten)' /\ CountsSound(scan)' /\ LinesSound(scan, dockerfile)'
    BY <1>1, <2>1 DEF FileSound, CountsSound, LinesSound, OnBase
  <2> QED
    BY <1>1, <1>3, <2>1, <2>2 DEF DockerfileInv
<1> QED
  BY <1>2, <1>3 DEF EndOfFile

LEMMA DockerfileStep ==
  ASSUME OwnLocalNames PROVE DockerfileInv /\ [DockerfileNext]_dockerfileVars => DockerfileInv'
<1>1. ASSUME DockerfileInv, UNCHANGED dockerfileVars PROVE DockerfileInv'
  BY <1>1 DEF dockerfileVars, DockerfileInv, FileSound, CountsSound, LinesSound, OnBase
<1> QED
  BY <1>1, ReadLineSound, EndOfFileSound DEF DockerfileNext

LEMMA AcceptedDockerfiles == DockerfileInv => DockerfileIsControlled
<1> SUFFICES ASSUME DockerfileInv, scan.verdict = "accepted" PROVE DockerfileIsControlled
  BY DEF DockerfileIsControlled
<1> DEFINE instrs == scan.rewritten
           texts == {i \in DOMAIN dockerfile : dockerfile[i].kind = "text"}
<1>1. /\ FileSound(instrs) /\ CountsSound(scan) /\ LinesSound(scan, dockerfile)
      /\ ~scan.joining /\ instrs \in Seq(Words) /\ ociLock \in OciLocks
      /\ \A b \in BaseImages : scan.observed[b] = 1
  BY DEF DockerfileInv, ScanTypes
<1> HIDE DEF instrs
<1>2. ASSUME NEW i \in Stages(instrs), NEW b \in BaseImages, instrs[i].base = ociLock[b].local
      PROVE  i \in OnImages(instrs)
  <2> SUFFICES ASSUME EarlierStages(instrs, i, ociLock[b].local) # {} PROVE FALSE
    BY <1>2 DEF OnImages
  <2>1. PICK j \in Stages(instrs) : /\ instrs[j].alias # "" /\ ociLock[b].local \in DOMAIN Folded
                                  /\ Folded[instrs[j].alias] = Folded[ociLock[b].local]
    BY DEF EarlierStages
  <2>2. Folded[ociLock[b].local] \in AliasesOf(instrs)
    BY <2>1 DEF AliasesOf
  <2> QED
    BY <1>1, <2>1, <2>2, LocalIsNoStage
<1>3. \A b \in BaseImages : Cardinality({i \in OnImages(instrs) : instrs[i].base = ociLock[b].local}) = 1
  <2> SUFFICES ASSUME NEW b \in BaseImages
               PROVE  Cardinality({i \in OnImages(instrs) : instrs[i].base = ociLock[b].local}) = 1
    OBVIOUS
  <2>1. {i \in OnImages(instrs) : instrs[i].base = ociLock[b].local} = OnBase(instrs, b)
    BY <1>2 DEF OnImages, OnBase
  <2>2. Cardinality(OnBase(instrs, b)) = 1
    BY <1>1 DEF CountsSound, instrs
  <2> QED
    BY <2>1, <2>2
<1>4. \A i \in OnImages(instrs) : \E b \in BaseImages : instrs[i].base = ociLock[b].local
  BY <1>1 DEF OnImages, FileSound
<1>5. \A i \in DOMAIN instrs :
         /\ instrs[i].keyword \notin {"", "ADD", "ONBUILD"}
         /\ \A src \in Reads(instrs[i]) : ReadsStage(instrs, i, src)
  BY <1>1 DEF FileSound, Complete
<1>6. texts = TextLines(dockerfile) /\ {i \in texts : ~dockerfile[i].more} = EndLines(dockerfile)
  BY DEF TextLines, EndLines
<1> HIDE DEF texts
<1>7. /\ Len(instrs) = Cardinality({i \in texts : ~dockerfile[i].more})
      /\ \A i \in texts : dockerfile[i].more => i + 1 \in texts
  BY <1>1, <1>6 DEF LinesSound, instrs
<1> QED
  BY <1>3, <1>4, <1>5, <1>7 DEF DockerfileIsControlled, instrs, texts

\* Whatever tags others move, whichever copies arrive late, whichever checkouts share
\* Docker's tags and the reuse files, and whatever lines a Dockerfile is made of: the
\* provenance lists only what the registry stores, a reused proof was made from the
\* inputs of the run that reuses it and ran the locked image, and an accepted Dockerfile
\* builds every locked base once and nothing else from outside, for every seed, batch
\* plan, number of checkouts and length of file (publish, record, validate and
\* controlled_oci_dockerfile).
THEOREM OciImagesAreControlled ==
  ASSUME OwnLocalNames
  PROVE  PublisherSpec /\ MirrorSpec /\ DockerfileSpec => []ImagesAreControlled
<1>1. PublisherSpec => []ProvenanceIsStored
  <2>1. PublisherInv => ProvenanceIsStored
    BY DEF PublisherInv
  <2> QED
    BY <2>1, PublisherStartsSound, PublisherStep, PTL DEF PublisherSpec
<1>2. MirrorSpec => []ReusedProofIsBound
  BY MirrorStartsSound, MirrorStep, AcceptedProofs, PTL DEF MirrorSpec
<1>3. DockerfileSpec => []DockerfileIsControlled
  BY DockerfileStartsSound, DockerfileStep, AcceptedDockerfiles, PTL DEF DockerfileSpec
<1>4. ProvenanceIsStored /\ ReusedProofIsBound /\ DockerfileIsControlled => ImagesAreControlled
  BY DEF ImagesAreControlled
<1> QED
  BY <1>1, <1>2, <1>3, <1>4, PTL

(***************************************************************************)
(* Hybrid ranking.  First the order of the semantic candidates and the     *)
(* lists that are cut off, then the invariant: a vector is of another      *)
(* model than the one recorded only if the provider changed, and the       *)
(* second identity finds the recorded one only if it changed back.         *)
(***************************************************************************)

Vectors(docs) ==
    [docs -> [generation : [model : Models, revision : SUBSET Documents], made : Models, cosine : CosineRange]]

LEMMA DocumentsAre == Documents \subseteq Nat /\ IsFiniteSet(Documents)
  BY RankingAssumption

LEMMA NumberOf == ASSUME NEW D, D \subseteq Documents PROVE \A d \in D : d \in Nat
<1>1. Documents \subseteq Nat
  BY DocumentsAre
<1> QED
  BY <1>1

LEMMA InBounds == ASSUME NEW x \in CosineRange PROVE x \in Int /\ -1000 <= x /\ x <= 1000
  BY DEF CosineRange

LEMMA CosineIsNumber ==
  ASSUME NEW docs, NEW v \in Vectors(docs), NEW d \in docs
  PROVE  v[d].cosine \in Int /\ -1000 <= v[d].cosine /\ v[d].cosine <= 1000
<1>1. v[d].cosine \in CosineRange
  BY DEF Vectors
<1> QED
  BY <1>1, InBounds

\* The nearest of some candidates, and of equally near ones the first by id.
LEMMA NearestExists ==
  ASSUME NEW S, NEW D, S \subseteq D, D \subseteq Documents, S # {}, NEW v \in Vectors(D)
  PROVE  \E d \in S : \A e \in S : e # d => <<d, e>> \in Nearer(D, v) /\ <<e, d>> \notin Nearer(D, v)
<1> DEFINE Far(d) == 1000 - v[d].cosine
           F == {Far(d) : d \in S}
<1>1. \A d \in S : v[d].cosine \in Int /\ Far(d) \in Nat
  <2> SUFFICES ASSUME NEW d \in S PROVE v[d].cosine \in Int /\ Far(d) \in Nat
    OBVIOUS
  <2>1. v[d].cosine \in Int /\ -1000 <= v[d].cosine /\ v[d].cosine <= 1000
    BY CosineIsNumber
  <2> QED
    BY <2>1
<1>2. F \subseteq Nat /\ F # {}
  BY <1>1
<1>3. PICK x \in F : \A y \in F : x <= y
  BY <1>2, Least, Zenon
<1>4. PICK c \in S : x = Far(c)
  OBVIOUS
<1> DEFINE T == {d \in S : Far(d) = Far(c)}
<1>0. \A d \in S : d \in Nat
  BY NumberOf
<1>5. T \subseteq Nat /\ c \in T
  BY <1>0
<1>6. PICK d \in T : \A e \in T : d <= e
  <2>1. T # {}
    BY <1>5
  <2> HIDE DEF T
  <2> QED
    BY <1>5, <2>1, Least
<1>7. d \in S /\ d \in Nat /\ v[d].cosine = v[c].cosine
  BY <1>1, <1>5
<1>8. ASSUME NEW e \in S, e # d PROVE <<d, e>> \in Nearer(D, v) /\ <<e, d>> \notin Nearer(D, v)
  <2>1. Far(c) <= Far(e) /\ e \in Nat
    <3>1. Far(e) \in F
      OBVIOUS
    <3>2. x <= Far(e)
      BY <1>3, <3>1
    <3> QED
      BY <1>0, <1>4, <3>2
  <2>2. v[e].cosine <= v[d].cosine
    BY <1>1, <1>7, <2>1
  <2>3. CASE v[e].cosine < v[d].cosine
    BY <1>1, <1>7, <2>3 DEF Nearer
  <2>4. CASE v[e].cosine = v[d].cosine
    <3>1. e \in T
      BY <1>7, <2>4
    <3>2. d <= e
      BY <1>6, <3>1
    <3> QED
      BY <1>1, <1>7, <1>8, <2>1, <2>4, <3>2 DEF Nearer
  <2> QED
    BY <1>1, <1>7, <2>2, <2>3, <2>4
<1> QED
  BY <1>7, <1>8

\* A place of the sorted list that some candidate belongs to holds one.
LEMMA PlaceHolds ==
  ASSUME NEW S, NEW D, NEW v, NEW i \in 1..Cardinality(S), NEW d \in S,
         Cardinality({e \in S : <<e, d>> \in Nearer(D, v)}) = i - 1
  PROVE  LET o == InOrder(S, Nearer(D, v))
         IN o[i] \in S /\ Cardinality({e \in S : <<e, o[i]>> \in Nearer(D, v)}) = i - 1
  BY DEF InOrder

LEMMA OrderLength ==
  ASSUME NEW S, IsFiniteSet(S), NEW D, NEW v
  PROVE  LET o == InOrder(S, Nearer(D, v))
         IN DOMAIN o = 1..Cardinality(S) /\ Len(o) = Cardinality(S) /\ (o = << >> <=> S = {})
<1> DEFINE o == InOrder(S, Nearer(D, v))
           Pick(i) == CHOOSE d \in S : Cardinality({e \in S : <<e, d>> \in Nearer(D, v)}) = i - 1
<1>1. Cardinality(S) \in Nat /\ (Cardinality(S) = 0 <=> S = {})
  BY FS_CardinalityType, FS_EmptySet
<1>2. o = [i \in 1..Cardinality(S) |-> Pick(i)]
  BY DEF InOrder
<1> HIDE DEF o, Pick
<1>3. DOMAIN o = 1..Cardinality(S) /\ Len(o) = Cardinality(S)
  BY <1>1, <1>2
<1>4. o = << >> <=> Cardinality(S) = 0
  BY <1>1, <1>2, <1>3
<1> QED
  BY <1>1, <1>3, <1>4 DEF o

\* The first of the sorted list is nearest, the second nearest but for the first.
LEMMA FirstAndSecond ==
  ASSUME NEW S, NEW D, S \subseteq D, D \subseteq Documents, S # {}, NEW v \in Vectors(D)
  PROVE  LET o == InOrder(S, Nearer(D, v))
         IN /\ o[1] \in S /\ Len(o) = Cardinality(S) /\ Len(o) >= 1 /\ o # << >>
            /\ Len(o) = 1 => S = {o[1]}
            /\ Len(o) > 1 => /\ o[2] \in S
                             /\ \A e \in S \ {o[1]} : v[e].cosine <= v[o[2]].cosine
<1> DEFINE o == InOrder(S, Nearer(D, v))
           Ahead(d) == {e \in S : <<e, d>> \in Nearer(D, v)}
<1>1. IsFiniteSet(S) /\ \A d \in S : IsFiniteSet(Ahead(d)) /\ Cardinality(Ahead(d)) \in Nat
  <2>1. IsFiniteSet(S)
    BY DocumentsAre, FS_Subset
  <2>2. ASSUME NEW d \in S PROVE IsFiniteSet(Ahead(d))
    BY <2>1, FS_Subset
  <2> QED
    BY <2>1, <2>2, FS_CardinalityType
<1>2. Cardinality(S) \in Nat /\ Cardinality(S) >= 1 /\ Len(o) = Cardinality(S) /\ o # << >>
  BY <1>1, FS_CardinalityType, FS_EmptySet, OrderLength
<1>0. \A d \in S : d \in Nat /\ v[d].cosine \in Int
  BY NumberOf, CosineIsNumber
<1>3. \A d, e \in S : d # e => <<d, e>> \in Nearer(D, v) \/ <<e, d>> \in Nearer(D, v)
  BY <1>0 DEF Nearer
<1>4. \A d \in S : <<d, d>> \notin Nearer(D, v)
  BY <1>0 DEF Nearer
<1>5. \A d, e \in S : <<d, e>> \in Nearer(D, v) => v[d].cosine >= v[e].cosine
  BY <1>0 DEF Nearer
<1> HIDE DEF o
<1>6. o[1] \in S /\ Ahead(o[1]) = {}
  <2>1. PICK d \in S : \A e \in S : e # d => <<d, e>> \in Nearer(D, v) /\ <<e, d>> \notin Nearer(D, v)
    BY NearestExists
  <2>2. Ahead(d) = {}
    BY <1>4, <2>1
  <2>3. Cardinality(Ahead(d)) = 1 - 1 /\ 1 \in 1..Cardinality(S)
    <3>1. Cardinality({}) = 0
      BY FS_EmptySet
    <3> HIDE DEF Ahead
    <3> QED
      BY <1>2, <2>2, <3>1
  <2>4. o[1] \in S /\ Cardinality(Ahead(o[1])) = 1 - 1
    BY <2>3, PlaceHolds DEF o
  <2> QED
    BY <1>1, <2>4, FS_EmptySet
<1>7. Len(o) = 1 => S = {o[1]}
  <2> SUFFICES ASSUME Len(o) = 1 PROVE S = {o[1]}
    OBVIOUS
  <2>1. PICK x : S = {x}
    BY <1>1, <1>2, FS_Singleton
  <2> QED
    BY <1>6, <2>1
<1>8. ASSUME Len(o) > 1
      PROVE  o[2] \in S /\ \A e \in S \ {o[1]} : v[e].cosine <= v[o[2]].cosine
  <2>1. S \ {o[1]} # {}
    <3> SUFFICES ASSUME S = {o[1]} PROVE FALSE
      BY <1>6
    <3>1. Cardinality(S) = 1
      BY FS_Singleton
    <3> QED
      BY <1>2, <1>8, <3>1
  <2> DEFINE Rest == S \ {o[1]}
  <2>2. PICK d \in Rest : \A e \in Rest : e # d => <<d, e>> \in Nearer(D, v) /\ <<e, d>> \notin Nearer(D, v)
    <3>1. Rest # {} /\ Rest \subseteq D
      BY <2>1
    <3> HIDE DEF Rest
    <3> QED
      BY <3>1, NearestExists
  <2>3. <<o[1], d>> \in Nearer(D, v)
    BY <1>3, <1>6
  <2>4. Ahead(d) = {o[1]}
    BY <1>4, <1>6, <2>2, <2>3
  <2>5. Cardinality(Ahead(d)) = 2 - 1 /\ 2 \in 1..Cardinality(S)
    <3>1. Cardinality({o[1]}) = 1
      BY FS_Singleton
    <3> HIDE DEF Ahead
    <3> QED
      BY <1>2, <1>8, <2>4, <3>1
  <2>6. o[2] \in S /\ Cardinality(Ahead(o[2])) = 2 - 1
    BY <2>5, PlaceHolds DEF o
  <2>7. PICK x : Ahead(o[2]) = {x}
    <3>1. IsFiniteSet(Ahead(o[2])) /\ Cardinality(Ahead(o[2])) = 1
      BY <1>1, <2>6
    <3> HIDE DEF Ahead
    <3> QED
      BY <3>1, FS_Singleton
  <2>8. o[1] # o[2]
    BY <1>6, <2>7
  <2>9. <<o[1], o[2]>> \in Nearer(D, v)
    BY <1>3, <1>6, <2>6, <2>8
  <2>10. Ahead(o[2]) = {o[1]}
    BY <1>6, <2>7, <2>9
  <2>11. ASSUME NEW e \in S \ {o[1]} PROVE v[e].cosine <= v[o[2]].cosine
    <3>1. CASE e = o[2]
      BY <1>0, <2>6, <3>1
    <3>2. CASE e # o[2]
      <4>1. <<e, o[2]>> \notin Nearer(D, v)
        BY <2>10
      <4>2. <<o[2], e>> \in Nearer(D, v)
        BY <1>3, <2>6, <3>2, <4>1
      <4> QED
        BY <1>5, <2>6, <4>2
    <3> QED
      BY <3>1, <3>2
  <2> QED
    BY <2>6, <2>11
<1> QED
  BY <1>2, <1>6, <1>7, <1>8 DEF o

\* No id twice.
Distinct(ids) == \A i, j \in 1..Len(ids) : i # j => ids[i] # ids[j]

LEMMA SetOfList ==
  ASSUME NEW T, NEW ids \in Seq(T)
  PROVE  /\ IsFiniteSet(ToSet(ids)) /\ ToSet(ids) = {ids[i] : i \in 1..Len(ids)}
         /\ Cardinality(ToSet(ids)) = Len(ids) <=> Distinct(ids)
<1> DEFINE n == Len(ids)
           U == ToSet(ids)
<1>1. n \in Nat /\ DOMAIN ids = 1..n /\ ids \in [1..n -> T]
  OBVIOUS
<1>2. U = {ids[i] : i \in 1..n}
  BY <1>1 DEF ToSet
<1>3. IsFiniteSet(1..n) /\ Cardinality(1..n) = n
  BY <1>1, FS_Interval
<1> HIDE DEF n, U
<1>4. ids \in [1..n -> U] /\ \A y \in U : \E i \in 1..n : ids[i] = y
  BY <1>1, <1>2
<1>5. ids \in Surjection(1..n, U)
  BY <1>4 DEF Surjection
<1>6. ids \in Injection(1..n, U) <=> \A i, j \in 1..n : i # j => ids[i] # ids[j]
  BY <1>4 DEF Injection, IsInjective
<1>7. IsFiniteSet(U) /\ (Cardinality(U) = n <=> ids \in Injection(1..n, U))
  BY <1>3, <1>5, FS_Surjection
<1> QED
  BY <1>2, <1>6, <1>7 DEF n, U, Distinct

LEMMA LexicalIsDistinct ==
  ASSUME NEW T, NEW ids \in Seq(T), NEW docs, LexicalValid(docs, ids)
  PROVE  ids \in Seq(docs) /\ Distinct(ids)
<1>1. Len(ids) \in Nat /\ ids = [i \in 1..Len(ids) |-> ids[i]]
  OBVIOUS
<1>2. \A i \in 1..Len(ids) : ids[i] \in docs
  BY SetOfList DEF LexicalValid
<1>3. ids \in [1..Len(ids) -> docs]
  BY <1>1, <1>2
<1>4. ids \in Seq(docs)
  BY <1>1, <1>3
<1> QED
  BY <1>4, SetOfList DEF LexicalValid

LEMMA RankLimitIs == RankLimit \in Nat /\ RankLimit >= 1
  BY RankingAssumption

Shorter(ids) == IF Len(ids) < RankLimit THEN Len(ids) ELSE RankLimit

LEMMA CutOff ==
  ASSUME NEW T, NEW ids \in Seq(T)
  PROVE  /\ Shorter(ids) \in Nat /\ Shorter(ids) <= Len(ids) /\ Shorter(ids) <= RankLimit
         /\ Limited(ids) \in Seq(T) /\ Len(Limited(ids)) = Shorter(ids)
         /\ \A i \in 1..Shorter(ids) : Limited(ids)[i] = ids[i]
<1>1. Len(ids) \in Nat /\ \A i \in 1..Len(ids) : ids[i] \in T
  OBVIOUS
<1>2. Shorter(ids) \in Nat /\ Shorter(ids) <= Len(ids) /\ Shorter(ids) <= RankLimit
  BY <1>1, RankLimitIs DEF Shorter
<1>3. Limited(ids) = SubSeq(ids, 1, Shorter(ids))
  BY DEF Limited, Shorter
<1> QED
  BY <1>1, <1>2, <1>3

\* What a returned list is: distinct authorised candidates, a start of the lexical
\* ranking followed by at most so many others, cut off at the limit only.
ListSound(ids, lex, docs, most) ==
    LET added == ToSet(ids) \ ToSet(lex)
        kept == SubSeq(ids, 1, Len(ids) - Cardinality(added))
        left == docs \ ToSet(ids)
    IN /\ ToSet(ids) \subseteq docs \cap Synthetic /\ Cardinality(ToSet(ids)) = Len(ids)
       /\ IsPrefix(kept, lex) /\ (left \cap ToSet(lex) # {} => Len(ids) = RankLimit)
       /\ Cardinality(added) <= most

LEMMA LexicalList ==
  ASSUME NEW docs, docs \subseteq Synthetic, NEW lex \in Seq(docs), Distinct(lex), NEW most \in Nat
  PROVE  ListSound(Limited(lex), lex, docs, most) /\ ToSet(Limited(lex)) \subseteq ToSet(lex)
<1> DEFINE ids == Limited(lex)
           k == Shorter(lex)
<1>1. /\ k \in Nat /\ k <= Len(lex) /\ k <= RankLimit /\ ids \in Seq(docs) /\ Len(ids) = k /\ Len(lex) \in Nat
      /\ \A i \in 1..k : ids[i] = lex[i]
  BY CutOff
<1>2. ToSet(ids) = {ids[i] : i \in 1..Len(ids)} /\ ToSet(lex) = {lex[i] : i \in 1..Len(lex)}
  BY <1>1, SetOfList
<1>3. Distinct(ids)
  BY <1>1 DEF Distinct
<1>4. Cardinality(ToSet(ids)) = Len(ids)
  BY <1>1, <1>3, SetOfList
<1> HIDE DEF ids
<1>5. ToSet(ids) \subseteq ToSet(lex) /\ ToSet(ids) \subseteq docs
  BY <1>1, <1>2
<1> DEFINE added == ToSet(ids) \ ToSet(lex)
<1>6. added = {} /\ Cardinality({}) = 0
  BY <1>5, FS_EmptySet
<1> HIDE DEF added
<1>7. Cardinality(added) = 0 /\ Len(ids) - Cardinality(added) = k
  BY <1>1, <1>6
<1>8. IsPrefix(SubSeq(ids, 1, k), lex)
  <2>1. SubSeq(ids, 1, k) = ids
    BY <1>1
  <2>2. SubSeq(lex, 1, k) = ids
    BY DEF ids, Limited, Shorter
  <2> QED
    BY <1>1, <2>1, <2>2 DEF IsPrefix
<1>9. ASSUME Len(ids) # RankLimit PROVE ToSet(lex) \subseteq ToSet(ids)
  <2>1. k = Len(lex)
    BY <1>1, <1>9 DEF Shorter
  <2> QED
    BY <1>1, <1>2, <2>1
<1>10. /\ ToSet(ids) \subseteq docs \cap Synthetic /\ Cardinality(ToSet(ids)) = Len(ids)
       /\ IsPrefix(SubSeq(ids, 1, Len(ids) - Cardinality(added)), lex) /\ Cardinality(added) <= most
       /\ ((docs \ ToSet(ids)) \cap ToSet(lex) # {} => Len(ids) = RankLimit)
  BY <1>4, <1>5, <1>7, <1>8, <1>9
<1>11. ListSound(ids, lex, docs, most)
  BY <1>10, Zenon DEF ListSound, added
<1> QED
  BY <1>5, <1>11 DEF ids

LEMMA OneMoreId ==
  ASSUME NEW docs, docs \subseteq Synthetic, NEW lex \in Seq(docs), Distinct(lex),
         NEW d \in docs \ ToSet(lex)
  PROVE  ListSound(Append(lex, d), lex, docs, 1) /\ ToSet(Append(lex, d)) \ ToSet(lex) = {d}
<1> DEFINE ids == Append(lex, d)
           n == Len(lex)
<1>1. /\ n \in Nat /\ ids \in Seq(docs) /\ Len(ids) = n + 1 /\ ids[n + 1] = d
      /\ \A i \in 1..n : ids[i] = lex[i] /\ lex[i] \in docs
  OBVIOUS
<1>2. ToSet(ids) = {ids[i] : i \in 1..Len(ids)} /\ ToSet(lex) = {lex[i] : i \in 1..n}
  BY <1>1, SetOfList
<1> HIDE DEF n
<1>3. Distinct(ids)
  <2> SUFFICES ASSUME NEW i \in 1..(n + 1), NEW j \in 1..(n + 1), i # j PROVE ids[i] # ids[j]
    BY <1>1 DEF Distinct
  <2>1. \A m \in 1..n : lex[m] # d
    BY <1>2
  <2>2. CASE i \in 1..n /\ j \in 1..n
    BY <1>1, <2>2 DEF Distinct, n
  <2>3. CASE i = n + 1 \/ j = n + 1
    BY <1>1, <2>1, <2>3
  <2> QED
    BY <1>1, <2>2, <2>3
<1>4. Cardinality(ToSet(ids)) = Len(ids)
  BY <1>1, <1>3, SetOfList
<1>5. SubSeq(ids, 1, n) = lex
  BY <1>1 DEF n
<1> HIDE DEF ids
<1>6. ToSet(ids) = ToSet(lex) \cup {d}
  BY <1>1, <1>2
<1> DEFINE added == ToSet(ids) \ ToSet(lex)
<1>7. added = {d} /\ ToSet(ids) \subseteq docs
  BY <1>1, <1>2, <1>6
<1> HIDE DEF added
<1>8. Cardinality(added) = 1
  BY <1>7, FS_Singleton
<1>9. Len(ids) - Cardinality(added) = n
  BY <1>1, <1>8
<1>10. IsPrefix(lex, lex)
  BY DEF IsPrefix
<1>11. /\ ToSet(ids) \subseteq docs \cap Synthetic /\ Cardinality(ToSet(ids)) = Len(ids)
       /\ IsPrefix(SubSeq(ids, 1, Len(ids) - Cardinality(added)), lex) /\ Cardinality(added) <= 1
       /\ ((docs \ ToSet(ids)) \cap ToSet(lex) # {} => Len(ids) = RankLimit)
  <2>1. Cardinality(added) <= 1
    BY <1>8
  <2>2. IsPrefix(SubSeq(ids, 1, Len(ids) - Cardinality(added)), lex)
    BY <1>5, <1>9, <1>10
  <2>3. (docs \ ToSet(ids)) \cap ToSet(lex) = {} /\ ToSet(ids) \subseteq docs \cap Synthetic
    BY <1>6, <1>7
  <2> QED
    BY <1>4, <2>1, <2>2, <2>3
<1>12. ListSound(ids, lex, docs, 1)
  BY <1>11, Zenon DEF ListSound, added
<1> QED
  BY <1>7, <1>12 DEF ids, added

\* The hybrid list is the lexical one, or it has one neighbour more that is the
\* nearest by the margin.
LEMMA HybridList ==
  ASSUME NEW docs, docs \subseteq Documents, NEW lex \in Seq(docs), NEW v \in Vectors(docs)
  PROVE  \/ RankHybrid(docs, lex, v) = Limited(lex)
         \/ \E d \in docs \ ToSet(lex) :
              /\ RankHybrid(docs, lex, v) = Append(lex, d)
              /\ \A e \in docs \ (ToSet(lex) \cup {d}) : v[d].cosine - v[e].cosine >= MinimumMargin
<1> DEFINE S == docs \ ToSet(lex)
           o == SemanticOrder(docs, lex, v)
           ids == RankHybrid(docs, lex, v)
<1>1. o = InOrder(S, Nearer(docs, v)) /\ S \subseteq docs /\ IsFiniteSet(S)
  <2>1. IsFiniteSet(S)
    BY DocumentsAre, FS_Subset
  <2> QED
    BY <2>1 DEF SemanticOrder
<1>2. ids = Limited(lex \o SemanticIds(o, v))
  BY DEF RankHybrid
<1>3. Len(lex) \in Nat
  OBVIOUS
<1> HIDE DEF S, o, ids
<1>4. CASE SemanticIds(o, v) = << >>
  <2>1. lex \o << >> = lex
    OBVIOUS
  <2> QED
    BY <1>2, <1>4, <2>1 DEF ids
<1>5. CASE o # << >> /\ Confident(o, v) /\ SemanticIds(o, v) = <<o[1]>>
  <2>1. S # {}
    BY <1>1, <1>5, OrderLength
  <2>2. /\ o[1] \in S /\ Len(o) >= 1 /\ Len(o) \in Nat
        /\ Len(o) = 1 => S = {o[1]}
        /\ Len(o) > 1 => o[2] \in S /\ \A e \in S \ {o[1]} : v[e].cosine <= v[o[2]].cosine
    BY <1>1, <2>1, FirstAndSecond, FS_CardinalityType
  <2>3. \A e \in docs : v[e].cosine \in Int
    BY CosineIsNumber
  <2>4. MinimumMargin \in Int
    BY RankingAssumption
  <2>5. ASSUME NEW e \in S \ {o[1]} PROVE v[o[1]].cosine - v[e].cosine >= MinimumMargin
    <3>1. Len(o) > 1
      <4>1. S # {o[1]}
        BY <2>5
      <4>2. Len(o) \in Nat /\ Len(o) >= 1 /\ (Len(o) = 1 => S = {o[1]})
        BY <2>2
      <4>3. Len(o) # 1
        BY <4>1, <4>2, Zenon
      <4>4. PICK n : n = Len(o)
        OBVIOUS
      <4>5. n \in Nat /\ n >= 1 /\ n # 1
        BY <4>2, <4>3, <4>4, Zenon
      <4>6. n > 1
        BY <4>5
      <4> QED
        BY <4>4, <4>6, Zenon
    <3>2. v[o[1]].cosine - v[o[2]].cosine >= MinimumMargin
      BY <1>5, <3>1 DEF Confident
    <3>3. v[e].cosine <= v[o[2]].cosine
      BY <2>2, <3>1
    <3>4. v[e].cosine \in Int /\ v[o[1]].cosine \in Int /\ v[o[2]].cosine \in Int
      BY <1>1, <2>2, <2>3, <3>1
    <3> QED
      BY <2>4, <3>2, <3>3, <3>4
  <2>6. lex \o <<o[1]>> = Append(lex, o[1]) /\ o[1] \in docs /\ Append(lex, o[1]) \in Seq(docs)
        /\ Len(Append(lex, o[1])) = Len(lex) + 1
    BY <1>1, <2>2
  <2>7. CASE Len(lex) < RankLimit
    <3>1. Limited(Append(lex, o[1])) = Append(lex, o[1])
      <4>1. Shorter(Append(lex, o[1])) = Len(lex) + 1
        BY <1>3, <2>6, <2>7, RankLimitIs DEF Shorter
      <4>2. SubSeq(Append(lex, o[1]), 1, Len(lex) + 1) = Append(lex, o[1])
        BY <1>3, <2>6
      <4> QED
        BY <4>1, <4>2 DEF Limited, Shorter
    <3>2. ids = Append(lex, o[1])
      BY <1>2, <1>5, <2>6, <3>1
    <3> QED
      BY <2>2, <2>5, <3>2 DEF S, ids
  <2>8. CASE ~(Len(lex) < RankLimit)
    <3>1. Limited(Append(lex, o[1])) = SubSeq(Append(lex, o[1]), 1, RankLimit) /\ Limited(lex) = SubSeq(lex, 1, RankLimit)
      BY <1>3, <2>6, <2>8, RankLimitIs DEF Limited
    <3>2. SubSeq(Append(lex, o[1]), 1, RankLimit) = SubSeq(lex, 1, RankLimit)
      BY <1>3, <2>6, <2>8, RankLimitIs
    <3> QED
      BY <1>2, <1>5, <2>6, <3>1, <3>2 DEF ids
  <2> QED
    BY <2>7, <2>8
<1> QED
  BY <1>4, <1>5 DEF SemanticIds

\* What a ranking under way knows: its candidates are authorised; a call was
\* answered by another model than the recorded one only after a change of the
\* provider, and if the recorded one is loaded again only after two.
Since(m) == m # ranking.model => swaps >= 1 /\ (provider = ranking.model => swaps >= 2)

Candidates ==
    ranking.at \in {"before", "documents", "query", "after", "bound"} => ranking.docs \subseteq Documents \cap Synthetic
Recorded ==
    ranking.at \in {"documents", "query", "after"} =>
        ranking.model \in Models /\ (provider # ranking.model => swaps >= 1)
Answered ==
    /\ ranking.at \in {"query", "after"} => ranking.docsBy \in Models /\ Since(ranking.docsBy)
    /\ ranking.at = "after" => Since(ranking.queryBy)
ByRecorded ==
    swaps < 2 => /\ ranking.queryBy = ranking.generation.model
                 /\ \A d \in ranking.docs : ranking.vectors[d].made = ranking.generation.model
Bound ==
    ranking.at = "bound" =>
        /\ ranking.vectors \in Vectors(ranking.docs)
        /\ \A d \in ranking.docs : ranking.vectors[d].cosine = Cosine[ranking.vectors[d].made][d]
        /\ ByRecorded

RankingTypes ==
    /\ corpus \subseteq Documents /\ provider \in Models \cup {Away} /\ swaps \in Nat
    /\ \E T : lexical \in Seq(T)

\* What a result is.
Ahead ==
    \A d \in ToSet(ranking.ids) \ ToSet(lexical) :
        \A e \in (ranking.docs \ ToSet(ranking.ids)) \ ToSet(lexical) :
            Cosine[ranking.generation.model][d] - Cosine[ranking.generation.model][e] >= MinimumMargin
Most(mode) == IF mode = "hybrid" THEN 1 ELSE 0
Returned ==
    ranking.at = "done" =>
        /\ ListSound(ranking.ids, lexical, ranking.docs, Most(ranking.mode))
        /\ ranking.mode = "hybrid" => ByRecorded /\ (swaps < 2 => Ahead)

RankingInv == RankingTypes /\ Candidates /\ Recorded /\ Answered /\ Bound /\ Returned

LEMMA ReturnedIsSound == Returned => RankingIsSound
<1> SUFFICES ASSUME Returned, ranking.at = "done" PROVE RankingIsSound
  BY DEF RankingIsSound
<1>1. ListSound(ranking.ids, lexical, ranking.docs, IF ranking.mode = "hybrid" THEN 1 ELSE 0)
  BY DEF Returned, Most
<1>2. ranking.mode = "hybrid" /\ swaps < 2 => ByRecorded /\ Ahead
  BY DEF Returned
<1> QED
  BY <1>1, <1>2, Zenon DEF RankingIsSound, ListSound, ByRecorded, Ahead

LEMMA ListHandedIn == ASSUME NEW docs, docs \subseteq Documents PROVE \E T : RankLexical(docs) \in Seq(T)
<1> DEFINE S == {d \in docs : LexicalSignal(d).class # NoSignal}
           before == {p \in docs \X docs : RanksBefore(p[1], p[2])}
           o == InOrder(S, before)
           n == Cardinality(S)
           Pick(i) == CHOOSE d \in S : Cardinality({e \in S : <<e, d>> \in before}) = i - 1
           T == {Pick(i) : i \in 1..n}
<1>1. RankLexical(docs) = Limited(o)
  BY DEF RankLexical
<1>2. n \in Nat
  <2>1. IsFiniteSet(S)
    BY DocumentsAre, FS_Subset
  <2> QED
    BY <2>1, FS_CardinalityType
<1>3. o = [i \in 1..n |-> Pick(i)]
  BY DEF InOrder
<1> HIDE DEF o, n, Pick, S, before
<1>4. o \in Seq(T)
  BY <1>2, <1>3
<1> HIDE DEF T
<1>5. Limited(o) \in Seq(T)
  BY <1>4, CutOff
<1> QED
  BY <1>1, <1>5

LEMMA CosinesAre == \A m \in Models : \A d \in Documents : Cosine[m][d] \in CosineRange
<1>1. Cosine \in [Models -> [Documents -> CosineRange]]
  BY RankingAssumption
<1> QED
  BY <1>1

LEMMA RankingInvInit == RankingInit => RankingInv
<1> SUFFICES ASSUME RankingInit PROVE RankingInv
  OBVIOUS
<1>1. RankingTypes
  BY ListHandedIn DEF RankingInit, RankingTypes
<1>2. ranking.at = "idle"
  BY DEF RankingInit, NoRanking
<1> QED
  BY <1>1, <1>2 DEF RankingInv, Candidates, Recorded, Answered, Bound, Returned

\* A step that only changes the surroundings.
LEMMA OnlyAround ==
  ASSUME RankingInv, RankingTypes', ranking' = ranking, lexical' = lexical,
         swaps' = swaps + 1
  PROVE  RankingInv'
<1>1. swaps \in Nat /\ swaps' \in Nat /\ swaps' = swaps + 1
  BY DEF RankingInv, RankingTypes
<1>2. Candidates'
  BY DEF RankingInv, Candidates
<1>3. Recorded'
  BY <1>1 DEF RankingInv, Recorded
<1>4. Answered'
  BY <1>1 DEF RankingInv, Answered, Since
<1>5. ByRecorded => ByRecorded'
  BY <1>1 DEF ByRecorded
<1>6. Bound'
  BY <1>5 DEF RankingInv, Bound
<1>7. Returned'
  BY <1>1, <1>5 DEF RankingInv, Returned, Ahead
<1> QED
  BY <1>2, <1>3, <1>4, <1>6, <1>7 DEF RankingInv

\* A ranking that is refused, or that falls back on the lexical list.
LEMMA RefusedKeeps ==
  ASSUME RankingInv, StepRanking(Refused)
  PROVE  RankingInv'
<1>1. ranking'.at = "refused"
  BY DEF StepRanking, Refused
<1>2. RankingTypes'
  BY DEF RankingInv, StepRanking, RankingTypes
<1> QED
  BY <1>1, <1>2 DEF RankingInv, Candidates, Recorded, Answered, Bound, Returned

LEMMA FellBack ==
  ASSUME RankingInv, ranking.docs \subseteq Synthetic, StepRanking(Fallback(ranking.docs))
  PROVE  RankingInv'
<1>1. CASE ~LexicalValid(ranking.docs, lexical)
  BY <1>1, RefusedKeeps DEF Fallback
<1>2. CASE LexicalValid(ranking.docs, lexical)
  <2>1. ranking' = [at |-> "done", mode |-> "lexical_fallback", docs |-> ranking.docs, ids |-> Limited(lexical)]
    BY <1>2 DEF StepRanking, Fallback
  <2>2. /\ ranking'.at = "done" /\ ranking'.mode = "lexical_fallback" /\ ranking'.docs = ranking.docs
        /\ ranking'.ids = Limited(lexical) /\ lexical' = lexical
    BY <2>1 DEF StepRanking
  <2>3. PICK T : lexical \in Seq(T)
    BY DEF RankingInv, RankingTypes
  <2>4. lexical \in Seq(ranking.docs) /\ Distinct(lexical)
    BY <1>2, <2>3, LexicalIsDistinct
  <2>5. ListSound(Limited(lexical), lexical, ranking.docs, 0)
    BY <2>4, LexicalList
  <2>6. ListSound(ranking'.ids, lexical', ranking'.docs, Most(ranking'.mode))
    <3>1. Most(ranking'.mode) = 0
      BY <2>2 DEF Most
    <3> QED
      BY <2>2, <2>5, <3>1
  <2>7. RankingTypes'
    BY DEF RankingInv, StepRanking, RankingTypes
  <2>8. Returned'
    BY <2>2, <2>6 DEF Returned
  <2> QED
    BY <2>2, <2>7, <2>8 DEF RankingInv, Candidates, Recorded, Answered, Bound
<1> QED
  BY <1>1, <1>2

LEMMA StartRankingKeeps == RankingInv /\ StartRanking => RankingInv'
<1> SUFFICES ASSUME RankingInv, StartRanking PROVE RankingInv'
  OBVIOUS
<1>1. CASE ~CandidatesValid(corpus)
  BY <1>1, RefusedKeeps DEF StartRanking
<1>2. CASE CandidatesValid(corpus)
  <2>1. ranking' = [at |-> "before", docs |-> corpus]
    BY <1>2 DEF StartRanking, StepRanking
  <2>2. ranking'.at = "before" /\ ranking'.docs = corpus
    BY <2>1
  <2>3. corpus \subseteq Documents \cap Synthetic
    BY <1>2 DEF CandidatesValid, Admitted, RankingInv, RankingTypes
  <2>4. RankingTypes'
    BY DEF RankingInv, StartRanking, StepRanking, RankingTypes
  <2> QED
    BY <2>2, <2>3, <2>4 DEF RankingInv, Candidates, Recorded, Answered, Bound, Returned
<1> QED
  BY <1>1, <1>2

LEMMA IdentityBeforeKeeps == RankingInv /\ IdentityBefore => RankingInv'
<1> SUFFICES ASSUME RankingInv, IdentityBefore PROVE RankingInv'
  OBVIOUS
<1>1. ranking.at = "before" /\ ranking.docs \subseteq Documents \cap Synthetic
  BY DEF IdentityBefore, RankingInv, Candidates
<1>2. CASE provider = Away
  BY <1>1, <1>2, FellBack DEF IdentityBefore, Reachable
<1>3. CASE provider # Away /\ ~ModelValid(provider)
  BY <1>3, RefusedKeeps DEF IdentityBefore, Reachable
<1>4. CASE provider # Away /\ ModelValid(provider)
  <2>1. ranking' = [at |-> "documents", docs |-> ranking.docs, model |-> provider] /\ provider' = provider
    BY <1>4 DEF IdentityBefore, Reachable, StepRanking
  <2>2. ranking'.at = "documents" /\ ranking'.docs = ranking.docs /\ ranking'.model = provider
    BY <2>1
  <2>3. RankingTypes'
    BY DEF RankingInv, IdentityBefore, Reachable, StepRanking, RankingTypes
  <2>4. provider \in Models
    BY <1>4 DEF RankingInv, RankingTypes
  <2> QED
    BY <1>1, <2>1, <2>2, <2>3, <2>4 DEF RankingInv, Candidates, Recorded, Answered, Bound, Returned
<1> QED
  BY <1>2, <1>3, <1>4

LEMMA EmbedDocumentsKeeps == RankingInv /\ EmbedDocuments => RankingInv'
<1> SUFFICES ASSUME RankingInv, EmbedDocuments PROVE RankingInv'
  OBVIOUS
<1>1. ranking.at = "documents" /\ ranking.docs \subseteq Documents \cap Synthetic
  BY DEF EmbedDocuments, RankingInv, Candidates
<1>2. CASE provider = Away
  BY <1>1, <1>2, FellBack DEF EmbedDocuments, Reachable
<1>3. CASE provider # Away
  <2>1. /\ ranking' = [at |-> "query", docs |-> ranking.docs, model |-> ranking.model, docsBy |-> provider]
        /\ provider' = provider /\ swaps' = swaps
    BY <1>3 DEF EmbedDocuments, Reachable, StepRanking
  <2>2. /\ ranking'.at = "query" /\ ranking'.docs = ranking.docs /\ ranking'.model = ranking.model
        /\ ranking'.docsBy = provider
    BY <2>1
  <2>3. RankingTypes'
    BY DEF RankingInv, EmbedDocuments, Reachable, StepRanking, RankingTypes
  <2>4. provider \in Models
    BY <1>3 DEF RankingInv, RankingTypes
  <2>5. ranking.model \in Models /\ (provider # ranking.model => swaps >= 1)
    BY <1>1 DEF RankingInv, Recorded
  <2>6. Recorded' /\ Answered'
    BY <2>1, <2>2, <2>4, <2>5 DEF Recorded, Answered, Since
  <2> QED
    BY <1>1, <2>2, <2>3, <2>6 DEF RankingInv, Candidates, Bound, Returned
<1> QED
  BY <1>2, <1>3

LEMMA EmbedQueryKeeps == RankingInv /\ EmbedQuery => RankingInv'
<1> SUFFICES ASSUME RankingInv, EmbedQuery PROVE RankingInv'
  OBVIOUS
<1>1. ranking.at = "query" /\ ranking.docs \subseteq Documents \cap Synthetic
  BY DEF EmbedQuery, RankingInv, Candidates
<1>2. CASE provider = Away
  BY <1>1, <1>2, FellBack DEF EmbedQuery, Reachable
<1>3. CASE provider # Away
  <2>1. /\ ranking' = [at |-> "after", docs |-> ranking.docs, model |-> ranking.model,
                       docsBy |-> ranking.docsBy, queryBy |-> provider]
        /\ provider' = provider /\ swaps' = swaps
    BY <1>3 DEF EmbedQuery, Reachable, StepRanking
  <2>2. /\ ranking'.at = "after" /\ ranking'.docs = ranking.docs /\ ranking'.model = ranking.model
        /\ ranking'.docsBy = ranking.docsBy /\ ranking'.queryBy = provider
    BY <2>1
  <2>3. RankingTypes'
    BY DEF RankingInv, EmbedQuery, Reachable, StepRanking, RankingTypes
  <2>4. ranking.model \in Models /\ (provider # ranking.model => swaps >= 1)
    BY <1>1 DEF RankingInv, Recorded
  <2>5. ranking.docsBy \in Models /\ Since(ranking.docsBy)
    BY <1>1 DEF RankingInv, Answered
  <2>6. Recorded' /\ Answered'
    BY <2>1, <2>2, <2>4, <2>5 DEF Recorded, Answered, Since
  <2> QED
    BY <1>1, <2>2, <2>3, <2>6 DEF RankingInv, Candidates, Bound, Returned
<1> QED
  BY <1>2, <1>3

LEMMA IdentityAfterKeeps == RankingInv /\ IdentityAfter => RankingInv'
<1> SUFFICES ASSUME RankingInv, IdentityAfter PROVE RankingInv'
  OBVIOUS
<1>1. ranking.at = "after" /\ ranking.docs \subseteq Documents \cap Synthetic
  BY DEF IdentityAfter, RankingInv, Candidates
<1>2. CASE provider = Away
  BY <1>1, <1>2, FellBack DEF IdentityAfter, Reachable
<1>3. CASE provider # Away /\ ~(ModelValid(provider) /\ IdentityKept(ranking, provider))
  BY <1>3, RefusedKeeps DEF IdentityAfter, Reachable
<1>4. CASE provider # Away /\ ModelValid(provider) /\ IdentityKept(ranking, provider)
  <2> DEFINE g == Generation(ranking.model, ranking.docs)
             v == [d \in ranking.docs |-> BindVector(g, ranking.docsBy, d)]
  <2>1. /\ ranking' = [at |-> "bound", docs |-> ranking.docs, queryBy |-> ranking.queryBy,
                       generation |-> g, vectors |-> v]
        /\ provider' = provider /\ swaps' = swaps
    BY <1>4 DEF IdentityAfter, Reachable, StepRanking
  <2>2. ranking.model \in Models /\ ranking.docsBy \in Models /\ Since(ranking.docsBy) /\ Since(ranking.queryBy)
    BY <1>1 DEF RankingInv, Recorded, Answered
  <2>3. provider = ranking.model
    BY <1>4 DEF IdentityKept
  <2>4. swaps < 2 => ranking.docsBy = ranking.model /\ ranking.queryBy = ranking.model
    <3>1. swaps \in Nat
      BY DEF RankingInv, RankingTypes
    <3> QED
      BY <2>2, <2>3, <3>1 DEF Since
  <2>5. g \in [model : Models, revision : SUBSET Documents] /\ g.model = ranking.model
    BY <1>1, <2>2 DEF Generation
  <2>6. v \in Vectors(ranking.docs)
    <3>1. \A d \in ranking.docs : Cosine[ranking.docsBy][d] \in CosineRange
      BY <1>1, <2>2, CosinesAre
    <3> HIDE DEF g
    <3> QED
      BY <2>2, <2>5, <3>1 DEF Vectors, BindVector
  <2>7. \A d \in ranking.docs : v[d].made = ranking.docsBy /\ v[d].cosine = Cosine[ranking.docsBy][d]
    BY DEF BindVector
  <2> HIDE DEF g, v
  <2>8. /\ ranking'.at = "bound" /\ ranking'.docs = ranking.docs /\ ranking'.queryBy = ranking.queryBy
        /\ ranking'.generation = g /\ ranking'.vectors = v
    BY <2>1
  <2>9. ByRecorded'
    BY <2>1, <2>4, <2>5, <2>7, <2>8 DEF ByRecorded
  <2>10. Bound'
    BY <2>6, <2>7, <2>8, <2>9 DEF Bound
  <2>11. RankingTypes'
    BY DEF RankingInv, IdentityAfter, Reachable, StepRanking, RankingTypes
  <2> QED
    BY <1>1, <2>8, <2>10, <2>11 DEF RankingInv, Candidates, Recorded, Answered, Returned
<1> QED
  BY <1>2, <1>3, <1>4

LEMMA RankBoundKeeps == RankingInv /\ RankBound => RankingInv'
<1> SUFFICES ASSUME RankingInv, RankBound PROVE RankingInv'
  OBVIOUS
<1> DEFINE Valid == /\ VectorsValid(ranking.generation, ranking.docs, ranking.vectors)
                    /\ LexicalValid(ranking.docs, lexical)
           D == ranking.docs
           v == ranking.vectors
           ids == RankHybrid(D, lexical, v)
<1>1. ranking.at = "bound" /\ D \subseteq Documents /\ D \subseteq Synthetic
  BY DEF RankBound, RankingInv, Candidates
<1>2. CASE ~Valid
  BY <1>2, RefusedKeeps DEF RankBound
<1>3. CASE Valid
  <2>1. /\ ranking' = [at |-> "done", mode |-> "hybrid", docs |-> D, queryBy |-> ranking.queryBy,
                       generation |-> ranking.generation, vectors |-> v, ids |-> ids]
        /\ lexical' = lexical /\ swaps' = swaps
    BY <1>3 DEF RankBound, StepRanking
  <2>2. v \in Vectors(D) /\ (\A d \in D : v[d].cosine = Cosine[v[d].made][d]) /\ ByRecorded
    BY <1>1 DEF RankingInv, Bound
  <2>3. PICK T : lexical \in Seq(T)
    BY DEF RankingInv, RankingTypes
  <2>4. lexical \in Seq(D) /\ Distinct(lexical)
    BY <1>3, <2>3, LexicalIsDistinct
  <2> HIDE DEF ids, Valid
  <2>5. /\ ranking'.at = "done" /\ ranking'.mode = "hybrid" /\ ranking'.docs = ranking.docs
        /\ ranking'.queryBy = ranking.queryBy /\ ranking'.generation = ranking.generation
        /\ ranking'.vectors = ranking.vectors /\ ranking'.ids = ids
    BY <2>1
  <2>6. ByRecorded'
    BY <2>1, <2>2, <2>5 DEF ByRecorded
  <2>7. ListSound(ids, lexical, D, 1) /\ (swaps < 2 => Ahead')
    <3>1. CASE ids = Limited(lexical)
      <4>1. ListSound(ids, lexical, D, 1) /\ ToSet(ids) \subseteq ToSet(lexical)
        BY <1>1, <2>4, <3>1, LexicalList
      <4>2. Ahead'
        BY <2>1, <2>5, <4>1 DEF Ahead
      <4> QED
        BY <4>1, <4>2
    <3>2. ASSUME NEW d \in D \ ToSet(lexical), ids = Append(lexical, d),
                 \A e \in D \ (ToSet(lexical) \cup {d}) : v[d].cosine - v[e].cosine >= MinimumMargin
          PROVE  ListSound(ids, lexical, D, 1) /\ (swaps < 2 => Ahead')
      <4>1. ListSound(ids, lexical, D, 1) /\ ToSet(ids) \ ToSet(lexical) = {d}
        BY <1>1, <2>4, <3>2, OneMoreId
      <4>2. ASSUME swaps < 2, NEW e \in (D \ ToSet(ids)) \ ToSet(lexical)
            PROVE  Cosine[ranking.generation.model][d] - Cosine[ranking.generation.model][e] >= MinimumMargin
        <5>1. e \in D \ (ToSet(lexical) \cup {d})
          BY <4>1
        <5>2. v[d].cosine - v[e].cosine >= MinimumMargin
          BY <3>2, <5>1
        <5>3. v[d].made = ranking.generation.model /\ v[e].made = ranking.generation.model
          BY <2>2, <4>2 DEF ByRecorded
        <5>4. /\ v[d].cosine = Cosine[ranking.generation.model][d]
              /\ v[e].cosine = Cosine[ranking.generation.model][e]
          BY <2>2, <5>3
        <5> QED
          BY <5>2, <5>4
      <4>3. ASSUME swaps < 2 PROVE Ahead'
        BY <2>1, <2>5, <4>1, <4>2, <4>3 DEF Ahead
      <4> QED
        BY <4>1, <4>3
    <3> QED
      BY <1>1, <2>2, <2>4, <3>1, <3>2, HybridList DEF ids
  <2>8. ListSound(ranking'.ids, lexical', ranking'.docs, Most(ranking'.mode))
    <3>1. Most(ranking'.mode) = 1
      BY <2>5 DEF Most
    <3> QED
      BY <2>1, <2>5, <2>7, <3>1
  <2>9. Returned'
    BY <2>1, <2>6, <2>7, <2>8 DEF Returned
  <2>10. RankingTypes'
    BY DEF RankingInv, RankBound, StepRanking, RankingTypes
  <2> QED
    BY <2>5, <2>9, <2>10 DEF RankingInv, Candidates, Recorded, Answered, Bound
<1> QED
  BY <1>2, <1>3

LEMMA RankingInvKept == RankingInv /\ [RankingNext]_rankingVars => RankingInv'
<1> SUFFICES ASSUME RankingInv, [RankingNext]_rankingVars PROVE RankingInv'
  OBVIOUS
<1>1. ASSUME NEW m \in Models \cup {Away}, LoadModel(m) PROVE RankingInv'
  <2>1. RankingTypes'
    BY <1>1 DEF RankingInv, LoadModel, RankingTypes
  <2> QED
    BY <1>1, <2>1, OnlyAround DEF LoadModel
<1>2. ASSUME NEW d \in Documents, ChangeCorpus(d) PROVE RankingInv'
  <2>1. RankingTypes'
    BY <1>2 DEF RankingInv, ChangeCorpus, RankingTypes
  <2> QED
    BY <1>2, <2>1, OnlyAround DEF ChangeCorpus
<1>3. CASE UNCHANGED rankingVars
  BY <1>3 DEF rankingVars, RankingInv, RankingTypes, Candidates, Recorded, Answered, Since, Bound, ByRecorded,
              Returned, Ahead
<1> QED
  BY <1>1, <1>2, <1>3, StartRankingKeeps, IdentityBeforeKeeps, EmbedDocumentsKeeps, EmbedQueryKeeps,
     IdentityAfterKeeps, RankBoundKeeps DEF RankingNext

\* A ranking that rank_with_provider returns shows authorised candidates only, no
\* id twice, in the lexical order, with at most one neighbour more that is nearer
\* by the margin than every candidate left out; and unless the provider changed
\* twice its vectors are of the model its generation names: for every corpus,
\* every set of models with any cosines and any number of changes between the
\* calls of the provider.
THEOREM RankingStaysSound == RankingSpec => []RankingIsSound
<1>1. RankingInit => RankingInv
  BY RankingInvInit
<1>2. RankingInv /\ [RankingNext]_rankingVars => RankingInv'
  BY RankingInvKept
<1>3. RankingInv => RankingIsSound
  BY ReturnedIsSound DEF RankingInv
<1> QED
  BY <1>1, <1>2, <1>3, PTL DEF RankingSpec

(***************************************************************************)
(* Availability monitor.  First the loops of the summary: a recursive      *)
(* function has the values its step leads to, and after every sample the   *)
(* pass has counted the outages that ended.                                *)
(***************************************************************************)

\* A loop has a course: the values a step function leads to from the first one.
IsCourse(f, A, base, n, step) ==
    f \in [0..n -> A] /\ f[0] = base /\ \A i \in 1..n : f[i] = step[i][f[i - 1]]
LEMMA Course ==
  ASSUME NEW A, NEW base \in A, NEW n \in Nat, NEW step \in [1..n -> [A -> A]]
  PROVE  \E f : IsCourse(f, A, base, n, step)
<1> DEFINE Good(k) == \E f \in [0..k -> A] : f[0] = base /\ \A i \in 1..k : f[i] = step[i][f[i - 1]]
           Bad == {k \in 0..n : ~Good(k)}
<1>1. Good(0)
  <2>1. [i \in 0..0 |-> base] \in [0..0 -> A] /\ [i \in 0..0 |-> base][0] = base /\ 1..0 = {}
    OBVIOUS
  <2> QED
    BY <2>1
<1>2. ASSUME NEW k \in 1..n, Good(k - 1) PROVE Good(k)
  <2>1. PICK f \in [0..(k - 1) -> A] : f[0] = base /\ \A i \in 1..(k - 1) : f[i] = step[i][f[i - 1]]
    BY <1>2
  <2> DEFINE g == [i \in 0..k |-> IF i = k THEN step[k][f[k - 1]] ELSE f[i]]
  <2>2. f[k - 1] \in A /\ step[k] \in [A -> A]
    BY <1>2
  <2>3. step[k][f[k - 1]] \in A
    BY <2>2
  <2>4. g \in [0..k -> A] /\ g[0] = base
    BY <2>1, <2>3
  <2>5. ASSUME NEW i \in 1..k PROVE g[i] = step[i][g[i - 1]]
    <3>1. g[i - 1] = f[i - 1] /\ (i # k => g[i] = f[i]) /\ g[k] = step[k][f[k - 1]]
      BY <1>2
    <3> HIDE DEF g
    <3>2. CASE i = k
      BY <3>1, <3>2
    <3>3. CASE i # k
      BY <2>1, <3>1, <3>3
    <3> QED
      BY <3>2, <3>3
  <2> QED
    BY <2>4, <2>5
<1> HIDE DEF Good
<1>3. Bad = {}
  <2> SUFFICES ASSUME Bad # {} PROVE FALSE
    OBVIOUS
  <2>1. PICK x \in Bad : \A y \in Bad : x <= y
    <3>1. Bad \subseteq Nat
      OBVIOUS
    <3> HIDE DEF Bad
    <3> QED
      BY <3>1, Least
  <2>2. x \in 1..n /\ x - 1 \in 0..n /\ x - 1 \notin Bad
    BY <1>1, <2>1
  <2>3. Good(x - 1)
    BY <2>2
  <2> QED
    BY <1>2, <2>1, <2>2, <2>3
<1>4. Good(n)
  BY <1>3
<1> QED
  BY <1>4 DEF Good, IsCourse

Accs == [total : Nat, longest : Nat, since : Nat]
Taken == [elapsed : Nat, available : BOOLEAN]
FirstAcc == [total |-> 0, longest |-> 0, since |-> NoOutage]

LEMMA NoOutageIs == NoOutage \in Nat
  BY AvailabilityAssumption DEF NoOutage

LEMMA AddIs ==
  ASSUME NEW acc \in Accs, NEW to \in Nat
  PROVE  AddOutage(acc, to) \in Accs
  BY NoOutageIs DEF AddOutage, Accs, Larger

LEMMA SeeIs ==
  ASSUME NEW acc \in Accs, NEW s \in Taken
  PROVE  SeeSample(acc, s) \in Accs
<1>1. s.elapsed \in Nat
  BY DEF Taken
<1>2. [acc EXCEPT !.since = s.elapsed] \in Accs
  BY <1>1 DEF Accs
<1> QED
  BY <1>1, <1>2, AddIs DEF SeeSample

LEMMA PassIs ==
  ASSUME NEW ss \in Seq(Taken)
  PROVE  /\ Pass(ss) \in [0..Len(ss) -> Accs] /\ Pass(ss)[0] = FirstAcc
         /\ \A i \in 1..Len(ss) : Pass(ss)[i] = SeeSample(Pass(ss)[i - 1], ss[i])
<1> DEFINE n == Len(ss)
           step == [i \in 1..n |-> [acc \in Accs |-> SeeSample(acc, ss[i])]]
           P(f) == f = [i \in 0..n |-> IF i = 0 THEN FirstAcc ELSE SeeSample(f[i - 1], ss[i])]
<1>1. n \in Nat /\ \A i \in 1..n : ss[i] \in Taken
  OBVIOUS
<1>2. FirstAcc \in Accs
  BY NoOutageIs DEF FirstAcc, Accs
<1> HIDE DEF n
<1>3. step \in [1..n -> [Accs -> Accs]]
  <2>1. \A i \in 1..n : \A acc \in Accs : SeeSample(acc, ss[i]) \in Accs
    BY <1>1, SeeIs
  <2> QED
    BY <2>1
<1>4. \A i \in 1..n : \A acc \in Accs : step[i][acc] = SeeSample(acc, ss[i])
  OBVIOUS
<1> HIDE DEF step
<1>5. PICK f : IsCourse(f, Accs, FirstAcc, n, step)
  BY <1>1, <1>2, <1>3, Course
<1>6. f \in [0..n -> Accs] /\ f[0] = FirstAcc /\ \A i \in 1..n : f[i] = SeeSample(f[i - 1], ss[i])
  BY <1>1, <1>4, <1>5 DEF IsCourse
<1>7. P(f)
  BY <1>1, <1>6
<1>8. Pass(ss) = CHOOSE g : P(g)
  BY DEF Pass, n, FirstAcc
<1>9. P(Pass(ss))
  BY <1>7, <1>8
<1>10. /\ DOMAIN Pass(ss) = 0..n /\ Pass(ss) = [i \in 0..n |-> Pass(ss)[i]] /\ Pass(ss)[0] = FirstAcc
       /\ \A i \in 1..n : Pass(ss)[i] = SeeSample(Pass(ss)[i - 1], ss[i])
  BY <1>1, <1>9
<1> DEFINE Bad == {i \in 0..n : Pass(ss)[i] \notin Accs}
<1>11. Bad = {}
  <2> SUFFICES ASSUME Bad # {} PROVE FALSE
    OBVIOUS
  <2>1. PICK x \in Bad : \A y \in Bad : x <= y
    <3>1. Bad \subseteq Nat
      BY <1>1
    <3> HIDE DEF Bad
    <3> QED
      BY <3>1, Least
  <2>2. x \in 1..n /\ x - 1 \in 0..n /\ x - 1 \notin Bad
    BY <1>1, <1>2, <1>10, <2>1
  <2>3. Pass(ss)[x - 1] \in Accs
    BY <2>2
  <2>4. Pass(ss)[x] \in Accs
    BY <1>1, <1>10, <2>2, <2>3, SeeIs
  <2> QED
    BY <2>1, <2>4
<1>12. Pass(ss) \in [0..n -> Accs]
  BY <1>10, <1>11
<1> QED
  BY <1>10, <1>12 DEF n

Numbers == Int

LEMMA SumIs ==
  ASSUME NEW n \in Nat, NEW f \in [1..n -> Int]
  PROVE  /\ SumOf(f, n) \in [0..n -> Int] /\ SumOf(f, n)[0] = 0
         /\ \A i \in 1..n : SumOf(f, n)[i] = SumOf(f, n)[i - 1] + f[i]
<1> DEFINE step == [i \in 1..n |-> [x \in Numbers |-> x + f[i]]]
           P(g) == g = [i \in 0..n |-> IF i = 0 THEN 0 ELSE g[i - 1] + f[i]]
<1>1. step \in [1..n -> [Numbers -> Numbers]] /\ \A i \in 1..n : \A x \in Numbers : step[i][x] = x + f[i]
  <2>1. \A i \in 1..n : \A x \in Numbers : x + f[i] \in Numbers
    BY DEF Numbers
  <2> QED
    BY <2>1
<1>0. 0 \in Numbers
  BY DEF Numbers
<1> HIDE DEF step
<1>2. PICK g : IsCourse(g, Numbers, 0, n, step)
  BY <1>0, <1>1, Course
<1>3. g \in [0..n -> Numbers] /\ g[0] = 0 /\ \A i \in 1..n : g[i] = g[i - 1] + f[i]
  <2>1. ASSUME NEW i \in 1..n PROVE g[i - 1] \in Numbers /\ g[i] = step[i][g[i - 1]]
    BY <1>2 DEF IsCourse
  <2> QED
    BY <1>1, <1>2, <2>1 DEF IsCourse
<1>4. P(g)
  BY <1>3
<1>5. SumOf(f, n) = CHOOSE h : P(h)
  BY DEF SumOf
<1>6. P(SumOf(f, n))
  BY <1>4, <1>5
<1>7. /\ SumOf(f, n) = [i \in 0..n |-> SumOf(f, n)[i]] /\ SumOf(f, n)[0] = 0
      /\ \A i \in 1..n : SumOf(f, n)[i] = SumOf(f, n)[i - 1] + f[i]
  BY <1>6
<1> DEFINE Bad == {i \in 0..n : SumOf(f, n)[i] \notin Int}
<1>8. Bad = {}
  <2> SUFFICES ASSUME Bad # {} PROVE FALSE
    OBVIOUS
  <2>1. PICK x \in Bad : \A y \in Bad : x <= y
    <3>1. Bad \subseteq Nat
      OBVIOUS
    <3> HIDE DEF Bad
    <3> QED
      BY <3>1, Least
  <2>2. x \in 1..n /\ x - 1 \in 0..n /\ x - 1 \notin Bad
    BY <1>7, <2>1
  <2>3. SumOf(f, n)[x - 1] \in Int
    BY <2>2
  <2>4. SumOf(f, n)[x] \in Int
    <3>1. f[x] \in Int /\ SumOf(f, n)[x] = SumOf(f, n)[x - 1] + f[x]
      BY <1>7, <2>2
    <3> QED
      BY <2>3, <3>1
  <2> QED
    BY <2>1, <2>4
<1>9. SumOf(f, n) \in [0..n -> Int]
  BY <1>7, <1>8
<1> QED
  BY <1>7, <1>9

\* What the pass has added up after a sample: the outages that ended, so that the
\* one under way, from its first failed sample to the next sample, is missing.
Counted(acc, s, after, sum) ==
    /\ acc.longest <= acc.total
    /\ acc.since = NoOutage => acc.total = sum
    /\ acc.since # NoOutage => ~s.available /\ acc.since <= s.elapsed /\ acc.total + (after - acc.since) = sum

LEMMA AddCounts ==
  ASSUME NEW acc \in Accs, NEW to \in Nat, acc.since <= to, acc.longest <= acc.total
  PROVE  LET b == AddOutage(acc, to)
         IN b.total = acc.total + (to - acc.since) /\ b.longest <= b.total /\ b.since = NoOutage
<1>1. acc.total \in Nat /\ acc.longest \in Nat /\ acc.since \in Nat
  BY DEF Accs
<1> DEFINE d == IF to >= acc.since THEN to - acc.since ELSE 0
           b == AddOutage(acc, to)
<1>2. d = to - acc.since /\ d \in Nat
  BY <1>1
<1> HIDE DEF d
<1>3. b = [total |-> acc.total + d, longest |-> Larger(acc.longest, d), since |-> NoOutage]
  BY DEF AddOutage, d
<1>4. b.total = acc.total + d /\ b.longest = Larger(acc.longest, d) /\ b.since = NoOutage
  BY <1>3
<1>5. Larger(acc.longest, d) <= acc.total + d
  BY <1>1, <1>2 DEF Larger
<1> QED
  BY <1>2, <1>4, <1>5

LEMMA SeeCounts ==
  ASSUME NEW acc \in Accs, NEW s0, NEW s \in Taken, NEW after \in Nat, NEW sum0 \in Int,
         s.elapsed # NoOutage, Counted(acc, s0, s.elapsed, sum0),
         acc.since # NoOutage => acc.since <= s.elapsed
  PROVE  Counted(SeeSample(acc, s), s, after, sum0 + (IF s.available THEN 0 ELSE after - s.elapsed))
<1>1. acc.total \in Nat /\ acc.longest \in Nat /\ acc.since \in Nat /\ s.elapsed \in Nat /\ NoOutage \in Nat
  BY NoOutageIs DEF Accs, Taken
<1>2. CASE s.available /\ acc.since = NoOutage
  BY <1>1, <1>2 DEF SeeSample, Counted
<1>3. CASE s.available /\ acc.since # NoOutage
  <2> DEFINE b == AddOutage(acc, s.elapsed)
  <2>1. b.total = acc.total + (s.elapsed - acc.since) /\ b.longest <= b.total /\ b.since = NoOutage
    BY <1>1, <1>3, AddCounts DEF Counted
  <2>2. SeeSample(acc, s) = b
    BY <1>3 DEF SeeSample
  <2>3. acc.total + (s.elapsed - acc.since) = sum0
    BY <1>3 DEF Counted
  <2> HIDE DEF b
  <2>4. b.total = sum0 + 0
    BY <2>1, <2>3
  <2> QED
    BY <1>3, <2>1, <2>2, <2>4 DEF Counted
<1>4. CASE ~s.available /\ acc.since = NoOutage
  <2> DEFINE b == [acc EXCEPT !.since = s.elapsed]
  <2>1. SeeSample(acc, s) = b
    BY <1>4 DEF SeeSample
  <2>2. b.total = acc.total /\ b.longest = acc.longest /\ b.since = s.elapsed
    BY DEF Accs
  <2>3. acc.longest <= acc.total /\ acc.total = sum0
    BY <1>4 DEF Counted
  <2> HIDE DEF b
  <2>4. b.total + (after - b.since) = sum0 + (after - s.elapsed)
    BY <2>2, <2>3
  <2> QED
    BY <1>1, <1>4, <2>1, <2>2, <2>3, <2>4 DEF Counted
<1>5. CASE ~s.available /\ acc.since # NoOutage
  <2>1. SeeSample(acc, s) = acc
    BY <1>5 DEF SeeSample
  <2>2. acc.longest <= acc.total /\ acc.total + (s.elapsed - acc.since) = sum0
    BY <1>5 DEF Counted
  <2>3. acc.total + (after - acc.since) = sum0 + (after - s.elapsed)
    BY <1>1, <2>2
  <2> QED
    BY <1>5, <2>1, <2>2, <2>3 DEF Counted
<1> QED
  BY <1>2, <1>3, <1>4, <1>5

After(ss, w, i) == IF i = Len(ss) THEN w ELSE ss[i + 1].elapsed
Shares(ss, w) == [i \in 1..Len(ss) |-> IF ss[i].available THEN 0 ELSE After(ss, w, i) - ss[i].elapsed]
InTime(ss, w) ==
    /\ \A i \in 1..Len(ss) : ss[i].elapsed <= w
    /\ \A i \in 1..Len(ss) : i > 1 => ss[i - 1].elapsed <= ss[i].elapsed

LEMMA OutageAddsUp ==
  ASSUME NEW ss \in Seq(Taken), NEW w \in Nat, w <= MaxTicks, InTime(ss, w)
  PROVE  /\ Outage(ss, w).total = SumOf(Shares(ss, w), Len(ss))[Len(ss)]
         /\ Outage(ss, w).longest <= Outage(ss, w).total
<1> DEFINE n == Len(ss)
           f == Shares(ss, w)
           sum == SumOf(f, n)
           pass == Pass(ss)
<1>1. n \in Nat /\ \A i \in 1..n : ss[i] \in Taken /\ ss[i].elapsed \in Nat /\ ss[i].available \in BOOLEAN
  <2>1. n \in Nat /\ \A i \in 1..n : ss[i] \in Taken
    OBVIOUS
  <2> QED
    BY <2>1 DEF Taken
<1>2. \A i \in 1..n : After(ss, w, i) \in Nat
  BY <1>1 DEF After
<1>3. /\ f \in [1..n -> Int]
      /\ \A i \in 1..n : f[i] = IF ss[i].available THEN 0 ELSE After(ss, w, i) - ss[i].elapsed
  BY <1>1, <1>2 DEF Shares
<1>4. pass \in [0..n -> Accs] /\ pass[0] = FirstAcc /\ \A i \in 1..n : pass[i] = SeeSample(pass[i - 1], ss[i])
  BY PassIs
<1>5. MaxTicks \in Nat
  BY AvailabilityAssumption
<1>6. \A i \in 1..n : ss[i].elapsed # NoOutage /\ ss[i].elapsed <= w /\ (i > 1 => ss[i - 1].elapsed <= ss[i].elapsed)
  BY <1>1, <1>5 DEF InTime, NoOutage
<1> HIDE DEF n, f, pass
<1>7. sum \in [0..n -> Int] /\ sum[0] = 0 /\ \A i \in 1..n : sum[i] = sum[i - 1] + f[i]
  BY <1>1, <1>3, SumIs
<1> HIDE DEF sum
<1> DEFINE K(k) == Counted(pass[k], ss[k], After(ss, w, k), sum[k]) /\ (k = 0 => pass[k].since = NoOutage)
           Bad == {k \in 0..n : ~K(k)}
<1>8. K(0)
  <2>1. pass[0].total = 0 /\ pass[0].longest = 0 /\ pass[0].since = NoOutage
    BY <1>4 DEF FirstAcc
  <2> QED
    BY <1>7, <2>1 DEF Counted
<1>9. ASSUME NEW k \in 1..n, K(k - 1) PROVE K(k)
  <2>1. /\ pass[k - 1] \in Accs /\ ss[k] \in Taken /\ After(ss, w, k) \in Nat /\ sum[k - 1] \in Int
        /\ ss[k].elapsed # NoOutage /\ ss[k].elapsed \in Nat
    BY <1>1, <1>2, <1>4, <1>6, <1>7, SMTT(30)
  <2>2. k > 1 => After(ss, w, k - 1) = ss[k].elapsed /\ ss[k - 1].elapsed <= ss[k].elapsed
    BY <1>1, <1>6 DEF After, n
  <2>3. /\ Counted(pass[k - 1], ss[k - 1], ss[k].elapsed, sum[k - 1])
        /\ pass[k - 1].since # NoOutage => pass[k - 1].since <= ss[k].elapsed
    <3>1. CASE k = 1
      BY <1>9, <3>1 DEF Counted
    <3>2. CASE k > 1
      <4>1. Counted(pass[k - 1], ss[k - 1], ss[k].elapsed, sum[k - 1])
        BY <1>9, <2>2, <3>2
      <4>2. pass[k - 1].since \in Nat /\ ss[k - 1].elapsed \in Nat /\ ss[k].elapsed \in Nat
        BY <1>1, <2>1, <3>2 DEF Accs
      <4> QED
        BY <2>2, <3>2, <4>1, <4>2 DEF Counted
    <3> QED
      BY <3>1, <3>2
  <2>4. pass[k] = SeeSample(pass[k - 1], ss[k])
    BY <1>4
  <2>5. sum[k] = sum[k - 1] + (IF ss[k].available THEN 0 ELSE After(ss, w, k) - ss[k].elapsed)
    BY <1>3, <1>7
  <2>6. Counted(pass[k], ss[k], After(ss, w, k), sum[k])
    BY <2>1, <2>3, <2>4, <2>5, SeeCounts
  <2> QED
    BY <2>6
<1> HIDE DEF K
<1>10. Bad = {}
  <2> SUFFICES ASSUME Bad # {} PROVE FALSE
    OBVIOUS
  <2>1. PICK x \in Bad : \A y \in Bad : x <= y
    <3>1. Bad \subseteq Nat
      BY <1>1
    <3> HIDE DEF Bad
    <3> QED
      BY <3>1, Least
  <2>2. x \in 1..n /\ x - 1 \in 0..n /\ x - 1 \notin Bad
    BY <1>1, <1>8, <2>1
  <2> QED
    BY <1>9, <2>1, <2>2
<1>11. K(n)
  BY <1>1, <1>10
<1> DEFINE last == pass[n]
<1>12. last \in Accs /\ last.since \in Nat /\ Counted(last, ss[n], w, sum[n]) /\ (n = 0 => last.since = NoOutage)
  <2>1. last \in Accs
    BY <1>1, <1>4
  <2>2. After(ss, w, n) = w
    BY DEF After, n
  <2> QED
    BY <1>11, <2>1, <2>2 DEF K, Accs
<1> HIDE DEF last
<1>13. Outage(ss, w) = IF last.since # NoOutage THEN AddOutage(last, w) ELSE last
  BY DEF Outage, last, pass, n
<1>14. CASE last.since = NoOutage
  BY <1>12, <1>13, <1>14 DEF Counted, sum, f, n
<1>15. CASE last.since # NoOutage
  <2>1. n \in 1..n /\ ss[n].elapsed \in Nat /\ ss[n].elapsed <= w
    BY <1>1, <1>6, <1>12, <1>15
  <2>2. last.since <= ss[n].elapsed /\ last.longest <= last.total /\ last.total + (w - last.since) = sum[n]
    BY <1>12, <1>15 DEF Counted
  <2>3. last.since <= w
    BY <1>12, <2>1, <2>2
  <2> DEFINE b == AddOutage(last, w)
  <2>4. b.total = last.total + (w - last.since) /\ b.longest <= b.total
    BY <1>12, <2>2, <2>3, AddCounts
  <2>5. Outage(ss, w) = b
    BY <1>13, <1>15
  <2> HIDE DEF b
  <2> QED
    BY <2>2, <2>4, <2>5 DEF sum, f, n
<1> QED
  BY <1>14, <1>15

(***************************************************************************)
(* The invariant of the monitor: samples tell the truth of some moment of  *)
(* their probe, each begins at most an interval or a probe timeout after   *)
(* the one before it, and so does the time until the monitor is stopped.   *)
(***************************************************************************)

Slowest == Larger(Interval, ProbeLimit)
LastStart == samples[Len(samples)].elapsed

\* A probe begun at e may have seen v.
Seen(e, v) == \E t \in e..(e + ProbeLimit) : t <= now /\ truth[t] = v
\* The last sample is recent at time x; before the first one no time passes.
Recent(x) == IF Len(samples) = 0 THEN x = 0 ELSE x <= LastStart + Slowest

Clock ==
    /\ now \in Nat /\ now <= MaxTicks /\ truth \in [0..now -> BOOLEAN] /\ nextDue \in Nat /\ failedAt \in Nat
    /\ samples \in Seq(Taken) /\ monitor \in [at : {"running", "stopping", "stopped"}, stop : Nat]
    /\ probe \in [on : BOOLEAN, start : Nat, seen : SUBSET BOOLEAN]
Truthful ==
    /\ \A i \in 1..Len(samples) : samples[i].elapsed <= now /\ Seen(samples[i].elapsed, samples[i].available)
    /\ probe.on => /\ probe.start <= now /\ now <= probe.start + ProbeLimit
                   /\ \A v \in probe.seen : Seen(probe.start, v)
Spaced ==
    /\ Len(samples) > 0 => samples[1].elapsed = 0
    /\ \A i \in 1..Len(samples) : i > 1 =>
         /\ samples[i - 1].elapsed <= samples[i].elapsed
         /\ samples[i].elapsed <= samples[i - 1].elapsed + Slowest
Timely ==
    /\ probe.on => nextDue <= probe.start /\ Recent(probe.start) /\ (Len(samples) > 0 => LastStart <= probe.start)
    /\ ~probe.on => nextDue <= IF Len(samples) = 0 THEN 0 ELSE LastStart + Interval
    /\ monitor.at = "running" /\ ~probe.on => Recent(now)
    /\ monitor.at # "running" => monitor.stop <= now /\ (~probe.on => Recent(monitor.stop))
Ending ==
    /\ monitor.at = "stopped" => ~probe.on
    /\ monitor.at # "stopped" => summary.status = "none"

MonitorInv == Clock /\ Truthful /\ Spaced /\ Timely /\ Ending /\ ReportIsHonest

LEMMA MinIs ==
  ASSUME NEW S, S \subseteq Nat, S # {}
  PROVE  Min(S) \in S /\ \A y \in S : Min(S) <= y
<1>1. \E x \in S : \A y \in S : x <= y
  BY Least
<1> QED
  BY <1>1 DEF Min

LEMMA SlowestIs ==
  /\ Slowest \in Nat /\ Interval \in Nat /\ ProbeLimit \in Nat /\ Interval >= 1 /\ ProbeLimit >= 1
  /\ Interval <= Slowest /\ ProbeLimit <= Slowest /\ MaxTicks \in Nat
  BY AvailabilityAssumption DEF Slowest, Larger

LEMMA SampleIs ==
  ASSUME Clock, NEW i \in 1..Len(samples)
  PROVE  samples[i] \in Taken /\ samples[i].elapsed \in Nat /\ samples[i].available \in BOOLEAN
<1>1. samples[i] \in Taken
  BY DEF Clock
<1> QED
  BY <1>1 DEF Taken

LEMMA LengthIs ==
  ASSUME Clock PROVE Len(samples) \in Nat /\ (Len(samples) > 0 => Len(samples) \in 1..Len(samples) /\ LastStart \in Nat)
<1>1. Len(samples) \in Nat
  BY DEF Clock
<1>2. ASSUME Len(samples) > 0 PROVE Len(samples) \in 1..Len(samples)
  BY <1>1, <1>2
<1> QED
  BY <1>1, <1>2, SampleIs DEF LastStart

LEMMA MonitorInvInit == AvailabilityInit => MonitorInv
<1> SUFFICES ASSUME AvailabilityInit PROVE MonitorInv
  OBVIOUS
<1> USE SlowestIs DEF AvailabilityInit
<1>1. Len(samples) = 0 /\ samples \in Seq(Taken) /\ 1..Len(samples) = {}
  OBVIOUS
<1>2. probe.on = FALSE /\ probe \in [on : BOOLEAN, start : Nat, seen : SUBSET BOOLEAN]
  BY DEF NoProbe
<1>3. monitor.at = "running" /\ monitor \in [at : {"running", "stopping", "stopped"}, stop : Nat]
  BY DEF Unmarked
<1>4. summary.status = "none"
  BY DEF NoSummary
<1>5. Clock
  BY <1>1, <1>2, <1>3 DEF Clock, Unmarked
<1>6. Truthful /\ Spaced /\ Timely /\ Ending
  BY <1>1, <1>2, <1>3, <1>4 DEF Truthful, Spaced, Timely, Recent, Ending
<1> QED
  BY <1>4, <1>5, <1>6 DEF MonitorInv, ReportIsHonest

\* Time passes: what was seen stays so.
LEMMA PassTimeKeeps == MonitorInv /\ PassTime => MonitorInv'
<1> SUFFICES ASSUME MonitorInv, PassTime PROVE MonitorInv'
  OBVIOUS
<1>1. PICK up \in BOOLEAN :
        /\ truth' = [t \in 0..(now + 1) |-> IF t = now + 1 THEN up ELSE truth[t]]
        /\ probe' = IF probe.on THEN [probe EXCEPT !.seen = @ \cup {up}] ELSE probe
  BY DEF PassTime
<1>2. /\ now' = now + 1 /\ now < MaxTicks /\ samples' = samples /\ nextDue' = nextDue /\ failedAt' = failedAt
      /\ monitor' = monitor /\ summary' = summary /\ monitor.at # "stopped"
      /\ (probe.on => now < probe.start + ProbeLimit) /\ (monitor.at = "running" /\ ~probe.on => now < nextDue)
  BY DEF PassTime
<1>3. Clock /\ Truthful /\ Spaced /\ Timely /\ Ending
  BY DEF MonitorInv
<1>4. now \in Nat /\ MaxTicks \in Nat /\ truth \in [0..now -> BOOLEAN]
  BY <1>3, SlowestIs DEF Clock
<1>5. /\ probe'.on = probe.on /\ probe'.start = probe.start
      /\ (probe.on => probe'.seen = probe.seen \cup {up})
      /\ probe' \in [on : BOOLEAN, start : Nat, seen : SUBSET BOOLEAN]
  BY <1>1, <1>3 DEF Clock
<1>6. truth' \in [0..(now + 1) -> BOOLEAN] /\ truth'[now + 1] = up /\ \A t \in 0..now : truth'[t] = truth[t]
  BY <1>1, <1>4
<1>7. Clock'
  BY <1>2, <1>3, <1>4, <1>5, <1>6 DEF Clock
<1>8. ASSUME NEW e \in Nat, NEW v, Seen(e, v) PROVE Seen(e, v)'
  <2>1. PICK t \in e..(e + ProbeLimit) : t <= now /\ truth[t] = v
    BY <1>8 DEF Seen
  <2>2. t \in 0..now /\ t <= now'
    BY <1>2, <1>4, <2>1, SlowestIs
  <2>3. truth'[t] = v
    BY <1>6, <2>1, <2>2
  <2> QED
    BY <2>1, <2>2, <2>3 DEF Seen
<1>9. Truthful'
  <2>1. ASSUME NEW i \in 1..Len(samples) PROVE samples[i].elapsed <= now' /\ Seen(samples[i].elapsed, samples[i].available)'
    <3>1. samples[i].elapsed \in Nat
      BY <1>3, SampleIs
    <3>2. samples[i].elapsed <= now /\ Seen(samples[i].elapsed, samples[i].available)
      BY <1>3 DEF Truthful
    <3>3. \A e, v : e = samples[i].elapsed /\ v = samples[i].available => Seen(e, v)'
      BY <1>8, <3>1, <3>2
    <3>4. Seen(samples[i].elapsed, samples[i].available)'
      BY <1>2, <3>3 DEF Seen
    <3> QED
      BY <1>2, <1>4, <3>1, <3>2, <3>4
  <2>2. ASSUME probe.on PROVE probe.start <= now' /\ now' <= probe.start + ProbeLimit
    <3>1. probe.start \in Nat /\ probe.start <= now /\ now < probe.start + ProbeLimit
      BY <1>2, <1>3, <2>2 DEF Clock, Truthful
    <3> QED
      BY <1>2, <1>4, <3>1, SlowestIs
  <2>3. ASSUME probe.on, NEW v \in probe'.seen PROVE \E t \in probe.start..(probe.start + ProbeLimit) : t <= now' /\ truth'[t] = v
    <3>1. probe.start \in Nat
      BY <1>3 DEF Clock
    <3>2. CASE v \in probe.seen
      BY <1>3, <1>8, <2>3, <3>1, <3>2 DEF Truthful, Seen
    <3>3. CASE v = up
      <4>1. now + 1 \in probe.start..(probe.start + ProbeLimit)
        BY <1>2, <1>4, <2>2, <2>3, <3>1, SlowestIs
      <4> QED
        BY <1>2, <1>4, <1>6, <3>3, <4>1
    <3> QED
      BY <1>5, <2>3, <3>2, <3>3
  <2> QED
    BY <1>2, <1>5, <2>1, <2>2, <2>3 DEF Truthful, Seen
<1>10. Spaced'
  BY <1>2, <1>3 DEF Spaced
<1>11. Timely'
  <2>1. monitor.at = "running" /\ ~probe.on => Recent(now)'
    <3> SUFFICES ASSUME monitor.at = "running", ~probe.on PROVE Recent(now)'
      OBVIOUS
    <3>1. now < nextDue /\ nextDue \in Nat /\ nextDue <= IF Len(samples) = 0 THEN 0 ELSE LastStart + Interval
      BY <1>2, <1>3 DEF Timely, Clock
    <3>2. Len(samples) # 0 /\ LastStart \in Nat
      BY <1>3, <1>4, <3>1, LengthIs
    <3>3. now + 1 <= LastStart + Slowest
      BY <1>4, <3>1, <3>2, SlowestIs
    <3> QED
      BY <1>2, <3>2, <3>3 DEF Recent, LastStart
  <2>2. monitor.at # "running" => monitor.stop <= now'
    <3>1. monitor.stop \in Nat
      BY <1>3 DEF Clock
    <3> QED
      BY <1>2, <1>3, <1>4, <3>1 DEF Timely
  <2> QED
    BY <1>2, <1>3, <1>5, <2>1, <2>2 DEF Timely, Recent, LastStart
<1>12. Ending' /\ ReportIsHonest'
  BY <1>2, <1>3, <1>5 DEF Ending, ReportIsHonest
<1> QED
  BY <1>7, <1>9, <1>10, <1>11, <1>12 DEF MonitorInv

LEMMA BeginSampleKeeps == MonitorInv /\ BeginSample => MonitorInv'
<1> SUFFICES ASSUME MonitorInv, BeginSample PROVE MonitorInv'
  OBVIOUS
<1>1. /\ monitor.at = "running" /\ ~probe.on /\ nextDue <= now /\ probe' = [on |-> TRUE, start |-> now, seen |-> {truth[now]}]
      /\ now' = now /\ truth' = truth /\ samples' = samples /\ nextDue' = nextDue /\ failedAt' = failedAt
      /\ monitor' = monitor /\ summary' = summary
  BY DEF BeginSample
<1>2. Clock /\ Truthful /\ Spaced /\ Timely /\ Ending
  BY DEF MonitorInv
<1>3. probe'.on = TRUE /\ probe'.start = now /\ probe'.seen = {truth[now]}
  BY <1>1
<1>4. now \in Nat /\ truth[now] \in BOOLEAN
  BY <1>2 DEF Clock
<1>5. probe' \in [on : BOOLEAN, start : Nat, seen : SUBSET BOOLEAN]
  BY <1>1, <1>4
<1>6. Clock'
  BY <1>1, <1>2, <1>5 DEF Clock
<1>7. now \in now..(now + ProbeLimit) /\ now <= now + ProbeLimit
  BY <1>4, SlowestIs
<1>8. Truthful'
  BY <1>1, <1>2, <1>3, <1>4, <1>7 DEF Truthful, Seen
<1>9. Spaced'
  BY <1>1, <1>2 DEF Spaced
<1>10. Len(samples) > 0 => LastStart <= now
  BY <1>2, LengthIs DEF Truthful, LastStart
<1>11. Timely'
  BY <1>1, <1>2, <1>3, <1>10 DEF Timely, Recent, LastStart
<1>12. Ending' /\ ReportIsHonest'
  BY <1>1, <1>2 DEF Ending, ReportIsHonest
<1> QED
  BY <1>6, <1>8, <1>9, <1>11, <1>12 DEF MonitorInv

LEMMA EndSampleKeeps == MonitorInv /\ EndSample => MonitorInv'
<1> SUFFICES ASSUME MonitorInv, EndSample PROVE MonitorInv'
  OBVIOUS
<1> DEFINE n == Len(samples)
           e == probe.start
<1>1. PICK v \in probe.seen : samples' = Append(samples, [elapsed |-> e, available |-> v])
  BY DEF EndSample, Observed
<1>2. /\ probe.on /\ probe' = NoProbe /\ nextDue' = nextDue + Interval /\ now' = now /\ truth' = truth
      /\ failedAt' = failedAt /\ monitor' = monitor /\ summary' = summary
  BY DEF EndSample, Due
<1>3. Clock /\ Truthful /\ Spaced /\ Timely /\ Ending
  BY DEF MonitorInv
<1>4. probe'.on = FALSE /\ probe' \in [on : BOOLEAN, start : Nat, seen : SUBSET BOOLEAN]
  BY <1>2 DEF NoProbe
<1>5. e \in Nat /\ v \in BOOLEAN /\ now \in Nat /\ n \in Nat /\ nextDue \in Nat /\ monitor.stop \in Nat
  BY <1>3, LengthIs DEF Clock
<1>6. [elapsed |-> e, available |-> v] \in Taken
  BY <1>5 DEF Taken
<1>7. /\ samples' \in Seq(Taken) /\ Len(samples') = n + 1 /\ samples'[n + 1] = [elapsed |-> e, available |-> v]
      /\ \A i \in 1..n : samples'[i] = samples[i]
  BY <1>1, <1>3, <1>6 DEF Clock
<1>8. samples'[n + 1].elapsed = e /\ samples'[n + 1].available = v
  BY <1>7
<1>9. Clock'
  BY <1>2, <1>3, <1>4, <1>5, <1>7, SlowestIs DEF Clock
<1> HIDE DEF n
<1>10. e <= now /\ now <= e + ProbeLimit /\ Seen(e, v)
  BY <1>1, <1>2, <1>3 DEF Truthful
<1>11. Truthful'
  <2>1. ASSUME NEW i \in 1..(n + 1) PROVE samples'[i].elapsed <= now /\ Seen(samples'[i].elapsed, samples'[i].available)
    <3>1. CASE i \in 1..n
      BY <1>3, <1>7, <3>1 DEF Truthful, n
    <3>2. CASE i = n + 1
      BY <1>8, <1>10, <3>2
    <3> QED
      BY <1>5, <3>1, <3>2
  <2> QED
    BY <1>2, <1>4, <1>7, <2>1 DEF Truthful, Seen
<1>12. n > 0 => samples[n].elapsed \in Nat /\ samples[n].elapsed <= e /\ e <= samples[n].elapsed + Slowest /\ n \in 1..n
  BY <1>2, <1>3, LengthIs DEF Timely, Recent, LastStart, n
<1>13. n = 0 => e = 0
  BY <1>2, <1>3 DEF Timely, Recent, n
<1>14. Spaced'
  <2>1. samples'[1].elapsed = 0
    <3>1. CASE n = 0
      BY <1>8, <1>13, <3>1
    <3>2. CASE n > 0
      BY <1>3, <1>5, <1>7, <3>2 DEF Spaced, n
    <3> QED
      BY <1>5, <3>1, <3>2
  <2>2. ASSUME NEW i \in 1..(n + 1), i > 1
        PROVE  samples'[i - 1].elapsed <= samples'[i].elapsed /\ samples'[i].elapsed <= samples'[i - 1].elapsed + Slowest
    <3>1. CASE i \in 1..n
      <4>1. i - 1 \in 1..n
        BY <1>5, <2>2, <3>1
      <4>2. samples'[i - 1] = samples[i - 1] /\ samples'[i] = samples[i]
        BY <1>7, <3>1, <4>1
      <4> QED
        BY <1>3, <2>2, <3>1, <4>2 DEF Spaced, n
    <3>2. CASE i = n + 1
      <4>1. i - 1 = n /\ n > 0 /\ n \in 1..n
        BY <1>5, <2>2, <3>2
      <4>2. samples'[n] = samples[n]
        BY <1>7, <4>1
      <4> QED
        BY <1>8, <1>12, <3>2, <4>1, <4>2
    <3> QED
      BY <1>5, <3>1, <3>2
  <2> QED
    BY <1>7, <2>1, <2>2 DEF Spaced
<1>15. LastStart' = e /\ Len(samples') # 0
  BY <1>5, <1>7, <1>8 DEF LastStart
<1>16. Timely'
  <2>1. nextDue' <= e + Interval
    <3>1. nextDue <= e
      BY <1>2, <1>3 DEF Timely
    <3> QED
      BY <1>2, <1>5, <3>1, SlowestIs
  <2>2. now <= e + Slowest
    BY <1>5, <1>10, SlowestIs
  <2>3. monitor.at # "running" => monitor.stop <= now /\ monitor.stop <= e + Slowest
    BY <1>3, <1>5, <2>2, SlowestIs DEF Timely
  <2> QED
    BY <1>2, <1>4, <1>15, <2>1, <2>2, <2>3 DEF Timely, Recent
<1>17. Ending' /\ ReportIsHonest'
  BY <1>2, <1>3, <1>4 DEF Ending, ReportIsHonest
<1> QED
  BY <1>9, <1>11, <1>14, <1>16, <1>17 DEF MonitorInv

LEMMA MarkFailureKeeps == MonitorInv /\ MarkFailure => MonitorInv'
<1> SUFFICES ASSUME MonitorInv, MarkFailure PROVE MonitorInv'
  OBVIOUS
<1>1. /\ failedAt' = now /\ now' = now /\ truth' = truth /\ samples' = samples /\ nextDue' = nextDue
      /\ probe' = probe /\ monitor' = monitor /\ summary' = summary /\ monitor.at = "running"
  BY DEF MarkFailure
<1>2. Clock'
  BY <1>1 DEF MonitorInv, Clock
<1>3. Truthful' /\ Spaced' /\ Timely' /\ Ending'
  BY <1>1 DEF MonitorInv, Truthful, Seen, Spaced, Timely, Recent, LastStart, Ending
<1>4. ReportIsHonest'
  BY <1>1 DEF MonitorInv, Ending, ReportIsHonest
<1> QED
  BY <1>2, <1>3, <1>4 DEF MonitorInv

LEMMA StopMonitorKeeps == MonitorInv /\ StopMonitor => MonitorInv'
<1> SUFFICES ASSUME MonitorInv, StopMonitor PROVE MonitorInv'
  OBVIOUS
<1>1. /\ failedAt' = failedAt /\ now' = now /\ truth' = truth /\ samples' = samples /\ nextDue' = nextDue
      /\ probe' = probe /\ summary' = summary /\ monitor.at = "running"
      /\ monitor' = [at |-> "stopping", stop |-> now]
  BY DEF StopMonitor
<1>2. monitor'.at = "stopping" /\ monitor'.stop = now /\ now \in Nat
  BY <1>1 DEF MonitorInv, Clock
<1>3. Clock'
  BY <1>1, <1>2 DEF MonitorInv, Clock
<1>4. Truthful' /\ Spaced'
  BY <1>1 DEF MonitorInv, Truthful, Seen, Spaced
<1>5. Timely'
  BY <1>1, <1>2 DEF MonitorInv, Timely, Recent, LastStart
<1>6. Ending' /\ ReportIsHonest'
  BY <1>1, <1>2 DEF MonitorInv, Ending, ReportIsHonest
<1> QED
  BY <1>3, <1>4, <1>5, <1>6 DEF MonitorInv

\* An outage that lasts as long as the report promises is met by a sample.
LEMMA OutageIsSampled ==
  ASSUME MonitorInv, monitor.at = "stopping", ~probe.on, NEW a \in Nat,
         a + (Slowest + ProbeLimit - 1) <= monitor.stop, Always(FALSE, a, a + (Slowest + ProbeLimit - 1))
  PROVE  \E i \in 1..Len(samples) : samples[i].elapsed >= a /\ ~samples[i].available
<1> DEFINE n == Len(samples)
           At(i) == samples[i].elapsed
           Late == {i \in 1..n : At(i) >= a}
<1>1. Clock /\ Truthful /\ Spaced /\ Timely
  BY DEF MonitorInv
<1>2. n \in Nat /\ \A i \in 1..n : At(i) \in Nat /\ samples[i].available \in BOOLEAN
  BY <1>1, LengthIs, SampleIs
<1>3. monitor.stop \in Nat /\ Recent(monitor.stop) /\ monitor.stop <= now /\ now \in Nat
  BY <1>1 DEF Timely, Clock
<1>4. Late # {}
  <2> SUFFICES ASSUME Late = {} PROVE FALSE
    OBVIOUS
  <2>1. CASE n = 0
    BY <1>3, <2>1, SlowestIs DEF Recent
  <2>2. CASE n > 0
    <3>1. n \in 1..n /\ At(n) < a
      BY <1>2, <2>2
    <3>2. monitor.stop <= At(n) + Slowest
      BY <1>3, <2>2 DEF Recent, LastStart
    <3> QED
      BY <1>2, <1>3, <3>1, <3>2, SlowestIs
  <2> QED
    BY <1>2, <2>1, <2>2
<1>5. PICK i \in Late : \A j \in Late : i <= j
  <2>1. Late \subseteq Nat
    OBVIOUS
  <2> HIDE DEF Late
  <2> QED
    BY <1>4, <2>1, Least
<1>6. At(i) + ProbeLimit <= a + (Slowest + ProbeLimit - 1)
  <2>1. CASE i = 1
    BY <1>1, <1>2, <2>1, SlowestIs DEF Spaced
  <2>2. CASE i > 1
    <3>1. i - 1 \in 1..n /\ i - 1 \notin Late
      BY <1>2, <1>5, <2>2
    <3>2. At(i - 1) \in Nat /\ At(i - 1) < a /\ At(i) <= At(i - 1) + Slowest
      BY <1>1, <1>2, <2>2, <3>1 DEF Spaced
    <3> QED
      BY <1>2, <3>2, SlowestIs, SMTT(30)
  <2> QED
    BY <1>2, <2>1, <2>2
<1>7. PICK t \in At(i)..(At(i) + ProbeLimit) : t <= now /\ truth[t] = samples[i].available
  BY <1>1 DEF Truthful, Seen
<1>8. t \in a..(a + (Slowest + ProbeLimit - 1))
  BY <1>2, <1>6, <1>7, SlowestIs
<1>9. truth[t] = FALSE
  BY <1>8 DEF Always
<1> QED
  BY <1>5, <1>7, <1>9

LEMMA RecoveryIs ==
  ASSUME Clock
  PROVE  LET r == Recovery(samples, failedAt)
         IN /\ r.status = "outage" =>
                 \E i, j \in 1..Len(samples) :
                     /\ samples[j].available /\ failedAt + r.rto = samples[j].elapsed
                     /\ ~samples[i].available /\ r.first = samples[i].elapsed
            /\ (\E i \in 1..Len(samples) : samples[i].elapsed >= failedAt /\ ~samples[i].available) =>
                 r.status \in {"outage", "error"}
<1> DEFINE post == {i \in 1..Len(samples) : samples[i].elapsed >= failedAt}
           failed == {i \in post : ~samples[i].available}
           first == Min(failed)
           back == {i \in post : i > first /\ samples[i].available}
           r == Recovery(samples, failedAt)
<1>1. r = IF post = {} THEN [status |-> "error"]
          ELSE IF failed = {} THEN [status |-> "quiet", rto |-> 0]
          ELSE IF back = {} THEN [status |-> "error"]
          ELSE [status |-> "outage", rto |-> samples[Min(back)].elapsed - failedAt, first |-> samples[first].elapsed]
  BY DEF Recovery
<1>2. \A i \in post : i \in 1..Len(samples) /\ i \in Nat /\ samples[i].elapsed \in Nat
  BY SampleIs
<1>3. failedAt \in Nat
  BY DEF Clock
<1>4. failed \subseteq post /\ back \subseteq post /\ post \subseteq Nat
  BY <1>2
<1>5. failed # {} => first \in failed
  <2> HIDE DEF failed, post
  <2> QED
    BY <1>4, MinIs
<1>6. back # {} => Min(back) \in back
  <2> HIDE DEF back, post
  <2> QED
    BY <1>4, MinIs
<1>7. failed # {} => first \in post /\ ~samples[first].available
  BY <1>5
<1>8. back # {} => Min(back) \in post /\ samples[Min(back)].available
  BY <1>6
<1>9. (\E i \in 1..Len(samples) : samples[i].elapsed >= failedAt /\ ~samples[i].available) => failed # {}
  OBVIOUS
<1> HIDE DEF r, post, failed, back, first
<1>10. ASSUME r.status = "outage"
       PROVE  \E i, j \in 1..Len(samples) :
                  /\ samples[j].available /\ failedAt + r.rto = samples[j].elapsed
                  /\ ~samples[i].available /\ r.first = samples[i].elapsed
  <2>1. failed # {} /\ back # {}
    BY <1>1, <1>10
  <2>2. r.rto = samples[Min(back)].elapsed - failedAt /\ r.first = samples[first].elapsed
    BY <1>1, <1>10
  <2>3. failedAt + r.rto = samples[Min(back)].elapsed
    BY <1>2, <1>3, <1>8, <2>1, <2>2
  <2>4. Min(back) \in 1..Len(samples) /\ first \in 1..Len(samples)
    BY <1>2, <1>7, <1>8, <2>1
  <2> QED
    BY <1>7, <1>8, <2>1, <2>2, <2>3, <2>4
<1>11. failed # {} => r.status \in {"outage", "error"}
  BY <1>1
<1> QED
  BY <1>9, <1>10, <1>11 DEF r

LEMMA SummarizeKeeps == MonitorInv /\ Summarize => MonitorInv'
<1> SUFFICES ASSUME MonitorInv, Summarize PROVE MonitorInv'
  OBVIOUS
<1> DEFINE Wrong == samples = <<>> \/ (failedAt # Unmarked /\ Recovery(samples, failedAt).status = "error")
           rec == IF failedAt = Unmarked THEN [status |-> "none"] ELSE Recovery(samples, failedAt)
           out == Outage(samples, now)
           long == Slowest + ProbeLimit - 1
<1>1. /\ monitor.at = "stopping" /\ ~probe.on /\ monitor' = [monitor EXCEPT !.at = "stopped"]
      /\ now' = now /\ truth' = truth /\ samples' = samples /\ probe' = probe /\ nextDue' = nextDue /\ failedAt' = failedAt
  BY DEF Summarize
<1>2. summary' = IF Wrong THEN [status |-> "error"]
                 ELSE [status |-> "report", outage |-> out, gap |-> Gap(samples), recovery |-> rec]
  BY DEF Summarize
<1>3. Clock /\ Truthful /\ Spaced /\ Timely
  BY DEF MonitorInv
<1>4. /\ monitor'.at = "stopped" /\ monitor'.stop = monitor.stop
      /\ monitor' \in [at : {"running", "stopping", "stopped"}, stop : Nat]
  BY <1>1, <1>3 DEF Clock
<1>5. Clock' /\ Truthful' /\ Spaced' /\ Ending'
  BY <1>1, <1>3, <1>4 DEF Clock, Truthful, Seen, Spaced, Ending
<1>6. Timely'
  BY <1>1, <1>3, <1>4 DEF Timely, Recent, LastStart
<1> HIDE DEF Wrong, rec, out
<1>7. CASE Wrong
  <2>1. summary'.status # "report"
    BY <1>2, <1>7
  <2> QED
    BY <1>5, <1>6, <2>1 DEF MonitorInv, ReportIsHonest
<1>8. CASE ~Wrong
  <2>1. summary' = [status |-> "report", outage |-> out, gap |-> Gap(samples), recovery |-> rec]
    BY <1>2, <1>8
  <2>2. summary'.outage = out /\ summary'.recovery = rec
    BY <2>1
  <2>3. ASSUME NEW e \in Nat, NEW v, Seen(e, v) PROVE Was(v, e, e + ProbeLimit)
    <3>1. PICK t \in e..(e + ProbeLimit) : t <= now /\ truth[t] = v
      BY <2>3 DEF Seen
    <3>2. t \in DOMAIN truth
      BY <1>3, <3>1, SlowestIs DEF Clock
    <3> QED
      BY <3>1, <3>2 DEF Was
  <2>4. ASSUME rec.status = "outage"
        PROVE  Was(TRUE, failedAt + rec.rto, failedAt + rec.rto + ProbeLimit) /\ Was(FALSE, rec.first, rec.first + ProbeLimit)
    <3>1. rec = Recovery(samples, failedAt)
      BY <2>4 DEF rec
    <3>2. PICK i, j \in 1..Len(samples) :
             /\ samples[j].available /\ failedAt + rec.rto = samples[j].elapsed
             /\ ~samples[i].available /\ rec.first = samples[i].elapsed
      BY <1>3, <2>4, <3>1, RecoveryIs
    <3>3. /\ samples[i].elapsed \in Nat /\ samples[j].elapsed \in Nat
          /\ samples[i].available = FALSE /\ samples[j].available = TRUE
      BY <1>3, <3>2, SampleIs
    <3>4. Seen(samples[i].elapsed, FALSE) /\ Seen(samples[j].elapsed, TRUE)
      BY <1>3, <3>3 DEF Truthful
    <3> QED
      BY <2>3, <3>2, <3>3, <3>4
  <2>5. ASSUME NEW a \in 0..now, failedAt <= a, a + long <= monitor.stop, Always(FALSE, a, a + long)
        PROVE  rec.status = "outage"
    <3>0. a \in Nat
      BY <1>3 DEF Clock
    <3>1. PICK i \in 1..Len(samples) : samples[i].elapsed >= a /\ ~samples[i].available
      BY <1>1, <2>5, <3>0, OutageIsSampled, Zenon
    <3>2. samples[i].elapsed \in Nat /\ failedAt \in Nat /\ now <= MaxTicks /\ now \in Nat
      BY <1>3, SampleIs DEF Clock
    <3>3. samples[i].elapsed >= failedAt /\ failedAt # Unmarked
      BY <2>5, <3>1, <3>2, SlowestIs DEF Unmarked
    <3>4. rec = Recovery(samples, failedAt) /\ rec.status # "error"
      BY <1>8, <3>3 DEF rec, Wrong
    <3> QED
      BY <1>3, <3>1, <3>3, <3>4, RecoveryIs
  <2>6. out.total = SumOf(Shares(samples, now), Len(samples))[Len(samples)] /\ out.longest <= out.total
    <3>1. InTime(samples, now)
      BY <1>3 DEF Truthful, Spaced, InTime
    <3>2. samples \in Seq(Taken) /\ now \in Nat /\ now <= MaxTicks
      BY <1>3 DEF Clock
    <3> QED
      BY <3>1, <3>2, OutageAddsUp DEF out
  <2>7. ReportIsHonest'
    <3>1. SumOf(Shares(samples, now), Len(samples))[Len(samples)] =
            SumOf([i \in 1..Len(samples) |->
                      IF samples[i].available THEN 0
                      ELSE (IF i = Len(samples) THEN now ELSE samples[i + 1].elapsed) - samples[i].elapsed],
                  Len(samples))[Len(samples)]
      BY DEF Shares, After
    <3> QED
      BY <1>1, <1>4, <2>2, <2>4, <2>5, <2>6, <3>1 DEF ReportIsHonest, Slowest, Was, Always
  <2> QED
    BY <1>5, <1>6, <2>7 DEF MonitorInv
<1> QED
  BY <1>7, <1>8

LEMMA MonitorInvKept == MonitorInv /\ [AvailabilityNext]_availabilityVars => MonitorInv'
<1> SUFFICES ASSUME MonitorInv, [AvailabilityNext]_availabilityVars PROVE MonitorInv'
  OBVIOUS
<1>1. CASE UNCHANGED availabilityVars
  BY <1>1 DEF availabilityVars, MonitorInv, Clock, Truthful, Seen, Spaced, Timely, Recent, LastStart, Ending,
              ReportIsHonest, Was, Always
<1> QED
  BY <1>1, PassTimeKeeps, BeginSampleKeeps, EndSampleKeeps, MarkFailureKeeps, StopMonitorKeeps, SummarizeKeeps
     DEF AvailabilityNext

\* A report of the availability monitor is honest: an outage after the mark that
\* lasts an interval (or a probe timeout, if longer) and a probe timeout is in it,
\* a recovery time brackets a moment at which the service was really up after one
\* at which it was really down, and the measured outage is the time from every
\* failed sample to the next: for every interval, every probe timeout, any length
\* of the run and any course of the service.
THEOREM ReportStaysHonest == AvailabilitySpec => []ReportIsHonest
<1>1. AvailabilityInit => MonitorInv
  BY MonitorInvInit
<1>2. MonitorInv /\ [AvailabilityNext]_availabilityVars => MonitorInv'
  BY MonitorInvKept
<1>3. MonitorInv => ReportIsHonest
  BY DEF MonitorInv
<1> QED
  BY <1>1, <1>2, <1>3, PTL DEF AvailabilitySpec

=============================================================================
