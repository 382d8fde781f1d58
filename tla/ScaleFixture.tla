---------------------------- MODULE ScaleFixture ----------------------------
(***************************************************************************)
(* The deterministic benchmark fixture (scripts/performance/               *)
(* domain_scale.py): generators write two CSV files and then a manifest    *)
(* into one directory, each by an atomic replace of its own; loaders       *)
(* accept the three files only when the manifest binds them; the plan gate *)
(* reads the EXPLAIN files the benchmark left.  Nothing locks the          *)
(* directory, so generators of two profiles may overlap, and each may die  *)
(* between two writes.                                                     *)
(***************************************************************************)
EXTENDS Naturals, FiniteSetsExt

CONSTANTS Generators,        \* concurrent runs of the generator
          Profiles,          \* the profiles of the scale configuration
          NodeCount,         \* profile -> rows of its node file
          EdgeCount,         \* profile -> rows of its edge file
          EnforcedProfiles,  \* the profiles whose plan budget is enforced
          Plans,             \* the plans PostgreSQL may choose: sets of plan nodes
          MaxTempBlocks,     \* the temporary-block budget
          MaxGenerations     \* bound: generator starts

\* Two profiles of the configuration differ in their row counts
\* (configs/performance/domain-scale.v1.json).
ASSUME FixtureAssumption ==
    /\ NodeCount \in [Profiles -> Nat \ {0}] /\ EdgeCount \in [Profiles -> Nat \ {0}]
    /\ \A p, q \in Profiles : p # q => NodeCount[p] # NodeCount[q] /\ EdgeCount[p] # EdgeCount[q]
    /\ EnforcedProfiles \subseteq Profiles

VARIABLES nodesFile,     \* the content of domain_nodes.csv (a profile's rows) or NoRows
          edgesFile,     \* the content of domain_edges.csv, or NoRows
          manifest,      \* manifest.json, or NoManifest
          generator,     \* per generator: where it stands, its profile, the hashes it took
          generations,   \* generators started so far
          planFile,      \* the plan in the EXPLAIN output, {} before there is one
          planReport     \* the verdict of the last plan check

fixtureVars == <<nodesFile, edgesFile, manifest, generator, generations, planFile, planReport>>

NoRows == [of |-> "none", rows |-> 0]
NoManifest == [profile |-> "none", nodeCount |-> 0, edgeCount |-> 0, nodes |-> NoRows, edges |-> NoRows]
Idle == [at |-> "idle"]

\* Node rows and edge rows are functions of seed, profile and count, so a
\* file is identified by its profile; its hash is the file itself.
NodeRows(p) == [of |-> p, rows |-> NodeCount[p]]
EdgeRows(p) == [of |-> p, rows |-> EdgeCount[p]]

FixtureInit ==
    /\ nodesFile = NoRows /\ edgesFile = NoRows /\ manifest = NoManifest
    /\ generator = [g \in Generators |-> Idle] /\ generations = 0
    /\ planFile = {} /\ planReport = "none"

GenerateStart(g, p) ==
    /\ generator[g].at = "idle" /\ generations < MaxGenerations
    /\ generations' = generations + 1
    /\ generator' = [generator EXCEPT ![g] = [at |-> "nodes", profile |-> p]]
    /\ UNCHANGED <<nodesFile, edgesFile, manifest, planFile, planReport>>

GenerateNodes(g) ==
    /\ generator[g].at = "nodes"
    /\ nodesFile' = NodeRows(generator[g].profile)
    /\ generator' = [generator EXCEPT ![g].at = "edges"]
    /\ UNCHANGED <<edgesFile, manifest, generations, planFile, planReport>>

GenerateEdges(g) ==
    /\ generator[g].at = "edges"
    /\ edgesFile' = EdgeRows(generator[g].profile)
    /\ generator' = [generator EXCEPT ![g].at = "hash"]
    /\ UNCHANGED <<nodesFile, manifest, generations, planFile, planReport>>

\* The manifest hashes the files as they are on disk now, whoever wrote them.
HashFiles(g) ==
    /\ generator[g].at = "hash"
    /\ generator' = [generator EXCEPT ![g] =
          [at |-> "manifest", profile |-> generator[g].profile,
           nodes |-> nodesFile, edges |-> edgesFile]]
    /\ UNCHANGED <<nodesFile, edgesFile, manifest, generations, planFile, planReport>>

WriteManifest(g) ==
    /\ generator[g].at = "manifest"
    /\ LET p == generator[g].profile IN
       manifest' = [profile |-> p, nodeCount |-> NodeCount[p], edgeCount |-> EdgeCount[p],
                    nodes |-> generator[g].nodes, edges |-> generator[g].edges]
    /\ generator' = [generator EXCEPT ![g] = Idle]
    /\ UNCHANGED <<nodesFile, edgesFile, generations, planFile, planReport>>

\* A generator is killed: what it replaced stays, its temporary file does not count.
GeneratorDies(g) ==
    /\ generator[g].at # "idle"
    /\ generator' = [generator EXCEPT ![g] = Idle]
    /\ UNCHANGED <<nodesFile, edgesFile, manifest, generations, planFile, planReport>>

HashesMatchOnly ==
    /\ nodesFile # NoRows /\ edgesFile # NoRows
    /\ nodesFile = manifest.nodes /\ edgesFile = manifest.edges

\* load_manifest: both files are there, have the recorded hash and the recorded rows.
FilesMatch ==
    /\ nodesFile # NoRows /\ edgesFile # NoRows
    /\ nodesFile = manifest.nodes /\ edgesFile = manifest.edges
    /\ nodesFile.rows = manifest.nodeCount /\ edgesFile.rows = manifest.edgeCount

\* bind_manifest_to_config: a known profile with the configured counts.
BoundToConfig ==
    /\ manifest.profile \in Profiles
    /\ manifest.nodeCount = NodeCount[manifest.profile]
    /\ manifest.edgeCount = EdgeCount[manifest.profile]

LoadBoundManifest == manifest # NoManifest /\ FilesMatch /\ BoundToConfig

\* The workload runs on an accepted fixture and leaves the plan PostgreSQL chose.
RunWorkload ==
    /\ LoadBoundManifest
    /\ planFile' \in Plans
    /\ UNCHANGED <<nodesFile, edgesFile, manifest, generator, generations, planReport>>

\* A plan node proves the index when that one node names the index, ran, and
\* carries every required identifier in its own index condition.
IndexEvidence(plan) ==
    {n \in plan : n.index /\ n.loops > 0 /\ n.condition}
TempBlocks(plan) == MapThenSumSet(LAMBDA n : n.temp, plan)
CheckPlans(p) ==
    /\ planFile # {}
    /\ LET fails == \/ \E n \in planFile : n.forbidden
                    \/ IndexEvidence(planFile) = {}
                    \/ TempBlocks(planFile) > MaxTempBlocks
       IN planReport' = IF p \in EnforcedProfiles /\ fails THEN "fail" ELSE "pass"
    /\ UNCHANGED <<nodesFile, edgesFile, manifest, generator, generations, planFile>>

Generate(g) ==
    \/ \E p \in Profiles : GenerateStart(g, p)
    \/ GenerateNodes(g) \/ GenerateEdges(g) \/ HashFiles(g) \/ WriteManifest(g)
    \/ GeneratorDies(g)

FixtureNext ==
    \/ \E g \in Generators : Generate(g)
    \/ RunWorkload
    \/ \E p \in Profiles : CheckPlans(p)

FixtureSpec == FixtureInit /\ [][FixtureNext]_fixtureVars

(***************************************************************************)
(* Properties                                                              *)
(***************************************************************************)

\* A manifest that the loaders accept describes files of its own profile,
\* whatever generators overlapped in the directory or died in it: the hashes
\* alone would accept a manifest that hashed another generator's files
\* (load_manifest, bind_manifest_to_config).
FixtureIsOneProfile ==
    LoadBoundManifest => /\ nodesFile = NodeRows(manifest.profile)
                         /\ edgesFile = EdgeRows(manifest.profile)

=============================================================================
