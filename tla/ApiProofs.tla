----------------------------- MODULE ApiProofs ------------------------------
(***************************************************************************)
(* Theorems about two parts of the API: the deletion of a node from the    *)
(* JSONL files, for any nodes, Faeden and number of mishaps, and the web   *)
(* push hints, for any devices, hints, delivery loops and limits.          *)
(***************************************************************************)
EXTENDS NodeDeleteJournal, WebPush, FiniteSetTheorems, SequenceTheorems, TLAPS

(***************************************************************************)
(* Node deletion.  Every state of the two files, their rewrites and their  *)
(* backups stands for one pair of files: what a rollback will leave while  *)
(* the journal does not say "node_swapped" (the backups, where there are   *)
(* any), and the swapped files from then on.  Sound says that a pair keeps *)
(* the promise; Fits says, for each phase of the journal and each step of  *)
(* a delete, a rollback or a recovery, that the pair it stands for is      *)
(* sound and that what the next steps need is on the disk.  A step that    *)
(* fails after its effect is the step and then the failure, so the two are *)
(* separate lemmas about Fits.                                             *)
(***************************************************************************)

NodeFile == {f \in [there : BOOLEAN, ids : SUBSET NodeIds] : ~f.there => f.ids = {}}
EdgeFile == {f \in [there : BOOLEAN, ids : SUBSET EdgeIds] : ~f.there => f.ids = {}}
Disk == [nodes : NodeFile, nodeTmp : NodeFile, nodeBak : NodeFile,
         edges : EdgeFile, edgeTmp : EdgeFile, edgeBak : EdgeFile]

Undo == {"undoTmp", "undoNode", "restoreNode", "undoEdge", "restoreEdge"}
Commit == {"commitTmp", "commitNodeBackup", "commitEdgeBackup"}
Phases == {"none", "prepared", "backups_created", "edge_swapped", "node_swapped"}
Journals == {j \in [phase : Phases, existed : BOOLEAN] : j.phase = "none" => j = NoJournalFile}
Deletions == {NoDeletion} \cup
             [at : Forward \cup Cleanup \cup Undo \cup Commit \cup {"removeJournal"},
              for : {"delete", "error", "start"}, node : NodeIds \cup {NoNode}, existed : BOOLEAN]

\* What DeleteIsAtomic promises of the nodes N and the Faeden E, if k are the
\* records kept, g the nodes that may be gone and x the records exposed.
Sound(N, E, g, k, x) ==
    /\ \A n \in (k \cap NodeIds) \ x :
         IF n \in N THEN (k \cap FadenOf(n)) \ x \subseteq E
         ELSE n \in g /\ E \cap FadenOf(n) \subseteq x
    /\ \A e \in E \ x : NodeOf[e] \in N \cup x

\* What a rollback leaves.
OldNodes(d) == IF d.nodeBak.there THEN d.nodeBak.ids ELSE d.nodes.ids
OldEdges(d, existed) == IF ~existed THEN {} ELSE IF d.edgeBak.there THEN d.edgeBak.ids ELSE d.edges.ids

\* Nothing has been moved, or everything is back.
FitsNoJournal(d, del, k, b, x) ==
    /\ del.at \in {"idle", "prepare", "sayPrepared", "removeJournal"} \cup Undo
    /\ d.nodes.there /\ ~d.nodeBak.there /\ ~d.edgeBak.there
    /\ del.at # "idle" => (del.existed <=> d.edges.there)
    /\ Sound(d.nodes.ids, d.edges.ids, b, k, x)

\* The journal calls for a rollback.
Early == {"prepared", "backups_created", "edge_swapped"}
FitsRollback(d, j, del, k, b, x) ==
    /\ d.nodes.there \/ d.nodeBak.there
    /\ j.existed => d.edges.there \/ d.edgeBak.there
    /\ del.at # "idle" => del.existed = j.existed
    /\ del.at \notin {"prepare", "sayPrepared"} \cup Commit \cup Cleanup
    /\ del.at \in {"edgeBackup", "nodeBackup", "sayBackups"} => j.phase = "prepared"
    /\ del.at \in {"edgeSwap", "sayEdge"} => j.phase = "backups_created"
    /\ del.at \in {"nodeSwap", "sayNode"} => j.phase = "edge_swapped"
    /\ Sound(OldNodes(d), OldEdges(d, j.existed), b, k, x)

\* The journal says that both files are swapped.
FitsCommit(d, del, k, b, x) ==
    /\ del.at \in {"idle", "removeJournal"} \cup Commit \cup Cleanup
    /\ d.nodes.there /\ d.edges.there
    /\ del.at \in {"commitEdgeBackup", "dropEdgeBackup", "removeJournal", "dropJournal"} => ~d.nodeBak.there
    /\ del.at \in {"removeJournal", "dropJournal"} => ~d.edgeBak.there
    /\ Sound(d.nodes.ids, d.edges.ids, b \cup (IF del.at \in Cleanup THEN {del.node} ELSE {}), k, x)

\* A rollback puts the nodes back first.
FitsUndo(d, del) ==
    /\ del.at \in {"undoEdge", "restoreEdge", "removeJournal"} => d.nodes.there /\ ~d.nodeBak.there
    /\ del.at \in {"restoreEdge", "removeJournal"} => (del.existed \/ ~d.edges.there)
    /\ del.at = "removeJournal" => ~d.edgeBak.there

\* A delete on its way: what is rewritten, set aside and swapped.
FitsForward(d, del) ==
    /\ del.at \in {"sayPrepared", "edgeBackup", "nodeBackup", "sayBackups", "edgeSwap", "sayEdge", "nodeSwap"} =>
         d.nodeTmp.there /\ d.nodeTmp.ids = OldNodes(d) \ {del.node}
    /\ del.at \in {"sayPrepared", "edgeBackup", "nodeBackup", "sayBackups", "edgeSwap"} =>
         d.edgeTmp.there /\ d.edgeTmp.ids = OldEdges(d, del.existed) \ FadenOf(del.node)
    /\ del.at \in {"edgeBackup", "nodeBackup"} => ~d.nodeBak.there
    /\ del.at = "edgeBackup" => ~d.edgeBak.there
    /\ del.at \in {"nodeBackup", "sayBackups", "edgeSwap", "sayEdge", "nodeSwap", "sayNode"} =>
         (del.existed => d.edgeBak.there)
    /\ del.at \in {"sayBackups", "edgeSwap", "sayEdge", "nodeSwap", "sayNode"} => d.nodeBak.there
    /\ del.at \in {"sayEdge", "nodeSwap", "sayNode"} =>
         d.edges.there /\ d.edges.ids = OldEdges(d, del.existed) \ FadenOf(del.node)
    /\ del.at = "sayNode" => d.nodes.there /\ d.nodes.ids = OldNodes(d) \ {del.node}

Fits(d, j, del, k, b, x) ==
    /\ j.phase = "none" => FitsNoJournal(d, del, k, b, x)
    /\ j.phase \in Early => FitsRollback(d, j, del, k, b, x)
    /\ j.phase = "node_swapped" => FitsCommit(d, del, k, b, x)
    /\ j.phase # "node_swapped" => FitsUndo(d, del) /\ FitsForward(d, del)

\* Only a delete goes forward, and only for a node.
DeletesAreOfNodes ==
    /\ deletion.at \in Forward \cup Cleanup => deletion.for = "delete"
    /\ deletion.for \in {"delete", "error"} => deletion.node \in NodeIds

JournalTypes == disk \in Disk /\ journal \in Journals /\ deletion \in Deletions

\* A Faden that is not exposed was created on a node.
NodesWereCreated ==
    /\ disk.nodes.ids \cup disk.nodeTmp.ids \cup disk.nodeBak.ids \subseteq used
    /\ \A e \in (kept \cap EdgeIds) \ exposed : NodeOf[e] \in used

JournalInv ==
    /\ JournalTypes /\ DeletesAreOfNodes /\ NodesWereCreated
    /\ ~undone => Fits(disk, journal, deletion, kept, begun, exposed)

-----------------------------------------------------------------------------
(* Pairs of files that keep the promise *)

\* What happens to exposed records does not count.
LEMMA SoundModulo ==
  ASSUME NEW N, NEW E, NEW g, NEW k, NEW x, Sound(N, E, g, k, x),
         NEW N2, NEW E2, NEW g2, NEW k2, NEW x2,
         x \subseteq x2, g \subseteq g2, k2 \subseteq k \cup x2, N2 \ x2 = N \ x2, E2 \ x2 = E \ x2
  PROVE  Sound(N2, E2, g2, k2, x2)
<1>1. ASSUME NEW n \in (k2 \cap NodeIds) \ x2
      PROVE  IF n \in N2 THEN (k2 \cap FadenOf(n)) \ x2 \subseteq E2
             ELSE n \in g2 /\ E2 \cap FadenOf(n) \subseteq x2
  <2>1. n \in (k \cap NodeIds) \ x /\ (n \in N2 <=> n \in N)
    OBVIOUS
  <2>2. IF n \in N THEN (k \cap FadenOf(n)) \ x \subseteq E
        ELSE n \in g /\ E \cap FadenOf(n) \subseteq x
    BY <2>1 DEF Sound
  <2> QED
    BY <2>1, <2>2
<1>2. ASSUME NEW e \in E2 \ x2
      PROVE  NodeOf[e] \in N2 \cup x2
  <2>1. e \in E \ x
    OBVIOUS
  <2>2. NodeOf[e] \in N \cup x
    BY <2>1 DEF Sound
  <2> QED
    BY <2>2
<1> QED
  BY <1>1, <1>2 DEF Sound

\* A node whose delete was acknowledged need not be there.
LEMMA SoundAcknowledged ==
  ASSUME NEW N, NEW E, NEW g, NEW k, NEW x, NEW n, Sound(N, E, g \cup {n}, k, x)
  PROVE  Sound(N, E, g, k \ ({n} \cup FadenOf(n)), x)
<1> DEFINE k2 == k \ ({n} \cup FadenOf(n))
<1>1. ASSUME NEW m \in (k2 \cap NodeIds) \ x
      PROVE  IF m \in N THEN (k2 \cap FadenOf(m)) \ x \subseteq E
             ELSE m \in g /\ E \cap FadenOf(m) \subseteq x
  <2>1. m # n /\ m \in (k \cap NodeIds) \ x
    OBVIOUS
  <2>2. IF m \in N THEN (k \cap FadenOf(m)) \ x \subseteq E
        ELSE m \in g \cup {n} /\ E \cap FadenOf(m) \subseteq x
    BY <2>1 DEF Sound
  <2> QED
    BY <2>1, <2>2
<1>2. \A e \in E \ x : NodeOf[e] \in N \cup x
  BY DEF Sound
<1> QED
  BY <1>1, <1>2 DEF Sound

\* The rewritten files are sound once the node may be gone.
LEMMA SoundSwapped ==
  ASSUME NEW N, NEW E \in SUBSET EdgeIds, NEW g, NEW k, NEW x, NEW n, Sound(N, E, g, k, x)
  PROVE  Sound(N \ {n}, E \ FadenOf(n), g \cup {n}, k, x)
<1>1. ASSUME NEW m \in (k \cap NodeIds) \ x
      PROVE  IF m \in N \ {n} THEN (k \cap FadenOf(m)) \ x \subseteq E \ FadenOf(n)
             ELSE m \in g \cup {n} /\ (E \ FadenOf(n)) \cap FadenOf(m) \subseteq x
  <2>1. IF m \in N THEN (k \cap FadenOf(m)) \ x \subseteq E
        ELSE m \in g /\ E \cap FadenOf(m) \subseteq x
    BY DEF Sound
  <2>2. m # n => FadenOf(m) \cap FadenOf(n) = {}
    BY DEF FadenOf
  <2> QED
    BY <2>1, <2>2
<1>2. ASSUME NEW e \in (E \ FadenOf(n)) \ x
      PROVE  NodeOf[e] \in (N \ {n}) \cup x
  <2>1. NodeOf[e] \in N \cup x
    BY DEF Sound
  <2>2. NodeOf[e] # n
    BY DEF FadenOf
  <2> QED
    BY <2>1, <2>2
<1> QED
  BY <1>1, <1>2 DEF Sound

\* A new node has no Faden that counts.
LEMMA SoundNewNode ==
  ASSUME NEW N, NEW E, NEW g, NEW k, NEW x, NEW n, Sound(N, E, g, k, x),
         (k \cap FadenOf(n)) \ x = {}, n \notin EdgeIds
  PROVE  Sound(N \cup {n}, E, g, k \cup {n}, x)
<1>0. \A m : n \notin FadenOf(m)
  BY DEF FadenOf
<1>1. ASSUME NEW m \in ((k \cup {n}) \cap NodeIds) \ x
      PROVE  IF m \in N \cup {n} THEN ((k \cup {n}) \cap FadenOf(m)) \ x \subseteq E
             ELSE m \in g /\ E \cap FadenOf(m) \subseteq x
  <2>1. (k \cup {n}) \cap FadenOf(m) = k \cap FadenOf(m)
    BY <1>0
  <2>2. CASE m = n
    BY <2>1, <2>2
  <2>3. CASE m # n
    <3>1. m \in (k \cap NodeIds) \ x
      BY <2>3
    <3> QED
      BY <2>1, <2>3, <3>1 DEF Sound
  <2> QED
    BY <2>2, <2>3
<1>2. \A e \in E \ x : NodeOf[e] \in (N \cup {n}) \cup x
  BY DEF Sound
<1> QED
  BY <1>1, <1>2 DEF Sound

\* A new Faden on a node that is there.
LEMMA SoundNewFaden ==
  ASSUME NEW N, NEW E, NEW g, NEW k, NEW x, NEW f \in EdgeIds, Sound(N, E, g, k, x), NodeOf[f] \in N
  PROVE  Sound(N, E \cup {f}, g, k \cup {f}, x)
<1>0. f \notin NodeIds
  BY JournalAssumption
<1>1. ASSUME NEW m \in ((k \cup {f}) \cap NodeIds) \ x
      PROVE  IF m \in N THEN ((k \cup {f}) \cap FadenOf(m)) \ x \subseteq E \cup {f}
             ELSE m \in g /\ (E \cup {f}) \cap FadenOf(m) \subseteq x
  <2>1. m \in (k \cap NodeIds) \ x
    BY <1>0
  <2>2. IF m \in N THEN (k \cap FadenOf(m)) \ x \subseteq E
        ELSE m \in g /\ E \cap FadenOf(m) \subseteq x
    BY <2>1 DEF Sound
  <2>3. m \notin N => f \notin FadenOf(m)
    BY DEF FadenOf
  <2> QED
    BY <2>2, <2>3
<1>2. ASSUME NEW e \in (E \cup {f}) \ x
      PROVE  NodeOf[e] \in N \cup x
  BY DEF Sound
<1> QED
  BY <1>1, <1>2 DEF Sound

-----------------------------------------------------------------------------
(* What the steps leave on the disk *)

LEMMA Files ==
  ASSUME disk \in Disk
  PROVE  /\ disk.nodes \in NodeFile /\ disk.nodeTmp \in NodeFile /\ disk.nodeBak \in NodeFile
         /\ disk.edges \in EdgeFile /\ disk.edgeTmp \in EdgeFile /\ disk.edgeBak \in EdgeFile
         /\ MissingFile \in NodeFile /\ MissingFile \in EdgeFile
         /\ ~MissingFile.there /\ MissingFile.ids = {}
         /\ \A ids \in SUBSET NodeIds : FileOf(ids) \in NodeFile
         /\ \A ids \in SUBSET EdgeIds : FileOf(ids) \in EdgeFile
         /\ \A ids : FileOf(ids).there /\ FileOf(ids).ids = ids
  BY DEF Disk, NodeFile, EdgeFile, MissingFile, FileOf

\* The six files of a disk.
Layout(d, nodes, nodeTmp, nodeBak, edges, edgeTmp, edgeBak) ==
    /\ d \in Disk
    /\ d.nodes = nodes /\ d.nodeTmp = nodeTmp /\ d.nodeBak = nodeBak
    /\ d.edges = edges /\ d.edgeTmp = edgeTmp /\ d.edgeBak = edgeBak

LEMMA NodeFiles ==
  ASSUME disk \in Disk
  PROVE  /\ Layout(Renamed("nodes", "nodeBak"),
                   MissingFile, disk.nodeTmp, disk.nodes, disk.edges, disk.edgeTmp, disk.edgeBak)
         /\ Layout(Renamed("nodeTmp", "nodes"),
                   disk.nodeTmp, MissingFile, disk.nodeBak, disk.edges, disk.edgeTmp, disk.edgeBak)
         /\ Layout(Renamed("nodeBak", "nodes"),
                   disk.nodeBak, disk.nodeTmp, MissingFile, disk.edges, disk.edgeTmp, disk.edgeBak)
         /\ Layout(WithoutFile("nodes"),
                   MissingFile, disk.nodeTmp, disk.nodeBak, disk.edges, disk.edgeTmp, disk.edgeBak)
         /\ Layout(WithoutFile("nodeBak"),
                   disk.nodes, disk.nodeTmp, MissingFile, disk.edges, disk.edgeTmp, disk.edgeBak)
<1> USE Files DEF Disk, Layout
<1>1. Layout(Renamed("nodes", "nodeBak"),
             MissingFile, disk.nodeTmp, disk.nodes, disk.edges, disk.edgeTmp, disk.edgeBak)
  BY DEF Renamed
<1>2. Layout(Renamed("nodeTmp", "nodes"),
             disk.nodeTmp, MissingFile, disk.nodeBak, disk.edges, disk.edgeTmp, disk.edgeBak)
  BY DEF Renamed
<1>3. Layout(Renamed("nodeBak", "nodes"),
             disk.nodeBak, disk.nodeTmp, MissingFile, disk.edges, disk.edgeTmp, disk.edgeBak)
  BY DEF Renamed
<1>4. Layout(WithoutFile("nodes"),
             MissingFile, disk.nodeTmp, disk.nodeBak, disk.edges, disk.edgeTmp, disk.edgeBak)
  BY DEF WithoutFile
<1>5. Layout(WithoutFile("nodeBak"),
             disk.nodes, disk.nodeTmp, MissingFile, disk.edges, disk.edgeTmp, disk.edgeBak)
  BY DEF WithoutFile
<1> QED
  BY <1>1, <1>2, <1>3, <1>4, <1>5

LEMMA EdgeFiles ==
  ASSUME disk \in Disk
  PROVE  /\ Layout(Renamed("edges", "edgeBak"),
                   disk.nodes, disk.nodeTmp, disk.nodeBak, MissingFile, disk.edgeTmp, disk.edges)
         /\ Layout(Renamed("edgeTmp", "edges"),
                   disk.nodes, disk.nodeTmp, disk.nodeBak, disk.edgeTmp, MissingFile, disk.edgeBak)
         /\ Layout(Renamed("edgeBak", "edges"),
                   disk.nodes, disk.nodeTmp, disk.nodeBak, disk.edgeBak, disk.edgeTmp, MissingFile)
         /\ Layout(WithoutFile("edges"),
                   disk.nodes, disk.nodeTmp, disk.nodeBak, MissingFile, disk.edgeTmp, disk.edgeBak)
         /\ Layout(WithoutFile("edgeBak"),
                   disk.nodes, disk.nodeTmp, disk.nodeBak, disk.edges, disk.edgeTmp, MissingFile)
         /\ Layout([disk EXCEPT !.nodeTmp = MissingFile, !.edgeTmp = MissingFile],
                   disk.nodes, MissingFile, disk.nodeBak, disk.edges, MissingFile, disk.edgeBak)
<1> USE Files DEF Disk, Layout
<1>1. Layout(Renamed("edges", "edgeBak"),
             disk.nodes, disk.nodeTmp, disk.nodeBak, MissingFile, disk.edgeTmp, disk.edges)
  BY DEF Renamed
<1>2. Layout(Renamed("edgeTmp", "edges"),
             disk.nodes, disk.nodeTmp, disk.nodeBak, disk.edgeTmp, MissingFile, disk.edgeBak)
  BY DEF Renamed
<1>3. Layout(Renamed("edgeBak", "edges"),
             disk.nodes, disk.nodeTmp, disk.nodeBak, disk.edgeBak, disk.edgeTmp, MissingFile)
  BY DEF Renamed
<1>4. Layout(WithoutFile("edges"),
             disk.nodes, disk.nodeTmp, disk.nodeBak, MissingFile, disk.edgeTmp, disk.edgeBak)
  BY DEF WithoutFile
<1>5. Layout(WithoutFile("edgeBak"),
             disk.nodes, disk.nodeTmp, disk.nodeBak, disk.edges, disk.edgeTmp, MissingFile)
  BY DEF WithoutFile
<1>6. Layout([disk EXCEPT !.nodeTmp = MissingFile, !.edgeTmp = MissingFile],
             disk.nodes, MissingFile, disk.nodeBak, disk.edges, MissingFile, disk.edgeBak)
  OBVIOUS
<1> QED
  BY <1>1, <1>2, <1>3, <1>4, <1>5, <1>6

LEMMA RewrittenFiles ==
  ASSUME disk \in Disk, NEW n
  PROVE  Layout(RewrittenFor(n), disk.nodes, FileOf(disk.nodes.ids \ {n}), disk.nodeBak,
                disk.edges, FileOf(disk.edges.ids \ FadenOf(n)), disk.edgeBak)
<1>1. disk.nodes.ids \ {n} \in SUBSET NodeIds /\ disk.edges.ids \ FadenOf(n) \in SUBSET EdgeIds
  BY Files DEF NodeFile, EdgeFile
<1> QED
  BY <1>1, Files DEF Disk, Layout, RewrittenFor

-----------------------------------------------------------------------------
(* Steps of a delete, a rollback and a recovery *)

\* What StepWrites does at each step.
LEMMA Writes ==
  ASSUME StepWrites, deletion.at \in DOMAIN Following
  PROVE  /\ deletion.at \in DOMAIN Says =>
              disk' = disk /\ journal' = [phase |-> Says[deletion.at], existed |-> deletion.existed]
         /\ deletion.at \notin DOMAIN Says => disk' = EffectOf(deletion.at) /\ journal' = journal
  BY DEF StepWrites, Following, LastSteps

\* One step, and where it leads.
LEMMA StepKeepsFit ==
  ASSUME JournalTypes, DeletesAreOfNodes, StepWrites, Possible(deletion.at),
         deletion.at \in DOMAIN Following,
         NEW k, NEW b, NEW x, Fits(disk, journal, deletion, k, b, x),
         NEW next \in Deletions, next.at = Following[deletion.at],
         next.node = deletion.node, next.existed = deletion.existed
  PROVE  /\ disk' \in Disk /\ journal' \in Journals
         /\ Fits(disk', journal', next, k, b, x)
<1> DEFINE Goal == disk' \in Disk /\ journal' \in Journals /\ Fits(disk', journal', next, k, b, x)
<1>a. disk \in Disk /\ journal \in Journals /\ journal.phase \in Phases
  BY DEF JournalTypes, Journals
<1>b. deletion.existed \in BOOLEAN
  <2>1. CASE deletion = NoDeletion
    BY <2>1 DEF NoDeletion
  <2>2. CASE deletion # NoDeletion
    BY <2>2 DEF JournalTypes, Deletions
  <2> QED
    BY <2>1, <2>2
<1>c. \A p \in Phases \ {"none"} : [phase |-> p, existed |-> deletion.existed] \in Journals
  BY <1>b DEF Journals
<1> USE DEF Fits, FitsNoJournal, FitsRollback, FitsCommit, FitsUndo, FitsForward,
            OldNodes, OldEdges, Early, Forward, Cleanup, Undo, Commit
<1>1. ASSUME deletion.at = "prepare"
      PROVE  Goal
  <2>1. disk' = RewrittenFor(deletion.node) /\ journal' = journal /\ next.at = "sayPrepared"
    BY <1>1, Writes DEF Says, EffectOf, Following
  <2>2. Layout(disk', disk.nodes, FileOf(disk.nodes.ids \ {deletion.node}), disk.nodeBak,
                disk.edges, FileOf(disk.edges.ids \ FadenOf(deletion.node)), disk.edgeBak)
    BY <1>a, <2>1, RewrittenFiles
  <2>3. journal.phase = "none"
    BY <1>a, <1>1 DEF Phases
  <2> QED
    BY <1>a, <1>b, <1>1, <2>1, <2>2, <2>3, Files DEF Layout, EdgeFile, NodeFile
<1>2. ASSUME deletion.at = "sayPrepared"
      PROVE  Goal
  <2>1. disk' = disk /\ journal' = [phase |-> "prepared", existed |-> deletion.existed] /\ next.at = "edgeBackup"
    BY <1>2, Writes DEF Says, Following
  <2>2. journal' \in Journals /\ journal'.phase = "prepared" /\ journal'.existed = deletion.existed
    BY <1>c, <2>1 DEF Phases
  <2>3. journal.phase = "none"
    BY <1>a, <1>2 DEF Phases
  <2> QED
    BY <1>a, <1>b, <1>2, <2>1, <2>2, <2>3, Files DEF EdgeFile, NodeFile
<1>3. ASSUME deletion.at = "edgeBackup"
      PROVE  Goal
  <2>1. journal' = journal /\ next.at = "nodeBackup" /\ disk' = EffectOf("edgeBackup")
    BY <1>3, Writes DEF Says, Following
  <2>2. journal.phase = "prepared"
    BY <1>a, <1>3 DEF Phases
  <2>4. CASE deletion.existed
    <3>1. disk' = Renamed("edges", "edgeBak")
      BY <2>1, <2>4 DEF EffectOf, Renamed
    <3>2. Layout(disk', disk.nodes, disk.nodeTmp, disk.nodeBak,
                  MissingFile, disk.edgeTmp, disk.edges)
      BY <1>a, <3>1, EdgeFiles
    <3>3. disk.edges.there /\ journal.existed
      BY <1>a, <1>3, <2>2, <2>4
    <3> QED
      BY <1>a, <1>3, <2>1, <2>2, <2>4, <3>2, <3>3, Files DEF Layout, EdgeFile, NodeFile
  <2>5. CASE ~deletion.existed
    <3>1. disk' = disk
      BY <2>1, <2>5 DEF EffectOf, Renamed
    <3> QED
      BY <1>a, <1>b, <1>3, <2>1, <2>2, <2>5, <3>1, Files DEF EdgeFile, NodeFile
  <2> QED
    BY <1>b, <2>4, <2>5
<1>4. ASSUME deletion.at = "nodeBackup"
      PROVE  Goal
  <2>1. disk' = Renamed("nodes", "nodeBak") /\ journal' = journal /\ next.at = "sayBackups"
    BY <1>4, Writes DEF Says, EffectOf, Following
  <2>2. Layout(disk', MissingFile, disk.nodeTmp, disk.nodes,
                disk.edges, disk.edgeTmp, disk.edgeBak)
    BY <1>a, <2>1, NodeFiles
  <2>3. journal.phase = "prepared"
    BY <1>a, <1>4 DEF Phases
  <2> QED
    BY <1>a, <1>b, <1>4, <2>1, <2>2, <2>3, Files DEF Layout, EdgeFile, NodeFile
<1>5. ASSUME deletion.at = "sayBackups"
      PROVE  Goal
  <2>1. disk' = disk /\ journal' = [phase |-> "backups_created", existed |-> deletion.existed] /\ next.at = "edgeSwap"
    BY <1>5, Writes DEF Says, Following
  <2>2. journal' \in Journals /\ journal'.phase = "backups_created" /\ journal'.existed = deletion.existed
    BY <1>c, <2>1 DEF Phases
  <2>3. journal.phase = "prepared"
    BY <1>a, <1>5 DEF Phases
  <2> QED
    BY <1>a, <1>b, <1>5, <2>1, <2>2, <2>3, Files DEF EdgeFile, NodeFile
<1>6. ASSUME deletion.at = "edgeSwap"
      PROVE  Goal
  <2>1. disk' = Renamed("edgeTmp", "edges") /\ journal' = journal /\ next.at = "sayEdge"
    BY <1>6, Writes DEF Says, EffectOf, Following
  <2>2. Layout(disk', disk.nodes, disk.nodeTmp, disk.nodeBak,
                disk.edgeTmp, MissingFile, disk.edgeBak)
    BY <1>a, <2>1, EdgeFiles
  <2>3. journal.phase = "backups_created"
    BY <1>a, <1>6 DEF Phases
  <2> QED
    BY <1>a, <1>b, <1>6, <2>1, <2>2, <2>3, Files DEF Layout, EdgeFile, NodeFile
<1>7. ASSUME deletion.at = "sayEdge"
      PROVE  Goal
  <2>1. disk' = disk /\ journal' = [phase |-> "edge_swapped", existed |-> deletion.existed] /\ next.at = "nodeSwap"
    BY <1>7, Writes DEF Says, Following
  <2>2. journal' \in Journals /\ journal'.phase = "edge_swapped" /\ journal'.existed = deletion.existed
    BY <1>c, <2>1 DEF Phases
  <2>3. journal.phase = "backups_created"
    BY <1>a, <1>7 DEF Phases
  <2> QED
    BY <1>a, <1>b, <1>7, <2>1, <2>2, <2>3, Files DEF EdgeFile, NodeFile
<1>8. ASSUME deletion.at = "nodeSwap"
      PROVE  Goal
  <2>1. disk' = Renamed("nodeTmp", "nodes") /\ journal' = journal /\ next.at = "sayNode"
    BY <1>8, Writes DEF Says, EffectOf, Following
  <2>2. Layout(disk', disk.nodeTmp, MissingFile, disk.nodeBak,
                disk.edges, disk.edgeTmp, disk.edgeBak)
    BY <1>a, <2>1, NodeFiles
  <2>3. journal.phase = "edge_swapped"
    BY <1>a, <1>8 DEF Phases
  <2> QED
    BY <1>a, <1>b, <1>8, <2>1, <2>2, <2>3, Files DEF Layout, EdgeFile, NodeFile
<1>9. ASSUME deletion.at = "sayNode"
      PROVE  Goal
  <2>1. disk' = disk /\ journal' = [phase |-> "node_swapped", existed |-> deletion.existed] /\ next.at = "dropNodeBackup"
    BY <1>9, Writes DEF Says, Following
  <2>2. journal' \in Journals /\ journal'.phase = "node_swapped" /\ journal'.existed = deletion.existed
    BY <1>c, <2>1 DEF Phases
  <2>3. journal.phase = "edge_swapped"
    BY <1>a, <1>9 DEF Phases
  <2>4. Sound(disk.nodes.ids, disk.edges.ids, b \cup {deletion.node}, k, x)
    <3>1. OldEdges(disk, deletion.existed) \in SUBSET EdgeIds
      BY <1>a, Files DEF EdgeFile
    <3>2. Sound(OldNodes(disk), OldEdges(disk, deletion.existed), b, k, x)
      BY <1>9, <2>3
    <3>3. /\ disk.nodes.ids = OldNodes(disk) \ {deletion.node}
          /\ disk.edges.ids = OldEdges(disk, deletion.existed) \ FadenOf(deletion.node)
      BY <1>9, <2>3
    <3> HIDE DEF OldNodes, OldEdges
    <3> QED
      BY <3>1, <3>2, <3>3, SoundSwapped
  <2> QED
    BY <1>a, <1>b, <1>9, <2>1, <2>2, <2>3, <2>4, Files DEF EdgeFile, NodeFile
<1>10. ASSUME deletion.at = "dropNodeBackup"
      PROVE  Goal
  <2>1. disk' = WithoutFile("nodeBak") /\ journal' = journal /\ next.at = "dropEdgeBackup"
    BY <1>10, Writes DEF Says, EffectOf, Following
  <2>2. Layout(disk', disk.nodes, disk.nodeTmp, MissingFile,
                disk.edges, disk.edgeTmp, disk.edgeBak)
    BY <1>a, <2>1, NodeFiles
  <2>3. journal.phase = "node_swapped"
    BY <1>a, <1>10 DEF Phases
  <2> QED
    BY <1>a, <1>b, <1>10, <2>1, <2>2, <2>3, Files DEF Layout, EdgeFile, NodeFile
<1>11. ASSUME deletion.at = "dropEdgeBackup"
      PROVE  Goal
  <2>1. disk' = WithoutFile("edgeBak") /\ journal' = journal /\ next.at = "dropJournal"
    BY <1>11, Writes DEF Says, EffectOf, Following
  <2>2. Layout(disk', disk.nodes, disk.nodeTmp, disk.nodeBak,
                disk.edges, disk.edgeTmp, MissingFile)
    BY <1>a, <2>1, EdgeFiles
  <2>3. journal.phase = "node_swapped"
    BY <1>a, <1>11 DEF Phases
  <2> QED
    BY <1>a, <1>b, <1>11, <2>1, <2>2, <2>3, Files DEF Layout, EdgeFile, NodeFile
<1>12. ASSUME deletion.at = "undoTmp"
      PROVE  Goal
  <2>1. disk' = [disk EXCEPT !.nodeTmp = MissingFile, !.edgeTmp = MissingFile] /\ journal' = journal /\ next.at = "undoNode"
    BY <1>12, Writes DEF Says, EffectOf, Following
  <2>2. Layout(disk', disk.nodes, MissingFile, disk.nodeBak,
                disk.edges, MissingFile, disk.edgeBak)
    BY <1>a, <2>1, EdgeFiles
  <2>3. journal.phase \in Early \cup {"none"}
    BY <1>a, <1>12 DEF Phases
  <2> QED
    BY <1>a, <1>b, <1>12, <2>1, <2>2, <2>3, Files DEF Layout, EdgeFile, NodeFile
<1>13. ASSUME deletion.at = "undoNode"
      PROVE  Goal
  <2>1. journal' = journal /\ next.at = "restoreNode" /\ disk' = EffectOf("undoNode")
    BY <1>13, Writes DEF Says, Following
  <2>2. journal.phase \in Early \cup {"none"}
    BY <1>a, <1>13 DEF Phases
  <2>4. CASE disk.nodeBak.there
    <3>1. disk' = WithoutFile("nodes")
      BY <2>1, <2>4 DEF EffectOf, TargetRemoved
    <3>2. Layout(disk', MissingFile, disk.nodeTmp, disk.nodeBak,
                  disk.edges, disk.edgeTmp, disk.edgeBak)
      BY <1>a, <3>1, NodeFiles
    <3> QED
      BY <1>a, <1>b, <1>13, <2>1, <2>2, <2>4, <3>2, Files DEF Layout, EdgeFile, NodeFile
  <2>5. CASE ~disk.nodeBak.there
    <3>1. disk' = disk
      BY <2>1, <2>5 DEF EffectOf, TargetRemoved
    <3> QED
      BY <1>a, <1>b, <1>13, <2>1, <2>2, <2>5, <3>1, Files DEF EdgeFile, NodeFile
  <2> QED
    BY <1>b, <2>4, <2>5
<1>14. ASSUME deletion.at = "restoreNode"
      PROVE  Goal
  <2>1. journal' = journal /\ next.at = "undoEdge" /\ disk' = EffectOf("restoreNode")
    BY <1>14, Writes DEF Says, Following
  <2>2. journal.phase \in Early \cup {"none"}
    BY <1>a, <1>14 DEF Phases
  <2>3. disk.nodeBak.there \/ disk.nodes.there
    BY <1>14 DEF Possible, Restorable
  <2>4. CASE disk.nodeBak.there
    <3>1. disk' = Renamed("nodeBak", "nodes")
      BY <2>1, <2>4 DEF EffectOf, BackupRestored
    <3>2. Layout(disk', disk.nodeBak, disk.nodeTmp, MissingFile,
                  disk.edges, disk.edgeTmp, disk.edgeBak)
      BY <1>a, <3>1, NodeFiles
    <3> QED
      BY <1>a, <1>b, <1>14, <2>1, <2>2, <2>3, <2>4, <3>2, Files DEF Layout, EdgeFile, NodeFile
  <2>5. CASE ~disk.nodeBak.there
    <3>1. disk' = disk
      BY <2>1, <2>5 DEF EffectOf, BackupRestored
    <3> QED
      BY <1>a, <1>b, <1>14, <2>1, <2>2, <2>3, <2>5, <3>1, Files DEF EdgeFile, NodeFile
  <2> QED
    BY <1>b, <2>4, <2>5
<1>15. ASSUME deletion.at = "undoEdge"
      PROVE  Goal
  <2>1. journal' = journal /\ next.at = "restoreEdge" /\ disk' = EffectOf("undoEdge")
    BY <1>15, Writes DEF Says, Following
  <2>2. journal.phase \in Early \cup {"none"}
    BY <1>a, <1>15 DEF Phases
  <2>4. CASE disk.edgeBak.there \/ ~deletion.existed
    <3>1. disk' = WithoutFile("edges")
      BY <2>1, <2>4 DEF EffectOf, TargetRemoved
    <3>2. Layout(disk', disk.nodes, disk.nodeTmp, disk.nodeBak,
                  MissingFile, disk.edgeTmp, disk.edgeBak)
      BY <1>a, <3>1, EdgeFiles
    <3> QED
      BY <1>a, <1>b, <1>15, <2>1, <2>2, <2>4, <3>2, Files DEF Layout, EdgeFile, NodeFile
  <2>5. CASE deletion.existed /\ ~disk.edgeBak.there
    <3>1. disk' = disk
      BY <2>1, <2>5 DEF EffectOf, TargetRemoved
    <3> QED
      BY <1>a, <1>b, <1>15, <2>1, <2>2, <2>5, <3>1, Files DEF EdgeFile, NodeFile
  <2> QED
    BY <1>b, <2>4, <2>5
<1>16. ASSUME deletion.at = "restoreEdge"
      PROVE  Goal
  <2>1. journal' = journal /\ next.at = "removeJournal" /\ disk' = EffectOf("restoreEdge")
    BY <1>16, Writes DEF Says, Following
  <2>2. journal.phase \in Early \cup {"none"}
    BY <1>a, <1>16 DEF Phases
  <2>3. ~deletion.existed \/ disk.edgeBak.there \/ disk.edges.there
    BY <1>16 DEF Possible, Restorable
  <2>4. CASE ~deletion.existed
    <3>1. disk' = WithoutFile("edgeBak")
      BY <2>1, <2>4 DEF EffectOf, BackupRestored
    <3>2. Layout(disk', disk.nodes, disk.nodeTmp, disk.nodeBak,
                  disk.edges, disk.edgeTmp, MissingFile)
      BY <1>a, <3>1, EdgeFiles
    <3> QED
      BY <1>a, <1>b, <1>16, <2>1, <2>2, <2>3, <2>4, <3>2, Files DEF Layout, EdgeFile, NodeFile
  <2>5. CASE deletion.existed /\ disk.edgeBak.there
    <3>1. disk' = Renamed("edgeBak", "edges")
      BY <2>1, <2>5 DEF EffectOf, BackupRestored
    <3>2. Layout(disk', disk.nodes, disk.nodeTmp, disk.nodeBak,
                  disk.edgeBak, disk.edgeTmp, MissingFile)
      BY <1>a, <3>1, EdgeFiles
    <3> QED
      BY <1>a, <1>b, <1>16, <2>1, <2>2, <2>3, <2>5, <3>2, Files DEF Layout, EdgeFile, NodeFile
  <2>6. CASE deletion.existed /\ ~disk.edgeBak.there
    <3>1. disk' = disk
      BY <2>1, <2>6 DEF EffectOf, BackupRestored
    <3> QED
      BY <1>a, <1>b, <1>16, <2>1, <2>2, <2>3, <2>6, <3>1, Files DEF EdgeFile, NodeFile
  <2> QED
    BY <1>b, <2>4, <2>5, <2>6
<1>17. ASSUME deletion.at = "commitTmp"
      PROVE  Goal
  <2>1. disk' = [disk EXCEPT !.nodeTmp = MissingFile, !.edgeTmp = MissingFile] /\ journal' = journal /\ next.at = "commitNodeBackup"
    BY <1>17, Writes DEF Says, EffectOf, Following
  <2>2. Layout(disk', disk.nodes, MissingFile, disk.nodeBak,
                disk.edges, MissingFile, disk.edgeBak)
    BY <1>a, <2>1, EdgeFiles
  <2>3. journal.phase = "node_swapped"
    BY <1>a, <1>17 DEF Phases
  <2> QED
    BY <1>a, <1>b, <1>17, <2>1, <2>2, <2>3, Files DEF Layout, EdgeFile, NodeFile
<1>18. ASSUME deletion.at = "commitNodeBackup"
      PROVE  Goal
  <2>1. disk' = WithoutFile("nodeBak") /\ journal' = journal /\ next.at = "commitEdgeBackup"
    BY <1>18, Writes DEF Says, EffectOf, Following
  <2>2. Layout(disk', disk.nodes, disk.nodeTmp, MissingFile,
                disk.edges, disk.edgeTmp, disk.edgeBak)
    BY <1>a, <2>1, NodeFiles
  <2>3. journal.phase = "node_swapped"
    BY <1>a, <1>18 DEF Phases
  <2> QED
    BY <1>a, <1>b, <1>18, <2>1, <2>2, <2>3, Files DEF Layout, EdgeFile, NodeFile
<1>19. ASSUME deletion.at = "commitEdgeBackup"
      PROVE  Goal
  <2>1. disk' = WithoutFile("edgeBak") /\ journal' = journal /\ next.at = "removeJournal"
    BY <1>19, Writes DEF Says, EffectOf, Following
  <2>2. Layout(disk', disk.nodes, disk.nodeTmp, disk.nodeBak,
                disk.edges, disk.edgeTmp, MissingFile)
    BY <1>a, <2>1, EdgeFiles
  <2>3. journal.phase = "node_swapped"
    BY <1>a, <1>19 DEF Phases
  <2> QED
    BY <1>a, <1>b, <1>19, <2>1, <2>2, <2>3, Files DEF Layout, EdgeFile, NodeFile
<1> HIDE DEF Goal
<1> QED
  <2>1. Goal
    BY <1>1, <1>2, <1>3, <1>4, <1>5, <1>6, <1>7, <1>8, <1>9, <1>10,
       <1>11, <1>12, <1>13, <1>14, <1>15, <1>16, <1>17, <1>18, <1>19 DEF Following
  <2> QED
    BY <2>1 DEF Goal

\* The last step of a rollback or a recovery takes the journal away.
LEMMA JournalGone ==
  ASSUME NEW d \in Disk, NEW j \in Journals, NEW del, NEW k, NEW b, NEW x,
         Fits(d, j, del, k, b, x), del.at = "removeJournal", del.existed \in BOOLEAN
  PROVE  Fits(d, NoJournalFile, NoDeletion, k, b, x)
<1> USE DEF Fits, FitsNoJournal, FitsRollback, FitsCommit, FitsUndo, FitsForward,
            OldNodes, OldEdges, Early, Forward, Cleanup, Undo, Commit
<1>1. j.phase \in Phases /\ d.edges \in EdgeFile
  BY DEF Journals, Disk
<1>2. d.nodes.there /\ ~d.nodeBak.there /\ ~d.edgeBak.there
  BY <1>1 DEF Phases
<1>3. Sound(d.nodes.ids, d.edges.ids, b, k, x)
  <2>1. CASE j.phase \in Early
    <3>1. OldNodes(d) = d.nodes.ids /\ OldEdges(d, j.existed) = d.edges.ids
      BY <1>1, <1>2, <2>1 DEF EdgeFile
    <3> QED
      BY <2>1, <3>1
  <2>2. CASE j.phase \in {"none", "node_swapped"}
    <3>1. b \cup {} = b
      OBVIOUS
    <3> QED
      BY <2>2, <3>1
  <2> QED
    BY <1>1, <2>1, <2>2 DEF Phases
<1> QED
  BY <1>2, <1>3 DEF NoJournalFile, NoDeletion

\* Whoever leaves a delete, a rollback or a recovery leaves what the next one
\* can go on from.
LEMMA CutOffFits ==
  ASSUME NEW d, NEW j \in Journals, NEW del, NEW k, NEW b, NEW x,
         Fits(d, j, del, k, b, x), NEW b2, b \subseteq b2, del.at \in Cleanup => del.node \in b2
  PROVE  Fits(d, j, NoDeletion, k, b2, x)
<1>1. j.phase \in Phases
  BY DEF Journals
<1>2. ASSUME NEW N, NEW E, Sound(N, E, b, k, x)
      PROVE  Sound(N, E, b2, k, x)
  BY <1>2, SoundModulo
<1>3. CASE j.phase = "none"
  BY <1>2, <1>3 DEF Fits, FitsNoJournal, FitsUndo, FitsForward, NoDeletion, Early
<1>4. CASE j.phase \in Early
  BY <1>2, <1>4 DEF Fits, FitsRollback, FitsUndo, FitsForward, NoDeletion, Early, Commit, Cleanup
<1>5. CASE j.phase = "node_swapped"
  <2>1. CASE del.at \in Cleanup
    <3>1. Sound(d.nodes.ids, d.edges.ids, b \cup {del.node}, k, x)
      BY <1>5, <2>1 DEF Fits, FitsCommit
    <3>2. b \cup {del.node} \subseteq b2
      BY <2>1
    <3>3. Sound(d.nodes.ids, d.edges.ids, b2, k, x)
      BY <3>1, <3>2, SoundModulo
    <3>4. b2 \cup {} = b2
      OBVIOUS
    <3> QED
      BY <1>5, <3>3, <3>4 DEF Fits, FitsCommit, NoDeletion, Early, Commit, Cleanup
  <2>2. CASE del.at \notin Cleanup
    <3>1. b \cup {} = b /\ b2 \cup {} = b2
      OBVIOUS
    <3>2. Sound(d.nodes.ids, d.edges.ids, b2, k, x)
      BY <1>2, <1>5, <2>2, <3>1 DEF Fits, FitsCommit
    <3> QED
      BY <1>5, <3>1, <3>2 DEF Fits, FitsCommit, NoDeletion, Early, Commit, Cleanup
  <2> QED
    BY <2>1, <2>2
<1> QED
  BY <1>1, <1>3, <1>4, <1>5 DEF Phases, Early

\* An acknowledged delete may leave its backups and its journal behind.
LEMMA AcknowledgedFits ==
  ASSUME NEW d, NEW j \in Journals, NEW del, NEW k, NEW b, NEW x,
         Fits(d, j, del, k, b, x), del.at \in Cleanup
  PROVE  LET k2 == k \ ({del.node} \cup FadenOf(del.node))
         IN  /\ Fits(d, j, NoDeletion, k2, b, x)
             /\ del.at = "dropJournal" => Fits(d, NoJournalFile, NoDeletion, k2, b, x)
<1> DEFINE k2 == k \ ({del.node} \cup FadenOf(del.node))
<1>1. j.phase = "node_swapped"
  BY DEF Fits, FitsNoJournal, FitsRollback, Journals, Phases, Early, Cleanup, Undo
<1>2. /\ d.nodes.there /\ d.edges.there
      /\ del.at = "dropJournal" => ~d.nodeBak.there /\ ~d.edgeBak.there
      /\ Sound(d.nodes.ids, d.edges.ids, b \cup {del.node}, k, x)
  BY <1>1 DEF Fits, FitsCommit
<1>3. Sound(d.nodes.ids, d.edges.ids, b, k2, x)
  BY <1>2, SoundAcknowledged
<1>4. b \cup {} = b
  OBVIOUS
<1> HIDE DEF k2
<1>5. Fits(d, j, NoDeletion, k2, b, x)
  BY <1>1, <1>2, <1>3, <1>4 DEF Fits, FitsCommit, NoDeletion, Early, Commit, Cleanup
<1>6. del.at = "dropJournal" => Fits(d, NoJournalFile, NoDeletion, k2, b, x)
  BY <1>2, <1>3 DEF Fits, FitsNoJournal, FitsUndo, FitsForward, NoJournalFile, NoDeletion, Early
<1> QED
  BY <1>5, <1>6 DEF k2

\* A delete can be rolled back from each of its steps.
LEMMA RollbackFits ==
  ASSUME NEW d, NEW j \in Journals, NEW del, NEW k, NEW b, NEW x,
         Fits(d, j, del, k, b, x), del.at \in Forward, j.phase # "node_swapped",
         NEW back, back.at = "undoTmp", back.existed = del.existed
  PROVE  Fits(d, j, back, k, b, x)
  BY DEF Fits, FitsNoJournal, FitsRollback, FitsUndo, FitsForward,
         Journals, Phases, Early, Forward, Cleanup, Undo, Commit

\* A delete and a recovery start where nothing is under way.
LEMMA StartFits ==
  ASSUME disk \in Disk, journal \in Journals, NEW k, NEW b, NEW x,
         Fits(disk, journal, NoDeletion, k, b, x)
  PROVE  /\ journal = NoJournalFile => \A n : Fits(disk, journal, Deleting(n), k, b, x)
         /\ journal # NoJournalFile => \A f, n : Fits(disk, journal, Recovering(f, n), k, b, x)
<1>1. ASSUME journal = NoJournalFile, NEW n
      PROVE  Fits(disk, journal, Deleting(n), k, b, x)
  BY <1>1 DEF Fits, FitsNoJournal, FitsUndo, FitsForward, Deleting, NoJournalFile, NoDeletion, Early, Undo
<1>2. ASSUME journal # NoJournalFile, NEW f, NEW n
      PROVE  Fits(disk, journal, Recovering(f, n), k, b, x)
  <2>1. journal.phase \in Phases \ {"none"}
    BY <1>2 DEF Journals
  <2>2. CASE journal.phase \in Early
    BY <2>2 DEF Fits, FitsRollback, FitsUndo, FitsForward, Recovering, RecoverAt, NoDeletion, Early, Commit, Cleanup
  <2>3. CASE journal.phase = "node_swapped"
    BY <2>3 DEF Fits, FitsCommit, Recovering, RecoverAt, NoDeletion, Early, Commit, Cleanup
  <2> QED
    BY <2>1, <2>2, <2>3 DEF Phases, Early
<1> QED
  BY <1>1, <1>2

-----------------------------------------------------------------------------
(* Types *)

\* The nodes on a disk.
NodesOn(d) == d.nodes.ids \cup d.nodeTmp.ids \cup d.nodeBak.ids

\* A step leaves no node that was not there.
LEMMA StepTypes ==
  ASSUME JournalTypes, StepWrites, deletion # NoDeletion
  PROVE  disk' \in Disk /\ journal' \in Journals /\ NodesOn(disk') \subseteq NodesOn(disk)
<1>1. /\ disk \in Disk /\ journal \in Journals /\ deletion.existed \in BOOLEAN
      /\ deletion.at \in Forward \cup Cleanup \cup Undo \cup Commit \cup {"removeJournal"}
  BY DEF JournalTypes, Deletions
<1>2. journal' \in Journals
  BY <1>1 DEF StepWrites, Journals, NoJournalFile, Says, Phases
<1> DEFINE Ok(d) == d \in Disk /\ NodesOn(d) \subseteq NodesOn(disk)
<1>3. Ok(disk)
  BY <1>1
<1>4. /\ Ok(Renamed("nodes", "nodeBak")) /\ Ok(Renamed("nodeTmp", "nodes"))
      /\ Ok(Renamed("nodeBak", "nodes"))
      /\ Ok(WithoutFile("nodes")) /\ Ok(WithoutFile("nodeBak"))
  BY <1>1, NodeFiles, Files DEF Layout, NodesOn
<1>5. /\ Ok(Renamed("edges", "edgeBak")) /\ Ok(Renamed("edgeTmp", "edges"))
      /\ Ok(Renamed("edgeBak", "edges"))
      /\ Ok(WithoutFile("edges")) /\ Ok(WithoutFile("edgeBak"))
      /\ Ok([disk EXCEPT !.nodeTmp = MissingFile, !.edgeTmp = MissingFile])
  BY <1>1, EdgeFiles, Files DEF Layout, NodesOn
<1>6. Ok(RewrittenFor(deletion.node))
  <2>1. Layout(RewrittenFor(deletion.node), disk.nodes, FileOf(disk.nodes.ids \ {deletion.node}), disk.nodeBak,
               disk.edges, FileOf(disk.edges.ids \ FadenOf(deletion.node)), disk.edgeBak)
    BY <1>1, RewrittenFiles
  <2> QED
    BY <1>1, <2>1, Files DEF Layout, NodesOn
<1> HIDE DEF Ok
<1>7. ASSUME deletion.at \notin LastSteps \cup DOMAIN Says
      PROVE  Ok(EffectOf(deletion.at))
  BY <1>1, <1>3, <1>4, <1>5, <1>6, <1>7
     DEF EffectOf, TargetRemoved, BackupRestored, LastSteps, Says, Forward, Cleanup, Undo, Commit
<1>8. Ok(disk')
  BY <1>3, <1>7 DEF StepWrites
<1> QED
  BY <1>2, <1>8 DEF Ok

\* The steps of a delete follow each other, and so do those of a rollback.
LEMMA FollowingTypes ==
  ASSUME JournalTypes, DeletesAreOfNodes, deletion.at \in DOMAIN Following
  PROVE  LET next == [deletion EXCEPT !.at = Following[deletion.at]]
         IN  /\ next \in Deletions /\ next.at = Following[deletion.at] /\ next.for = deletion.for
             /\ next.node = deletion.node /\ next.existed = deletion.existed
             /\ deletion.at \in Forward => next.at \in Forward \cup {"dropNodeBackup"}
             /\ next.at \in Forward \cup Cleanup <=> deletion.at \in Forward \cup Cleanup
             /\ deletion.at = "sayNode" <=> next.at = "dropNodeBackup"
             /\ deletion.at \in Cleanup => next.at \in Cleanup
<1>1. deletion \in Deletions /\ deletion # NoDeletion
  BY DEF JournalTypes, NoDeletion, Following
<1>2. Following[deletion.at] \in Forward \cup Cleanup \cup Undo \cup Commit \cup {"removeJournal"}
  BY DEF Following, Forward, Cleanup, Undo, Commit
<1>3. /\ deletion.at \in Forward => Following[deletion.at] \in Forward \cup {"dropNodeBackup"}
      /\ Following[deletion.at] \in Forward \cup Cleanup <=> deletion.at \in Forward \cup Cleanup
      /\ deletion.at = "sayNode" <=> Following[deletion.at] = "dropNodeBackup"
      /\ deletion.at \in Cleanup => Following[deletion.at] \in Cleanup
  BY DEF Following, Forward, Cleanup
<1> DEFINE next == [deletion EXCEPT !.at = Following[deletion.at]]
<1>4. /\ next \in Deletions /\ next.at = Following[deletion.at] /\ next.for = deletion.for
      /\ next.node = deletion.node /\ next.existed = deletion.existed
  BY <1>1, <1>2 DEF Deletions
<1> QED
  BY <1>3, <1>4

-----------------------------------------------------------------------------
(* The initial states and the actions *)

LEMMA InitJournal == JournalInit => JournalInv
<1> SUFFICES ASSUME JournalInit PROVE JournalInv
  OBVIOUS
<1> DEFINE nodes == OldIds \cap NodeIds
<1>1. PICK ids \in {{}, OldIds \cap EdgeIds} :
        disk = [nodes |-> FileOf(nodes), edges |-> IF ids = {} THEN MissingFile ELSE FileOf(ids),
                nodeTmp |-> MissingFile, edgeTmp |-> MissingFile, nodeBak |-> MissingFile, edgeBak |-> MissingFile]
  BY DEF JournalInit
<1>2. /\ disk.nodes.ids = nodes /\ disk.edges.ids = ids /\ disk.nodes.there
      /\ disk.nodeTmp.ids = {} /\ disk.nodeBak.ids = {}
      /\ ~disk.nodeBak.there /\ ~disk.edgeBak.there
  BY <1>1 DEF FileOf, MissingFile
<1>3. disk \in Disk
  <2>1. FileOf(nodes) \in NodeFile /\ MissingFile \in NodeFile /\ MissingFile \in EdgeFile
    BY DEF FileOf, MissingFile, NodeFile, EdgeFile
  <2>2. (IF ids = {} THEN MissingFile ELSE FileOf(ids)) \in EdgeFile
    BY DEF FileOf, MissingFile, EdgeFile
  <2> QED
    BY <1>1, <2>1, <2>2 DEF Disk
<1>4. /\ journal = NoJournalFile /\ deletion = NoDeletion /\ kept = Records(disk) /\ used = Records(disk)
      /\ begun = {} /\ exposed = {}
  BY DEF JournalInit
<1>5. Records(disk) = nodes \cup ids
  BY <1>2 DEF Records
<1>6. \A e \in ids : e \in EdgeIds /\ e \notin NodeIds /\ NodeOf[e] \in nodes
  BY JournalAssumption
<1>7. Sound(nodes, ids, {}, nodes \cup ids, {})
  <2>1. ASSUME NEW n \in ((nodes \cup ids) \cap NodeIds) \ {}
        PROVE  n \in nodes /\ ((nodes \cup ids) \cap FadenOf(n)) \ {} \subseteq ids
    BY <1>6, JournalAssumption DEF FadenOf
  <2> QED
    BY <1>6, <2>1 DEF Sound
<1>8. Fits(disk, journal, deletion, kept, begun, exposed)
  BY <1>2, <1>4, <1>5, <1>7
     DEF Fits, FitsNoJournal, FitsUndo, FitsForward, NoJournalFile, NoDeletion, Early
<1>9. JournalTypes /\ DeletesAreOfNodes
  BY <1>3, <1>4 DEF JournalTypes, DeletesAreOfNodes, Journals, Phases, Deletions, NoJournalFile, NoDeletion,
                    Forward, Cleanup
<1>10. NodesWereCreated
  BY <1>2, <1>4, <1>5, <1>6, JournalAssumption DEF NodesWereCreated
<1> QED
  BY <1>8, <1>9, <1>10 DEF JournalInv

\* Nobody appends a record during a step, so its nodes remain created.
LEMMA StillCreated ==
  ASSUME NodesWereCreated, NodesOn(disk') \subseteq NodesOn(disk),
         kept' \subseteq kept, exposed' = exposed, used' = used
  PROVE  NodesWereCreated'
<1>1. /\ NodesOn(disk') \subseteq used'
      /\ \A e \in (kept' \cap EdgeIds) \ exposed' : NodeOf[e] \in used'
  BY DEF NodesWereCreated, NodesOn
<1> QED
  BY <1>1 DEF NodesWereCreated, NodesOn

LEMMA FileStepKeeps == JournalInv /\ FileStep => JournalInv'
<1> SUFFICES ASSUME JournalInv, FileStep PROVE JournalInv'
  OBVIOUS
<1> DEFINE next == [deletion EXCEPT !.at = Following[deletion.at]]
<1>1. /\ JournalTypes /\ DeletesAreOfNodes /\ NodesWereCreated
      /\ deletion.at \in DOMAIN Following /\ Possible(deletion.at) /\ StepWrites
      /\ deletion' = next /\ kept' = kept /\ begun' = begun /\ exposed' = exposed
      /\ undone' = undone /\ used' = used
  BY DEF JournalInv, FileStep
<1>2. deletion # NoDeletion
  BY <1>1 DEF NoDeletion, Following
<1>3. disk' \in Disk /\ journal' \in Journals /\ NodesOn(disk') \subseteq NodesOn(disk)
  BY <1>1, <1>2, StepTypes
<1>4. /\ next \in Deletions /\ next.at = Following[deletion.at] /\ next.for = deletion.for
      /\ next.node = deletion.node /\ next.existed = deletion.existed
      /\ next.at \in Forward \cup Cleanup <=> deletion.at \in Forward \cup Cleanup
  BY <1>1, FollowingTypes
<1> HIDE DEF next
<1>5. JournalTypes' /\ DeletesAreOfNodes'
  BY <1>1, <1>3, <1>4 DEF JournalTypes, DeletesAreOfNodes
<1>6. NodesWereCreated'
  BY <1>1, <1>3, StillCreated
<1>7. ASSUME ~undone' PROVE Fits(disk, journal, deletion, kept, begun, exposed)'
  <2>1. Fits(disk, journal, deletion, kept, begun, exposed)
    BY <1>1, <1>7 DEF JournalInv
  <2>2. Fits(disk', journal', next, kept, begun, exposed)
    BY <1>1, <1>4, <2>1, StepKeepsFit
  <2> QED
    BY <1>1, <2>2
<1> QED
  BY <1>5, <1>6, <1>7 DEF JournalInv

\* What the deletions look like that a step may leave behind.
LEMMA NewDeletions ==
  ASSUME JournalTypes
  PROVE  /\ NoDeletion \in Deletions
         /\ \A n \in NodeIds : Deleting(n) \in Deletions
         /\ \A n \in NodeIds : Recovering("delete", n) \in Deletions
         /\ Recovering("start", NoNode) \in Deletions
<1>1. disk.edges.there \in BOOLEAN /\ journal.existed \in BOOLEAN
  BY DEF JournalTypes, Disk, EdgeFile, Journals
<1>2. RecoverAt \in Undo \cup Commit
  BY DEF RecoverAt, Undo, Commit
<1> QED
  BY <1>1, <1>2 DEF Deletions, Deleting, Recovering, Forward

LEMMA LastStepKeeps == JournalInv /\ LastStep => JournalInv'
<1> SUFFICES ASSUME JournalInv, LastStep PROVE JournalInv'
  OBVIOUS
<1>1. /\ JournalTypes /\ DeletesAreOfNodes /\ NodesWereCreated
      /\ deletion.at \in LastSteps /\ StepWrites
      /\ exposed' = exposed /\ undone' = undone /\ used' = used
  BY DEF JournalInv, LastStep
<1>2. deletion # NoDeletion /\ deletion.existed \in BOOLEAN /\ deletion.for \in {"delete", "error", "start"}
  BY <1>1 DEF NoDeletion, LastSteps, JournalTypes, Deletions
<1>3. disk' = disk /\ journal' = NoJournalFile
  BY <1>1 DEF StepWrites
<1>4. disk \in Disk /\ journal \in Journals /\ disk' \in Disk /\ journal' \in Journals
  BY <1>1, <1>2, StepTypes DEF JournalTypes
<1>5. CASE deletion.at = "dropJournal"
  <2>1. /\ deletion' = NoDeletion /\ begun' = begun
        /\ kept' = kept \ ({deletion.node} \cup FadenOf(deletion.node))
    BY <1>5 DEF LastStep, Acknowledged
  <2>2. JournalTypes' /\ DeletesAreOfNodes'
    BY <1>4, <2>1 DEF JournalTypes, DeletesAreOfNodes, Deletions, NoDeletion, Forward, Cleanup
  <2>3. NodesWereCreated'
    BY <1>1, <1>3, <2>1, StillCreated
  <2>4. ASSUME ~undone' PROVE Fits(disk, journal, deletion, kept, begun, exposed)'
    <3>1. Fits(disk, journal, deletion, kept, begun, exposed)
      BY <1>1, <2>4 DEF JournalInv
    <3>2. Fits(disk, NoJournalFile, NoDeletion, kept', begun, exposed)
      BY <1>4, <1>5, <2>1, <3>1, AcknowledgedFits DEF Cleanup
    <3> QED
      BY <1>1, <1>3, <2>1, <3>2
  <2> QED
    BY <2>2, <2>3, <2>4 DEF JournalInv
<1>6. CASE deletion.at = "removeJournal"
  <2>1. /\ kept' = kept /\ begun' = begun
        /\ \/ deletion.for = "delete" /\ deletion' = Deleting(deletion.node)
           \/ deletion' = NoDeletion
    BY <1>3, <1>6 DEF LastStep, DeleteRefused
  <2>2. deletion.for = "delete" => deletion.node \in NodeIds
    BY <1>1 DEF DeletesAreOfNodes
  <2>3. deletion' \in Deletions
    BY <1>1, <2>1, <2>2, NewDeletions
  <2>4. JournalTypes' /\ DeletesAreOfNodes'
    BY <1>4, <2>1, <2>2, <2>3 DEF JournalTypes, DeletesAreOfNodes, NoDeletion, Deleting, Forward, Cleanup
  <2>5. NodesWereCreated'
    BY <1>1, <1>3, <2>1, StillCreated
  <2>6. ASSUME ~undone' PROVE Fits(disk, journal, deletion, kept, begun, exposed)'
    <3>1. Fits(disk, journal, deletion, kept, begun, exposed)
      BY <1>1, <2>6 DEF JournalInv
    <3>2. Fits(disk, NoJournalFile, NoDeletion, kept, begun, exposed)
      BY <1>2, <1>4, <1>6, <3>1, JournalGone
    <3>3. Fits(disk, NoJournalFile, Deleting(deletion.node), kept, begun, exposed)
      BY <3>2 DEF Fits, FitsNoJournal, FitsUndo, FitsForward, Deleting, NoJournalFile, NoDeletion, Early, Undo
    <3> QED
      BY <1>1, <1>3, <2>1, <3>2, <3>3
  <2> QED
    BY <2>4, <2>5, <2>6 DEF JournalInv
<1> QED
  BY <1>1, <1>5, <1>6 DEF LastSteps

\* A failure, when now is the step that the files and the journal are at.
LEMMA FailureFits ==
  ASSUME JournalTypes, DeletesAreOfNodes, deletion # NoDeletion, StepFailed, ~undone', journal' \in Journals,
         NEW now, Fits(disk', journal', now, kept, begun, exposed),
         now.node = deletion.node, now.existed = deletion.existed,
         deletion.at \in Forward /\ now.at \notin Forward => journal'.phase = "node_swapped",
         deletion.at \notin Forward => (now.at \in Cleanup <=> deletion.at \in Cleanup)
  PROVE  Fits(disk', journal', deletion', kept', begun', exposed')
<1>1. deletion \in Deletions /\ exposed' = exposed
  BY DEF JournalTypes, StepFailed
<1>2. CASE deletion.at \in Forward
  <2>1. /\ deletion' = [deletion EXCEPT !.at = "undoTmp", !.for = "error"]
        /\ journal'.phase # "node_swapped" /\ kept' = kept /\ begun' = begun
    BY <1>2 DEF StepFailed, Forward, Cleanup
  <2>2. deletion'.at = "undoTmp" /\ deletion'.existed = deletion.existed
    BY <1>1, <2>1 DEF Deletions
  <2> QED
    BY <1>1, <1>2, <2>1, <2>2, RollbackFits
<1>3. CASE deletion.at \in Cleanup
  <2>1. /\ deletion' = NoDeletion /\ begun' = begun
        /\ kept' = kept \ ({deletion.node} \cup FadenOf(deletion.node))
    BY <1>3 DEF StepFailed, Acknowledged, Forward, Cleanup
  <2>2. now.at \in Cleanup
    BY <1>3 DEF Forward, Cleanup
  <2> QED
    BY <1>1, <2>1, <2>2, AcknowledgedFits
<1>4. CASE deletion.at \notin Forward \cup Cleanup
  <2>1. deletion' = NoDeletion /\ kept' = kept /\ begun \subseteq begun'
    BY <1>4 DEF StepFailed, DeleteRefused
  <2> QED
    BY <1>1, <1>4, <2>1, CutOffFits
<1> QED
  BY <1>2, <1>3, <1>4

\* What a failure leaves besides the files.
LEMMA FailureTypes ==
  ASSUME JournalTypes, DeletesAreOfNodes, NodesWereCreated, deletion # NoDeletion, StepFailed,
         disk' \in Disk, journal' \in Journals, NodesOn(disk') \subseteq NodesOn(disk)
  PROVE  /\ JournalTypes' /\ DeletesAreOfNodes' /\ NodesWereCreated'
         /\ ~undone' => ~undone
<1>1. /\ deletion' = NoDeletion \/ (deletion.at \in Forward /\ deletion' = [deletion EXCEPT !.at = "undoTmp", !.for = "error"])
      /\ kept' \subseteq kept /\ exposed' = exposed /\ used' = used
  BY DEF StepFailed, Acknowledged, DeleteRefused
<1>5. ~undone' => ~undone
  BY Zenon DEF StepFailed
<1>2. ASSUME deletion' # NoDeletion
      PROVE  /\ deletion' \in Deletions /\ deletion'.at = "undoTmp"
             /\ deletion'.node = deletion.node /\ deletion.node \in NodeIds
  BY <1>1, <1>2 DEF JournalTypes, Deletions, DeletesAreOfNodes, Undo
<1>3. JournalTypes' /\ DeletesAreOfNodes'
  <2>1. CASE deletion' = NoDeletion
    BY <2>1 DEF JournalTypes, Deletions, DeletesAreOfNodes, NoDeletion, Forward, Cleanup
  <2>2. CASE deletion' # NoDeletion
    BY <1>2, <2>2 DEF JournalTypes, DeletesAreOfNodes, Forward, Cleanup
  <2> QED
    BY <2>1, <2>2
<1>4. NodesWereCreated'
  BY <1>1, StillCreated
<1> QED
  BY <1>3, <1>4, <1>5

LEMMA FailureKeeps == JournalInv /\ (FileStepFails \/ StepImpossible) => JournalInv'
<1> SUFFICES ASSUME JournalInv, FileStepFails \/ StepImpossible PROVE JournalInv'
  OBVIOUS
<1>1. /\ JournalTypes /\ DeletesAreOfNodes /\ NodesWereCreated
      /\ deletion # NoDeletion /\ StepFailed
  BY DEF JournalInv, FileStepFails, StepImpossible
<1>2. UNCHANGED <<disk, journal>> \/ (Possible(deletion.at) /\ StepWrites)
  BY DEF FileStepFails, StepImpossible
<1>3. disk' \in Disk /\ journal' \in Journals /\ NodesOn(disk') \subseteq NodesOn(disk)
  <2>1. CASE UNCHANGED <<disk, journal>>
    BY <1>1, <2>1 DEF JournalTypes
  <2> QED
    BY <1>1, <1>2, <2>1, StepTypes
<1>4. JournalTypes' /\ DeletesAreOfNodes' /\ NodesWereCreated' /\ (~undone' => ~undone)
  BY <1>1, <1>3, FailureTypes
<1>5. ASSUME ~undone' PROVE Fits(disk', journal', deletion', kept', begun', exposed')
  <2>1. Fits(disk, journal, deletion, kept, begun, exposed)
    BY <1>4, <1>5 DEF JournalInv
  <2>2. CASE UNCHANGED <<disk, journal>>
    <3>1. Fits(disk', journal', deletion, kept, begun, exposed)
      BY <2>1, <2>2
    <3> QED
      BY <1>1, <1>3, <1>5, <3>1, FailureFits
  <2>3. CASE Possible(deletion.at) /\ StepWrites /\ deletion.at \in DOMAIN Following
    <3> DEFINE next == [deletion EXCEPT !.at = Following[deletion.at]]
    <3>1. /\ next \in Deletions /\ next.at = Following[deletion.at]
          /\ next.node = deletion.node /\ next.existed = deletion.existed
          /\ deletion.at \in Forward => next.at \in Forward \cup {"dropNodeBackup"}
          /\ next.at \in Forward \cup Cleanup <=> deletion.at \in Forward \cup Cleanup
          /\ deletion.at = "sayNode" <=> next.at = "dropNodeBackup"
          /\ deletion.at \in Cleanup => next.at \in Cleanup
      BY <1>1, <2>3, FollowingTypes
    <3> HIDE DEF next
    <3>2. Fits(disk', journal', next, kept, begun, exposed)
      BY <1>1, <2>1, <2>3, <3>1, StepKeepsFit
    <3>3. deletion.at = "sayNode" => journal'.phase = "node_swapped"
      BY <2>3 DEF StepWrites, Says, LastSteps
    <3>4. deletion.at \in Forward /\ next.at \notin Forward => journal'.phase = "node_swapped"
      BY <3>1, <3>3
    <3>5. deletion.at \notin Forward => (next.at \in Cleanup <=> deletion.at \in Cleanup)
      BY <2>3, <3>1 DEF Following, Forward, Cleanup
    <3> QED
      BY <1>1, <1>3, <1>5, <3>1, <3>2, <3>4, <3>5, FailureFits
  <2>4. CASE StepWrites /\ deletion.at \in LastSteps
    <3>1. disk' = disk /\ journal' = NoJournalFile /\ disk \in Disk /\ journal \in Journals /\ exposed' = exposed
      BY <1>1, <2>4 DEF StepWrites, JournalTypes, StepFailed
    <3>2. CASE deletion.at = "dropJournal"
      <4>1. /\ deletion' = NoDeletion /\ begun' = begun
            /\ kept' = kept \ ({deletion.node} \cup FadenOf(deletion.node))
        BY <1>1, <3>2 DEF StepFailed, Acknowledged, Forward, Cleanup
      <4> QED
        BY <2>1, <3>1, <3>2, <4>1, AcknowledgedFits DEF Cleanup
    <3>3. CASE deletion.at = "removeJournal"
      <4>1. deletion' = NoDeletion /\ kept' = kept /\ begun' = begun
        BY <1>1, <3>1, <3>3 DEF StepFailed, DeleteRefused, Forward, Cleanup
      <4>2. deletion.existed \in BOOLEAN
        BY <1>1 DEF JournalTypes, Deletions
      <4> QED
        BY <2>1, <3>1, <3>3, <4>1, <4>2, JournalGone
    <3> QED
      BY <2>4, <3>2, <3>3 DEF LastSteps
  <2>5. deletion.at \in DOMAIN Following \cup LastSteps
    <3>1. deletion.at \in Forward \cup Cleanup \cup Undo \cup Commit \cup {"removeJournal"}
      BY <1>1 DEF JournalTypes, Deletions
    <3> QED
      BY <3>1 DEF Following, LastSteps, Forward, Cleanup, Undo, Commit
  <2> QED
    BY <1>2, <2>2, <2>3, <2>4, <2>5
<1> QED
  BY <1>4, <1>5 DEF JournalInv

LEMMA CutKeeps == JournalInv /\ (ServerDies \/ RequestDropped) => JournalInv'
<1> SUFFICES ASSUME JournalInv, ServerDies \/ RequestDropped PROVE JournalInv'
  OBVIOUS
<1>1. /\ JournalTypes /\ DeletesAreOfNodes /\ NodesWereCreated
      /\ deletion' = NoDeletion /\ CutOff /\ UNCHANGED <<disk, journal, kept, exposed, undone, used>>
  BY DEF JournalInv, ServerDies, RequestDropped
<1>2. JournalTypes' /\ DeletesAreOfNodes'
  BY <1>1 DEF JournalTypes, Deletions, DeletesAreOfNodes, NoDeletion, Forward, Cleanup
<1>3. NodesWereCreated'
  BY <1>1, StillCreated
<1>4. ASSUME ~undone' PROVE Fits(disk', journal', deletion', kept', begun', exposed')
  <2>1. Fits(disk, journal, deletion, kept, begun, exposed)
    BY <1>1, <1>4 DEF JournalInv
  <2>2. journal \in Journals /\ begun \subseteq begun' /\ (deletion.at \in Cleanup => deletion.node \in begun')
    BY <1>1 DEF JournalTypes, DeletesAreOfNodes, CutOff
  <2>3. Fits(disk, journal, NoDeletion, kept, begun', exposed)
    BY <2>1, <2>2, CutOffFits
  <2> QED
    BY <1>1, <2>3
<1> QED
  BY <1>2, <1>3, <1>4 DEF JournalInv

LEMMA StartKeeps ==
  ASSUME JournalInv, StartServer \/ \E n \in NodeIds : DeleteNode(n)
  PROVE  JournalInv'
<1>1. /\ JournalTypes /\ DeletesAreOfNodes /\ NodesWereCreated
      /\ deletion = NoDeletion /\ UNCHANGED <<disk, journal, kept, begun, exposed, undone, used>>
  BY DEF JournalInv, StartServer, DeleteNode
<1>2. \/ deletion' = NoDeletion
      \/ \E n \in NodeIds : deletion' = Deleting(n) /\ journal = NoJournalFile
      \/ \E n \in NodeIds : deletion' = Recovering("delete", n) /\ journal # NoJournalFile
      \/ deletion' = Recovering("start", NoNode) /\ journal # NoJournalFile
  BY DEF StartServer, DeleteNode
<1>3. deletion' \in Deletions
  BY <1>1, <1>2, NewDeletions
<1>4. JournalTypes' /\ DeletesAreOfNodes'
  BY <1>1, <1>2, <1>3 DEF JournalTypes, DeletesAreOfNodes, NoDeletion, Deleting, Recovering, RecoverAt, Forward, Cleanup
<1>5. NodesWereCreated'
  BY <1>1, StillCreated
<1>6. ASSUME ~undone' PROVE Fits(disk', journal', deletion', kept', begun', exposed')
  <2>1. Fits(disk, journal, NoDeletion, kept, begun, exposed)
    BY <1>1, <1>6 DEF JournalInv
  <2>2. /\ journal = NoJournalFile => \A n : Fits(disk, journal, Deleting(n), kept, begun, exposed)
        /\ journal # NoJournalFile => \A f, n : Fits(disk, journal, Recovering(f, n), kept, begun, exposed)
    BY <1>1, <2>1, StartFits DEF JournalTypes
  <2>3. Fits(disk, journal, deletion', kept, begun, exposed)
    BY <1>2, <2>1, <2>2
  <2> QED
    BY <1>1, <2>3
<1> QED
  BY <1>4, <1>5, <1>6 DEF JournalInv

\* The disk after a record is appended.
LEMMA AppendedFiles ==
  ASSUME disk \in Disk
  PROVE  /\ \A n \in NodeIds :
              Layout([disk EXCEPT !["nodes"] = FileOf(disk["nodes"].ids \cup {n})],
                     FileOf(disk.nodes.ids \cup {n}), disk.nodeTmp, disk.nodeBak, disk.edges, disk.edgeTmp, disk.edgeBak)
         /\ \A e \in EdgeIds :
              Layout([disk EXCEPT !["edges"] = FileOf(disk["edges"].ids \cup {e})],
                     disk.nodes, disk.nodeTmp, disk.nodeBak, FileOf(disk.edges.ids \cup {e}), disk.edgeTmp, disk.edgeBak)
<1>1. ASSUME NEW n \in NodeIds
      PROVE  Layout([disk EXCEPT !["nodes"] = FileOf(disk["nodes"].ids \cup {n})],
                    FileOf(disk.nodes.ids \cup {n}), disk.nodeTmp, disk.nodeBak, disk.edges, disk.edgeTmp, disk.edgeBak)
  <2>1. disk.nodes.ids \cup {n} \in SUBSET NodeIds
    BY Files DEF NodeFile
  <2> QED
    BY <2>1, Files DEF Disk, Layout
<1>2. ASSUME NEW e \in EdgeIds
      PROVE  Layout([disk EXCEPT !["edges"] = FileOf(disk["edges"].ids \cup {e})],
                    disk.nodes, disk.nodeTmp, disk.nodeBak, FileOf(disk.edges.ids \cup {e}), disk.edgeTmp, disk.edgeBak)
  <2>1. disk.edges.ids \cup {e} \in SUBSET EdgeIds
    BY Files DEF EdgeFile
  <2> QED
    BY <2>1, Files DEF Disk, Layout
<1> QED
  BY <1>1, <1>2

LEMMA CreateNodeKeeps ==
  ASSUME JournalInv, NEW n \in NodeIds, CreateNode(n)
  PROVE  JournalInv'
<1>1. /\ JournalTypes /\ DeletesAreOfNodes /\ NodesWereCreated
      /\ deletion = NoDeletion /\ n \notin used /\ used' = used \cup {n} /\ kept' = kept \cup {n}
      /\ UNCHANGED <<journal, deletion, begun, undone>>
      /\ disk' = [disk EXCEPT !["nodes"] = FileOf(disk["nodes"].ids \cup {n})]
      /\ exposed' = IF journal # NoJournalFile THEN exposed \cup {n} ELSE exposed
  BY DEF JournalInv, CreateNode, AppendRecord
<1>2. /\ disk \in Disk /\ journal \in Journals
      /\ Layout(disk', FileOf(disk.nodes.ids \cup {n}), disk.nodeTmp, disk.nodeBak,
                disk.edges, disk.edgeTmp, disk.edgeBak)
  BY <1>1, AppendedFiles DEF JournalTypes
<1>3. JournalTypes' /\ DeletesAreOfNodes'
  BY <1>1, <1>2 DEF JournalTypes, DeletesAreOfNodes, Layout
<1>4. /\ disk'.nodes.there /\ disk'.nodes.ids = disk.nodes.ids \cup {n}
      /\ disk'.nodeTmp = disk.nodeTmp /\ disk'.nodeBak = disk.nodeBak /\ disk'.edges = disk.edges /\ disk'.edgeBak = disk.edgeBak
  BY <1>2, Files DEF Layout
<1>5. NodesWereCreated'
  <2>1. n \notin EdgeIds
    BY JournalAssumption
  <2>2. \A e \in (kept' \cap EdgeIds) \ exposed' : NodeOf[e] \in used'
    BY <1>1, <2>1 DEF NodesWereCreated
  <2>3. disk'.nodes.ids \cup disk'.nodeTmp.ids \cup disk'.nodeBak.ids \subseteq used'
    BY <1>1, <1>4 DEF NodesWereCreated
  <2> QED
    BY <2>2, <2>3 DEF NodesWereCreated
<1>6. ASSUME ~undone' PROVE Fits(disk', journal', deletion', kept', begun', exposed')
  <2>1. Fits(disk, journal, NoDeletion, kept, begun, exposed)
    BY <1>1, <1>6 DEF JournalInv
  <2>2. CASE journal = NoJournalFile
    <3>1. Sound(disk.nodes.ids, disk.edges.ids, begun, kept, exposed)
      BY <2>1, <2>2 DEF Fits, FitsNoJournal, NoJournalFile
    <3>2. (kept \cap FadenOf(n)) \ exposed = {} /\ n \notin EdgeIds
      BY <1>1, JournalAssumption DEF NodesWereCreated, FadenOf
    <3>3. Sound(disk.nodes.ids \cup {n}, disk.edges.ids, begun, kept \cup {n}, exposed)
      BY <3>1, <3>2, SoundNewNode
    <3>4. Sound(disk'.nodes.ids, disk'.edges.ids, begun, kept', exposed')
      BY <1>1, <1>4, <2>2, <3>3
    <3> QED
      BY <1>1, <1>4, <2>1, <2>2, <3>4 DEF Fits, FitsNoJournal, FitsUndo, FitsForward, NoJournalFile, NoDeletion, Early
  <2>3. CASE journal # NoJournalFile
    <3>1. journal.phase \in Early \cup {"node_swapped"} /\ exposed' = exposed \cup {n}
      BY <1>1, <1>2, <2>3 DEF Journals, Phases, Early
    <3>2. ASSUME NEW N, NEW E, NEW N2, Sound(N, E, begun, kept, exposed), N2 \ {n} = N \ {n}
          PROVE  Sound(N2, E, begun, kept', exposed')
      <4>1. kept' \subseteq kept \cup exposed' /\ N2 \ exposed' = N \ exposed' /\ exposed \subseteq exposed'
        BY <1>1, <3>1, <3>2
      <4> QED
        BY <3>2, <4>1, SoundModulo
    <3>3. CASE journal.phase \in Early
      <4>1. Sound(OldNodes(disk), OldEdges(disk, journal.existed), begun, kept, exposed)
        BY <2>1, <3>3 DEF Fits, FitsRollback
      <4>2. OldNodes(disk') \ {n} = OldNodes(disk) \ {n} /\ OldEdges(disk', journal.existed) = OldEdges(disk, journal.existed)
        BY <1>4 DEF OldNodes, OldEdges
      <4>3. Sound(OldNodes(disk'), OldEdges(disk', journal.existed), begun, kept', exposed')
        BY <3>2, <4>1, <4>2
      <4> QED
        BY <1>1, <1>4, <2>1, <3>3, <4>3 DEF Fits, FitsRollback, FitsUndo, FitsForward, NoDeletion, Early, Commit, Cleanup
    <3>4. CASE journal.phase = "node_swapped"
      <4>0. begun \cup {} = begun
        OBVIOUS
      <4>1. Sound(disk.nodes.ids, disk.edges.ids, begun, kept, exposed)
        BY <2>1, <3>4, <4>0 DEF Fits, FitsCommit, NoDeletion, Cleanup
      <4>2. Sound(disk'.nodes.ids, disk'.edges.ids, begun, kept', exposed')
        BY <1>4, <3>2, <4>1
      <4> QED
        BY <1>1, <1>4, <2>1, <3>4, <4>0, <4>2 DEF Fits, FitsCommit, NoDeletion, Early, Commit, Cleanup
    <3> QED
      BY <3>1, <3>3, <3>4
  <2> QED
    BY <2>2, <2>3
<1> QED
  BY <1>3, <1>5, <1>6 DEF JournalInv

LEMMA CreateEdgeKeeps ==
  ASSUME JournalInv, NEW e \in EdgeIds, CreateEdge(e)
  PROVE  JournalInv'
<1>1. /\ JournalTypes /\ DeletesAreOfNodes /\ NodesWereCreated
      /\ deletion = NoDeletion /\ used' = used \cup {e} /\ kept' = kept \cup {e}
      /\ UNCHANGED <<journal, deletion, begun, undone>>
      /\ disk' = [disk EXCEPT !["edges"] = FileOf(disk["edges"].ids \cup {e})]
      /\ exposed' = IF journal # NoJournalFile \/ NodeOf[e] \notin disk.nodes.ids THEN exposed \cup {e} ELSE exposed
  BY DEF JournalInv, CreateEdge, AppendRecord
<1>2. /\ disk \in Disk /\ journal \in Journals
      /\ Layout(disk', disk.nodes, disk.nodeTmp, disk.nodeBak,
                FileOf(disk.edges.ids \cup {e}), disk.edgeTmp, disk.edgeBak)
  BY <1>1, AppendedFiles DEF JournalTypes
<1>3. JournalTypes' /\ DeletesAreOfNodes'
  BY <1>1, <1>2 DEF JournalTypes, DeletesAreOfNodes, Layout
<1>4. /\ disk'.edges.there /\ disk'.edges.ids = disk.edges.ids \cup {e}
      /\ disk'.nodes = disk.nodes /\ disk'.nodeTmp = disk.nodeTmp /\ disk'.nodeBak = disk.nodeBak /\ disk'.edgeBak = disk.edgeBak
  BY <1>2, Files DEF Layout
<1>5. NodesWereCreated'
  <2>1. \A f \in (kept' \cap EdgeIds) \ exposed' : NodeOf[f] \in used'
    BY <1>1 DEF NodesWereCreated
  <2>2. disk'.nodes.ids \cup disk'.nodeTmp.ids \cup disk'.nodeBak.ids \subseteq used'
    BY <1>1, <1>4 DEF NodesWereCreated
  <2> QED
    BY <2>1, <2>2 DEF NodesWereCreated
<1>6. ASSUME ~undone' PROVE Fits(disk', journal', deletion', kept', begun', exposed')
  <2>1. Fits(disk, journal, NoDeletion, kept, begun, exposed)
    BY <1>1, <1>6 DEF JournalInv
  <2>2. ASSUME NEW N, NEW E, NEW E2, Sound(N, E, begun, kept, exposed), E2 \ {e} = E \ {e}, exposed' = exposed \cup {e}
        PROVE  Sound(N, E2, begun, kept', exposed')
    <3>1. kept' \subseteq kept \cup exposed' /\ E2 \ exposed' = E \ exposed' /\ exposed \subseteq exposed'
      BY <1>1, <2>2
    <3> QED
      BY <2>2, <3>1, SoundModulo
  <2>3. CASE journal = NoJournalFile
    <3>1. Sound(disk.nodes.ids, disk.edges.ids, begun, kept, exposed)
      BY <2>1, <2>3 DEF Fits, FitsNoJournal, NoJournalFile
    <3>2. Sound(disk'.nodes.ids, disk'.edges.ids, begun, kept', exposed')
      <4>1. CASE NodeOf[e] \in disk.nodes.ids
        <5>1. Sound(disk.nodes.ids, disk.edges.ids \cup {e}, begun, kept \cup {e}, exposed)
          BY <3>1, <4>1, SoundNewFaden
        <5> QED
          BY <1>1, <1>4, <2>3, <4>1, <5>1
      <4>2. CASE NodeOf[e] \notin disk.nodes.ids
        <5>1. exposed' = exposed \cup {e} /\ disk'.edges.ids \ {e} = disk.edges.ids \ {e}
          BY <1>1, <1>4, <4>2
        <5> QED
          BY <1>4, <2>2, <3>1, <5>1
      <4> QED
        BY <4>1, <4>2
    <3> QED
      BY <1>1, <1>4, <2>1, <2>3, <3>2 DEF Fits, FitsNoJournal, FitsUndo, FitsForward, NoJournalFile, NoDeletion, Early
  <2>4. CASE journal # NoJournalFile
    <3>1. journal.phase \in Early \cup {"node_swapped"} /\ exposed' = exposed \cup {e}
      BY <1>1, <1>2, <2>4 DEF Journals, Phases, Early
    <3>2. CASE journal.phase \in Early
      <4>1. Sound(OldNodes(disk), OldEdges(disk, journal.existed), begun, kept, exposed)
        BY <2>1, <3>2 DEF Fits, FitsRollback
      <4>2. OldNodes(disk') = OldNodes(disk) /\ OldEdges(disk', journal.existed) \ {e} = OldEdges(disk, journal.existed) \ {e}
        BY <1>4 DEF OldNodes, OldEdges
      <4>3. Sound(OldNodes(disk'), OldEdges(disk', journal.existed), begun, kept', exposed')
        BY <2>2, <3>1, <4>1, <4>2
      <4> QED
        BY <1>1, <1>4, <2>1, <3>2, <4>3 DEF Fits, FitsRollback, FitsUndo, FitsForward, NoDeletion, Early, Commit, Cleanup
    <3>3. CASE journal.phase = "node_swapped"
      <4>0. begun \cup {} = begun
        OBVIOUS
      <4>1. Sound(disk.nodes.ids, disk.edges.ids, begun, kept, exposed)
        BY <2>1, <3>3, <4>0 DEF Fits, FitsCommit, NoDeletion, Cleanup
      <4>2. Sound(disk'.nodes.ids, disk'.edges.ids, begun, kept', exposed')
        <5>1. disk'.edges.ids \ {e} = disk.edges.ids \ {e}
          BY <1>4
        <5> QED
          BY <1>4, <2>2, <3>1, <4>1, <5>1
      <4> QED
        BY <1>1, <1>4, <2>1, <3>3, <4>0, <4>2 DEF Fits, FitsCommit, NoDeletion, Early, Commit, Cleanup
    <3> QED
      BY <3>1, <3>2, <3>3
  <2> QED
    BY <2>3, <2>4
<1> QED
  BY <1>3, <1>5, <1>6 DEF JournalInv

-----------------------------------------------------------------------------
(* The theorem *)

LEMMA NextJournal == JournalInv /\ [JournalNext]_journalVars => JournalInv'
<1> SUFFICES ASSUME JournalInv, [JournalNext]_journalVars PROVE JournalInv'
  OBVIOUS
<1>1. CASE UNCHANGED journalVars
  BY <1>1 DEF journalVars, JournalInv, JournalTypes, DeletesAreOfNodes, NodesWereCreated
<1>2. CASE StartServer \/ \E n \in NodeIds : DeleteNode(n)
  BY <1>2, StartKeeps
<1>3. CASE \E n \in NodeIds : CreateNode(n)
  BY <1>3, CreateNodeKeeps
<1>4. CASE \E e \in EdgeIds : CreateEdge(e)
  BY <1>4, CreateEdgeKeeps
<1>5. CASE FileStep
  BY <1>5, FileStepKeeps
<1>6. CASE LastStep
  BY <1>6, LastStepKeeps
<1>7. CASE FileStepFails \/ StepImpossible
  BY <1>7, FailureKeeps
<1>8. CASE ServerDies \/ RequestDropped
  BY <1>8, CutKeeps
<1> QED
  BY <1>1, <1>2, <1>3, <1>4, <1>5, <1>6, <1>7, <1>8 DEF JournalNext

\* A delete is all or nothing, however often it fails, is cut off, is rolled
\* back or is recovered: when the process serves with no journal left, no
\* acknowledged record is missing and no Faden is without its node.
THEOREM NodeDeleteIsAtomic == JournalSpec => []DeleteIsAtomic
<1>1. JournalInv => DeleteIsAtomic
  <2> SUFFICES ASSUME JournalInv, deletion = NoDeletion, journal = NoJournalFile, ~undone
               PROVE  /\ disk.nodes.there /\ ~disk.nodeBak.there /\ ~disk.edgeBak.there
                      /\ Sound(disk.nodes.ids, disk.edges.ids, begun, kept, exposed)
    BY DEF DeleteIsAtomic, Sound
  <2> QED
    BY DEF JournalInv, Fits, FitsNoJournal, NoJournalFile
<1> QED
  BY <1>1, InitJournal, NextJournal, PTL DEF JournalSpec

(***************************************************************************)
(* Web push hints.  The limit on attempts is a count that no single row    *)
(* shows: a result may come from a loop that lost its lease long ago and   *)
(* send the delivery back to "retry" while another loop is sending it.     *)
(* The argument is that each attempt number is claimed once, that only the *)
(* result of an attempt below the limit leads to a retry, and that every   *)
(* result uses its claim up.  Spent(k) collects the numbers below the      *)
(* limit whose claim is gone; the attempts of a delivery are charged to    *)
(* them and to its lapses.                                                 *)
(***************************************************************************)

VendorAnswers == {"sent", "gone", "retry", "quarantined"}
PushClaim == [key : PushKeys, attempt : Nat, answer : {"none"} \cup VendorAnswers]
PushRow == [status : {"none"} \cup OpenStatus \cup FinalStatus, attempts : Nat, lapsed : BOOLEAN]

PushTypes ==
    /\ delivery \in [PushKeys -> PushRow]
    /\ claimed \in [Loops -> Seq(PushClaim)]
    /\ answers \in [PushKeys -> SUBSET VendorAnswers]
    /\ settledAs \in [PushKeys -> {"none"} \cup FinalStatus]
    /\ lapses \in [PushKeys -> Nat]
    /\ LockedRows \subseteq PushKeys

\* A claim is of an attempt that was made, and its answer was given.
ClaimsAreReal ==
    \A l \in Loops : \A i \in 1..Len(claimed[l]) :
        /\ claimed[l][i].attempt >= 1
        /\ claimed[l][i].attempt <= delivery[claimed[l][i].key].attempts
        /\ claimed[l][i].answer = "none" \/ claimed[l][i].answer \in answers[claimed[l][i].key]

\* No attempt of a delivery is claimed twice.
ClaimsAreDistinct ==
    \A l, m \in Loops : \A i \in 1..Len(claimed[l]) : \A j \in 1..Len(claimed[m]) :
        /\ claimed[l][i].key = claimed[m][j].key
        /\ claimed[l][i].attempt = claimed[m][j].attempt
        => l = m /\ i = j

\* The rows an open request is about to retire are not settled behind its back.
LockedAreOpen == \A k \in LockedRows : delivery[k].status \in OpenStatus

\* The final status of a delivery is the first one it had, and has its reason.
FinalIsFirst ==
    \A k \in PushKeys :
        /\ delivery[k].status \in FinalStatus => settledAs[k] = delivery[k].status
        /\ settledAs[k] # "none" => delivery[k].status = settledAs[k]
FinalHasReason ==
    \A k \in PushKeys :
        /\ delivery[k].status = "sent" => "sent" \in answers[k]
        /\ delivery[k].status = "quarantined" =>
              "quarantined" \in answers[k] \/ delivery[k].attempts >= PushAttempts

\* Some loop holds attempt n of k.
HeldAttempt(k, n) ==
    \E l \in Loops : \E i \in 1..Len(claimed[l]) :
        claimed[l][i].key = k /\ claimed[l][i].attempt = n
Spent(k) == {n \in 1..(PushAttempts - 1) : n <= delivery[k].attempts /\ ~HeldAttempt(k, n)}

\* A delivery that may be claimed: none of its attempts is current.
Claimed(r) == IF r.status \in {"none", "pending", "retry"} \/ r.lapsed THEN 0 ELSE 1
AttemptsAreCharged ==
    \A k \in PushKeys :
        delivery[k].attempts <= Cardinality(Spent(k)) + lapses[k] + Claimed(delivery[k])

PushInv ==
    /\ PushTypes /\ ClaimsAreReal /\ ClaimsAreDistinct /\ LockedAreOpen
    /\ FinalIsFirst /\ FinalHasReason /\ AttemptsAreCharged

-----------------------------------------------------------------------------
(* Counting *)

LEMMA KeysAreFinite == IsFiniteSet(PushKeys)
  BY PushAssumption, FS_Product DEF PushKeys

LEMMA AttemptsAssumption == PushAttempts \in Nat \ {0} /\ PushBatch \in Nat
  BY PushAssumption

\* The attempts below the limit are one fewer than the limit.
LEMMA SpentIsSmall ==
  ASSUME NEW k \in PushKeys
  PROVE  /\ IsFiniteSet(Spent(k))
         /\ Cardinality(Spent(k)) \in Nat
         /\ Cardinality(Spent(k)) <= PushAttempts - 1
<1>1. PushAttempts - 1 \in Nat
  BY AttemptsAssumption
<1>2. /\ IsFiniteSet(1..(PushAttempts - 1))
      /\ Cardinality(1..(PushAttempts - 1)) = PushAttempts - 1
  BY <1>1, FS_Interval
<1>3. Spent(k) \in SUBSET (1..(PushAttempts - 1))
  BY DEF Spent
<1>4. IsFiniteSet(Spent(k)) /\ Cardinality(Spent(k)) <= PushAttempts - 1
  BY <1>2, <1>3, FS_Subset
<1> QED
  BY <1>4, FS_CardinalityType

LEMMA SpentPrimed ==
  ASSUME NEW k \in PushKeys
  PROVE  IsFiniteSet(Spent(k)') /\ Cardinality(Spent(k)') \in Nat
<1>1. PushAttempts - 1 \in Nat
  BY AttemptsAssumption
<1>2. Spent(k)' \in SUBSET (1..(PushAttempts - 1))
  BY DEF Spent
<1>3. IsFiniteSet(1..(PushAttempts - 1))
  BY <1>1, FS_Interval
<1>4. IsFiniteSet(Spent(k)')
  BY <1>2, <1>3, FS_Subset
<1> QED
  BY <1>4, FS_CardinalityType

\* Claims that disappear leave their numbers spent.
LEMMA SpentGrows ==
  ASSUME NEW k \in PushKeys, PushTypes, PushTypes',
         delivery'[k].attempts >= delivery[k].attempts,
         \A n \in 1..(PushAttempts - 1) :
            n <= delivery[k].attempts /\ HeldAttempt(k, n)' => HeldAttempt(k, n)
  PROVE  Spent(k) \subseteq Spent(k)' /\ Cardinality(Spent(k)) <= Cardinality(Spent(k)')
<1>0. delivery[k].attempts \in Nat /\ delivery'[k].attempts \in Nat /\ PushAttempts - 1 \in Nat
  BY AttemptsAssumption DEF PushTypes, PushRow
<1>1. Spent(k) \subseteq Spent(k)'
  BY <1>0 DEF Spent
<1> QED
  BY <1>1, SpentPrimed, FS_Subset

-----------------------------------------------------------------------------
(* The claims of the loops *)

\* What holds of a claim in its batch.
LEMMA ClaimType ==
  ASSUME PushTypes, NEW l \in Loops, NEW i \in 1..Len(claimed[l])
  PROVE  claimed[l][i] \in PushClaim
  BY ElementOfSeq DEF PushTypes

\* A loop whose batch is not empty has a first claim.
LEMMA FirstClaim ==
  ASSUME PushTypes, NEW l \in Loops, claimed[l] # <<>>
  PROVE  1 \in 1..Len(claimed[l]) /\ claimed[l][1] \in PushClaim
<1>1. claimed[l] \in Seq(PushClaim)
  BY DEF PushTypes
<1>2. 1 \in 1..Len(claimed[l])
  BY <1>1, EmptySeq
<1> QED
  BY <1>1, <1>2, ElementOfSeq

\* Where the claims of a loop are after its first one is gone, or all are.
LEMMA Shrinks ==
  ASSUME PushTypes, NEW l \in Loops, claimed[l] # <<>>, NEW rest,
         rest = Tail(claimed[l]) \/ rest = <<>>, claimed' = [claimed EXCEPT ![l] = rest]
  PROVE  /\ claimed' \in [Loops -> Seq(PushClaim)]
         /\ \A m \in Loops : \A i \in 1..Len(claimed'[m]) :
              \E j \in 1..Len(claimed[m]) :
                 claimed'[m][i] = claimed[m][j] /\ (m = l => j = i + 1) /\ (m # l => j = i)
<1>0. claimed \in [Loops -> Seq(PushClaim)] /\ claimed[l] \in Seq(PushClaim)
  BY DEF PushTypes
<1>1. rest \in Seq(PushClaim)
  BY <1>0, HeadTailProperties, EmptySeq
<1>2. claimed'[l] = rest /\ \A m \in Loops \ {l} : claimed'[m] = claimed[m]
  BY <1>0
<1>3. ASSUME NEW i \in 1..Len(rest)
      PROVE  i + 1 \in 1..Len(claimed[l]) /\ rest[i] = claimed[l][i + 1]
  <2>1. rest # <<>>
    BY EmptySeq
  <2>2. rest = Tail(claimed[l])
    BY <2>1
  <2>3. Len(claimed[l]) \in Nat /\ Len(rest) = Len(claimed[l]) - 1 /\ rest[i] = claimed[l][i + 1]
    BY <1>0, <2>2, HeadTailProperties, LenProperties
  <2> QED
    BY <2>3
<1>4. ASSUME NEW m \in Loops, NEW i \in 1..Len(claimed'[m])
      PROVE  \E j \in 1..Len(claimed[m]) :
                 claimed'[m][i] = claimed[m][j] /\ (m = l => j = i + 1) /\ (m # l => j = i)
  <2>1. CASE m = l
    BY <1>2, <1>3, <2>1
  <2>2. CASE m # l
    BY <1>2, <2>2
  <2> QED
    BY <2>1, <2>2
<1> QED
  BY <1>0, <1>1, <1>4

\* Losing claims keeps the rest real and distinct.
LEMMA ShrinkKeeps ==
  ASSUME PushTypes, ClaimsAreReal, ClaimsAreDistinct,
         NEW l \in Loops, claimed[l] # <<>>, NEW rest,
         rest = Tail(claimed[l]) \/ rest = <<>>, claimed' = [claimed EXCEPT ![l] = rest],
         \A k \in PushKeys : delivery'[k].attempts = delivery[k].attempts,
         UNCHANGED answers
  PROVE  /\ ClaimsAreReal' /\ ClaimsAreDistinct'
         /\ \A k, n : HeldAttempt(k, n)' => HeldAttempt(k, n)
         /\ \A k, n : k = claimed[l][1].key /\ n = claimed[l][1].attempt => ~HeldAttempt(k, n)'
<1>1. \A m \in Loops : \A i \in 1..Len(claimed'[m]) :
              \E j \in 1..Len(claimed[m]) :
                 claimed'[m][i] = claimed[m][j] /\ (m = l => j = i + 1) /\ (m # l => j = i)
  BY Shrinks
<1>2. \A m \in Loops : \A i \in 1..Len(claimed[m]) : claimed[m][i].key \in PushKeys
  BY ClaimType DEF PushClaim
<1>3. ClaimsAreReal'
  BY <1>1, <1>2 DEF ClaimsAreReal
<1>4. ClaimsAreDistinct'
  <2> SUFFICES ASSUME NEW m \in Loops, NEW p \in Loops,
                      NEW i \in 1..Len(claimed'[m]), NEW j \in 1..Len(claimed'[p]),
                      claimed'[m][i].key = claimed'[p][j].key,
                      claimed'[m][i].attempt = claimed'[p][j].attempt
               PROVE  m = p /\ i = j
    BY DEF ClaimsAreDistinct
  <2>1. PICK a \in 1..Len(claimed[m]) :
          claimed'[m][i] = claimed[m][a] /\ (m = l => a = i + 1) /\ (m # l => a = i)
    BY <1>1
  <2>2. PICK b \in 1..Len(claimed[p]) :
          claimed'[p][j] = claimed[p][b] /\ (p = l => b = j + 1) /\ (p # l => b = j)
    BY <1>1
  <2>3. /\ claimed[m][a].key = claimed[p][b].key
        /\ claimed[m][a].attempt = claimed[p][b].attempt
    BY <2>1, <2>2
  <2>4. m = p /\ a = b
    BY <2>3 DEF ClaimsAreDistinct
  <2> QED
    BY <2>1, <2>2, <2>4
<1>5. \A k, n : HeldAttempt(k, n)' => HeldAttempt(k, n)
  BY <1>1 DEF HeldAttempt
<1>6. \A k, n : k = claimed[l][1].key /\ n = claimed[l][1].attempt => ~HeldAttempt(k, n)'
  <2> SUFFICES ASSUME NEW m \in Loops, NEW i \in 1..Len(claimed'[m]),
                      claimed'[m][i].key = claimed[l][1].key,
                      claimed'[m][i].attempt = claimed[l][1].attempt
               PROVE  FALSE
    BY DEF HeldAttempt
  <2>1. PICK a \in 1..Len(claimed[m]) :
          claimed'[m][i] = claimed[m][a] /\ (m = l => a = i + 1) /\ (m # l => a = i)
    BY <1>1
  <2>2. 1 \in 1..Len(claimed[l])
    BY FirstClaim
  <2>3. m = l /\ a = 1
    BY <2>1, <2>2 DEF ClaimsAreDistinct
  <2> QED
    BY <2>1, <2>3
<1> QED
  BY <1>3, <1>4, <1>5, <1>6

-----------------------------------------------------------------------------
(* Steps that leave the claims alone *)

LEMMA ClaimedBound ==
  ASSUME NEW r
  PROVE  Claimed(r) \in {0, 1}
  BY DEF Claimed

\* No attempt begins or ends.
LEMMA ClaimsStay ==
  ASSUME PushTypes, ClaimsAreReal, ClaimsAreDistinct, UNCHANGED <<claimed, answers>>,
         \A k \in PushKeys : delivery'[k].attempts = delivery[k].attempts
  PROVE  /\ ClaimsAreReal' /\ ClaimsAreDistinct'
         /\ \A k \in PushKeys : Cardinality(Spent(k)') = Cardinality(Spent(k))
<1>1. \A m \in Loops : \A i \in 1..Len(claimed[m]) : claimed[m][i].key \in PushKeys
  BY ClaimType DEF PushClaim
<1>2. ClaimsAreReal'
  BY <1>1 DEF ClaimsAreReal
<1>3. ClaimsAreDistinct'
  BY DEF ClaimsAreDistinct
<1>4. \A k \in PushKeys : Spent(k)' = Spent(k)
  BY DEF Spent, HeldAttempt
<1> QED
  BY <1>2, <1>3, <1>4

LEMMA InitPush == PushInit => PushInv
<1> SUFFICES ASSUME PushInit PROVE PushInv
  OBVIOUS
<1>1. PushTypes
  BY EmptySeq DEF PushInit, PushTypes, NoDelivery, PushRow, NoRequest, LockedRows
<1>2. ClaimsAreReal /\ ClaimsAreDistinct
  BY DEF PushInit, ClaimsAreReal, ClaimsAreDistinct
<1>3. LockedAreOpen /\ FinalIsFirst /\ FinalHasReason
  BY DEF PushInit, LockedAreOpen, LockedRows, NoRequest, FinalIsFirst, FinalHasReason, NoDelivery, FinalStatus
<1>4. AttemptsAreCharged
  <2> SUFFICES ASSUME NEW k \in PushKeys
               PROVE  delivery[k].attempts <= Cardinality(Spent(k)) + lapses[k] + Claimed(delivery[k])
    BY DEF AttemptsAreCharged
  <2>1. delivery[k].attempts = 0 /\ lapses[k] = 0
    BY DEF PushInit, NoDelivery
  <2> QED
    BY <2>1, SpentIsSmall, ClaimedBound
<1> QED
  BY <1>1, <1>2, <1>3, <1>4 DEF PushInv

\* Requests begin by finding rows that are still open, and may be rolled back.
LEMMA RequestKeeps ==
  ASSUME PushInv, UNCHANGED <<delivery, claimed, answers, settledAs, lapses>>,
         \/ UNCHANGED LockedRows
         \/ LockedRows' = {}
         \/ \E ds : LockedRows' = OpenOn(ds)
  PROVE  PushInv'
<1>1. LockedRows' \subseteq PushKeys /\ \A k \in LockedRows' : delivery[k].status \in OpenStatus
  BY DEF PushInv, PushTypes, LockedAreOpen, OpenOn
<1>2. PushTypes' /\ LockedAreOpen'
  BY <1>1 DEF PushInv, PushTypes, LockedAreOpen
<1>3. ClaimsAreReal' /\ ClaimsAreDistinct' /\ \A k \in PushKeys : Cardinality(Spent(k)') = Cardinality(Spent(k))
  BY ClaimsStay DEF PushInv
<1>4. FinalIsFirst' /\ FinalHasReason'
  BY DEF PushInv, FinalIsFirst, FinalHasReason
<1>5. AttemptsAreCharged'
  BY <1>3 DEF PushInv, AttemptsAreCharged
<1> QED
  BY <1>2, <1>3, <1>4, <1>5 DEF PushInv

LEMMA Recorded ==
  ASSUME NEW rows, Deliveries(rows)
  PROVE  /\ delivery' = rows
         /\ settledAs' = [k \in PushKeys |-> IF delivery'[k].status \in FinalStatus /\ settledAs[k] = "none"
                                            THEN delivery'[k].status ELSE settledAs[k]]
  BY DEF Deliveries, RecordsFinal

\* A request settles the rows it has locked.
LEMMA CommitKeeps ==
  ASSUME PushInv, CommitRequest
  PROVE  PushInv'
<1>0. /\ delivery \in [PushKeys -> PushRow] /\ settledAs \in [PushKeys -> {"none"} \cup FinalStatus]
      /\ LockedRows \subseteq PushKeys /\ LockedRows = request.retires
      /\ lapses \in [PushKeys -> Nat]
  BY DEF PushInv, PushTypes, LockedRows
<1>1. /\ delivery' = [k \in PushKeys |-> IF k \in LockedRows
                        THEN [delivery[k] EXCEPT !.status = RetiredAs, !.lapsed = FALSE] ELSE delivery[k]]
      /\ settledAs' = [k \in PushKeys |-> IF delivery'[k].status \in FinalStatus /\ settledAs[k] = "none"
                                          THEN delivery'[k].status ELSE settledAs[k]]
      /\ LockedRows' = {} /\ UNCHANGED <<claimed, answers, lapses>>
  <2> DEFINE rows == [k \in PushKeys |-> IF k \in request.retires
                THEN [delivery[k] EXCEPT !.status = RetiredAs, !.lapsed = FALSE] ELSE delivery[k]]
  <2>1. Deliveries(rows) /\ request' = NoRequest /\ UNCHANGED <<claimed, answers, lapses>>
    BY DEF CommitRequest
  <2>2. LockedRows' = {}
    BY <2>1 DEF LockedRows, NoRequest
  <2> HIDE DEF rows
  <2>3. /\ delivery' = rows
        /\ settledAs' = [k \in PushKeys |-> IF delivery'[k].status \in FinalStatus /\ settledAs[k] = "none"
                                           THEN delivery'[k].status ELSE settledAs[k]]
    BY <2>1, Recorded
  <2>4. rows = [k \in PushKeys |-> IF k \in LockedRows
                  THEN [delivery[k] EXCEPT !.status = RetiredAs, !.lapsed = FALSE] ELSE delivery[k]]
    BY <1>0 DEF rows
  <2> QED
    BY <2>1, <2>2, <2>3, <2>4
<1>2. RetiredAs \in FinalStatus \ {"sent", "quarantined"}
  BY DEF RetiredAs, FinalStatus
<1>3. \A k \in PushKeys :
        IF k \in LockedRows
        THEN /\ delivery'[k] \in PushRow /\ delivery'[k].status = RetiredAs
             /\ delivery'[k].attempts = delivery[k].attempts /\ delivery'[k].lapsed = FALSE
        ELSE delivery'[k] = delivery[k]
  BY <1>0, <1>1, <1>2 DEF PushRow
<1>4. delivery' \in [PushKeys -> PushRow]
  BY <1>0, <1>1, <1>3
<1>5. settledAs' \in [PushKeys -> {"none"} \cup FinalStatus]
  BY <1>0, <1>1
<1>6. PushTypes' /\ LockedAreOpen'
  BY <1>1, <1>4, <1>5 DEF PushInv, PushTypes, LockedAreOpen
<1>7. ClaimsAreReal' /\ ClaimsAreDistinct' /\ \A k \in PushKeys : Cardinality(Spent(k)') = Cardinality(Spent(k))
  BY <1>1, <1>3, ClaimsStay DEF PushInv
<1>8. ASSUME NEW k \in PushKeys
      PROVE  /\ delivery'[k].status \in FinalStatus => settledAs'[k] = delivery'[k].status
             /\ settledAs'[k] # "none" => delivery'[k].status = settledAs'[k]
  <2>1. settledAs'[k] = IF delivery'[k].status \in FinalStatus /\ settledAs[k] = "none"
                        THEN delivery'[k].status ELSE settledAs[k]
    BY <1>1
  <2>2. CASE k \in LockedRows
    <3>1. settledAs[k] = "none"
      BY <2>2 DEF PushInv, LockedAreOpen, FinalIsFirst, OpenStatus, FinalStatus, PushTypes
    <3> QED
      BY <1>2, <1>3, <2>1, <2>2, <3>1
  <2>3. CASE k \notin LockedRows
    BY <1>3, <2>1, <2>3 DEF PushInv, FinalIsFirst, FinalStatus
  <2> QED
    BY <2>2, <2>3
<1>9. FinalIsFirst'
  BY <1>8 DEF FinalIsFirst
<1>10. FinalHasReason'
  BY <1>1, <1>2, <1>3 DEF PushInv, FinalHasReason
<1>11. ASSUME NEW k \in PushKeys
       PROVE  delivery'[k].attempts <= Cardinality(Spent(k)') + lapses'[k] + Claimed(delivery'[k])
  <2>1. delivery[k].attempts <= Cardinality(Spent(k)) + lapses[k] + Claimed(delivery[k])
    BY DEF PushInv, AttemptsAreCharged
  <2>2. Claimed(delivery[k]) <= Claimed(delivery'[k]) /\ Claimed(delivery[k]) \in Nat /\ Claimed(delivery'[k]) \in Nat
    BY <1>2, <1>3 DEF Claimed, FinalStatus
  <2>3. delivery[k].attempts \in Nat /\ Cardinality(Spent(k)) \in Nat /\ lapses[k] \in Nat
    BY <1>0, SpentIsSmall DEF PushRow
  <2>4. /\ delivery'[k].attempts = delivery[k].attempts /\ lapses'[k] = lapses[k]
        /\ Cardinality(Spent(k)') = Cardinality(Spent(k))
    BY <1>1, <1>3, <1>7
  <2> QED
    BY <2>1, <2>2, <2>3, <2>4
<1> QED
  BY <1>6, <1>7, <1>9, <1>10, <1>11 DEF PushInv, AttemptsAreCharged

\* A new delivery has no attempts and is locked by nobody.
LEMMA MaterializeKeeps ==
  ASSUME PushInv, NEW h \in Hints, materialize_direct_message_deliveries(h)
  PROVE  PushInv'
<1> DEFINE fresh == [NoDelivery EXCEPT !.status = "pending"]
<1>0. /\ delivery \in [PushKeys -> PushRow] /\ settledAs \in [PushKeys -> {"none"} \cup FinalStatus]
      /\ lapses \in [PushKeys -> Nat]
  BY DEF PushInv, PushTypes
<1>1. UNCHANGED <<claimed, request, answers, settledAs, lapses>>
  BY DEF materialize_direct_message_deliveries
<1>2. \A k \in PushKeys :
        \/ delivery'[k] = delivery[k]
        \/ delivery[k] = NoDelivery /\ delivery'[k] = fresh
  BY DEF materialize_direct_message_deliveries, PushKeys
<1>3. fresh \in PushRow /\ fresh.status = "pending" /\ fresh.attempts = 0 /\ ~fresh.lapsed
  BY DEF NoDelivery, PushRow, OpenStatus
<1> HIDE DEF fresh
<1>4. delivery' \in [PushKeys -> PushRow]
  <2>1. \A k \in PushKeys : delivery'[k] \in PushRow
    BY <1>0, <1>2, <1>3 DEF PushRow, OpenStatus
  <2>2. \E f : delivery' = [k \in PushKeys |-> f[k]]
    <3>1. delivery' = [k \in PushKeys |-> delivery'[k]]
      BY DEF materialize_direct_message_deliveries
    <3> QED
      BY <3>1
  <2> QED
    BY <2>1, <2>2
<1>5. \A k \in PushKeys : delivery'[k].attempts = delivery[k].attempts
  BY <1>2, <1>3 DEF NoDelivery
<1>6. ClaimsAreReal' /\ ClaimsAreDistinct' /\ \A k \in PushKeys : Cardinality(Spent(k)') = Cardinality(Spent(k))
  BY <1>1, <1>5, ClaimsStay DEF PushInv
<1>7. PushTypes' /\ LockedAreOpen'
  <2>1. PushTypes'
    BY <1>1, <1>4 DEF PushInv, PushTypes, LockedRows
  <2>2. \A k \in LockedRows : delivery'[k] = delivery[k]
    <3> TAKE k \in LockedRows
    <3>1. k \in PushKeys /\ delivery[k].status \in OpenStatus
      BY DEF PushInv, PushTypes, LockedAreOpen
    <3>2. NoDelivery.status \notin OpenStatus
      BY DEF NoDelivery, OpenStatus
    <3> QED
      BY <1>2, <3>1, <3>2
  <2>3. LockedAreOpen'
    BY <1>1, <2>2 DEF PushInv, LockedAreOpen, LockedRows
  <2> QED
    BY <2>1, <2>3
<1>8. FinalIsFirst' /\ FinalHasReason'
  <2>1. \A k \in PushKeys : \/ delivery'[k] = delivery[k]
                            \/ delivery[k].status = "none" /\ delivery'[k].status = "pending"
    BY <1>2, <1>3 DEF NoDelivery
  <2>2. FinalHasReason'
    BY <1>1, <1>5, <2>1 DEF PushInv, FinalHasReason
  <2>3. \A k \in PushKeys : delivery[k].status = "none" => settledAs[k] = "none"
    BY <1>0 DEF PushInv, FinalIsFirst, FinalStatus
  <2>4. FinalIsFirst'
    BY <1>1, <2>1, <2>3 DEF PushInv, FinalIsFirst, FinalStatus
  <2> QED
    BY <2>2, <2>4
<1>9. \A k \in PushKeys : Claimed(delivery'[k]) = Claimed(delivery[k])
  BY <1>2, <1>3 DEF Claimed, NoDelivery
<1>10. AttemptsAreCharged'
  BY <1>1, <1>5, <1>6, <1>9 DEF PushInv, AttemptsAreCharged
<1> QED
  BY <1>6, <1>7, <1>8, <1>10 DEF PushInv

\* A lease that lapses pays for the attempt that may now be made.
LEMMA LapseKeeps ==
  ASSUME PushInv, NEW k \in PushKeys, LeaseLapses(k)
  PROVE  PushInv'
<1>0. /\ delivery \in [PushKeys -> PushRow] /\ lapses \in [PushKeys -> Nat]
      /\ delivery[k].status = "sending" /\ ~delivery[k].lapsed
      /\ UNCHANGED <<claimed, request, answers, settledAs>>
  BY DEF PushInv, PushTypes, LeaseLapses
<1>1. /\ delivery' \in [PushKeys -> PushRow] /\ lapses' \in [PushKeys -> Nat]
      /\ delivery'[k].status = "sending" /\ delivery'[k].lapsed /\ lapses'[k] = lapses[k] + 1
      /\ \A j \in PushKeys : /\ delivery'[j].attempts = delivery[j].attempts
                             /\ delivery'[j].status = delivery[j].status
                             /\ j # k => delivery'[j] = delivery[j] /\ lapses'[j] = lapses[j]
  <2>1. /\ delivery' = [delivery EXCEPT ![k].lapsed = TRUE]
        /\ lapses' = [lapses EXCEPT ![k] = @ + 1]
    BY DEF LeaseLapses
  <2>2. lapses' \in [PushKeys -> Nat] /\ lapses'[k] = lapses[k] + 1
        /\ \A j \in PushKeys \ {k} : delivery'[j] = delivery[j] /\ lapses'[j] = lapses[j]
    BY <1>0, <2>1
  <2>3. delivery'[k] = [delivery[k] EXCEPT !.lapsed = TRUE] /\ delivery[k] \in PushRow
    BY <1>0, <2>1
  <2>4. /\ delivery'[k] \in PushRow /\ delivery'[k].status = "sending" /\ delivery'[k].lapsed
        /\ delivery'[k].attempts = delivery[k].attempts
    BY <1>0, <2>3 DEF PushRow
  <2>5. delivery' \in [PushKeys -> PushRow]
    BY <1>0, <2>1, <2>3, <2>4
  <2> QED
    BY <1>0, <2>2, <2>4, <2>5
<1>2. ClaimsAreReal' /\ ClaimsAreDistinct' /\ \A j \in PushKeys : Cardinality(Spent(j)') = Cardinality(Spent(j))
  BY <1>0, <1>1, ClaimsStay DEF PushInv
<1>3. PushTypes' /\ LockedAreOpen'
  BY <1>0, <1>1 DEF PushInv, PushTypes, LockedAreOpen, LockedRows
<1>4. FinalIsFirst' /\ FinalHasReason'
  BY <1>0, <1>1 DEF PushInv, FinalIsFirst, FinalHasReason
<1>5. ASSUME NEW j \in PushKeys
      PROVE  delivery'[j].attempts <= Cardinality(Spent(j)') + lapses'[j] + Claimed(delivery'[j])
  <2>1. delivery[j].attempts <= Cardinality(Spent(j)) + lapses[j] + Claimed(delivery[j])
    BY DEF PushInv, AttemptsAreCharged
  <2>2. CASE j # k
    BY <1>1, <1>2, <2>1, <2>2
  <2>3. CASE j = k
    <3>1. Claimed(delivery[j]) = 1 /\ Claimed(delivery'[j]) = 0
      BY <1>0, <1>1, <2>3 DEF Claimed
    <3>2. delivery[j].attempts \in Nat /\ Cardinality(Spent(j)) \in Nat /\ lapses[j] \in Nat
      BY <1>0, SpentIsSmall DEF PushRow
    <3> QED
      BY <1>1, <1>2, <2>1, <2>3, <3>1, <3>2
  <2> QED
    BY <2>2, <2>3
<1> QED
  BY <1>2, <1>3, <1>4, <1>5 DEF PushInv, AttemptsAreCharged

-----------------------------------------------------------------------------
(* Steps of the delivery loops *)

\* The vendor's answer is noted with the claim and in the ghost.
LEMMA SendKeeps ==
  ASSUME PushInv, NEW l \in Loops, NEW answer \in VendorAnswers, send_private_message_hint(l, answer)
  PROVE  PushInv'
<1> DEFINE c == claimed[l][1]
<1> DEFINE told == [c EXCEPT !.answer = answer]
<1>0. /\ claimed \in [Loops -> Seq(PushClaim)] /\ claimed[l] \in Seq(PushClaim)
      /\ answers \in [PushKeys -> SUBSET VendorAnswers]
      /\ c \in PushClaim /\ 1 \in 1..Len(claimed[l])
      /\ UNCHANGED <<delivery, request, settledAs, lapses>>
  BY FirstClaim DEF PushInv, PushTypes, send_private_message_hint
<1>1. told \in PushClaim /\ told.key = c.key /\ told.attempt = c.attempt /\ told.answer = answer
  BY <1>0 DEF PushClaim
<1>2. claimed' = [claimed EXCEPT ![l] = [claimed[l] EXCEPT ![1] = told]]
  BY DEF send_private_message_hint
<1> HIDE DEF told
<1>3. /\ claimed' \in [Loops -> Seq(PushClaim)]
      /\ Len(claimed'[l]) = Len(claimed[l])
      /\ \A i \in 1..Len(claimed[l]) : claimed'[l][i] = IF i = 1 THEN told ELSE claimed[l][i]
      /\ \A m \in Loops \ {l} : claimed'[m] = claimed[m]
  <2>1. /\ [claimed[l] EXCEPT ![1] = told] \in Seq(PushClaim)
        /\ Len([claimed[l] EXCEPT ![1] = told]) = Len(claimed[l])
        /\ \A j \in 1..Len(claimed[l]) : [claimed[l] EXCEPT ![1] = told][j] = IF j = 1 THEN told ELSE claimed[l][j]
    BY <1>0, <1>1, ExceptSeq
  <2>2. claimed'[l] = [claimed[l] EXCEPT ![1] = told]
    BY <1>0, <1>2
  <2> QED
    BY <1>0, <1>2, <2>1, <2>2
<1>4. \A m \in Loops :
        /\ Len(claimed'[m]) = Len(claimed[m])
        /\ \A i \in 1..Len(claimed[m]) :
             /\ claimed'[m][i].key = claimed[m][i].key
             /\ claimed'[m][i].attempt = claimed[m][i].attempt
             /\ \/ claimed'[m][i].answer = claimed[m][i].answer
                \/ claimed'[m][i].answer = answer /\ claimed[m][i].key = c.key
  BY <1>1, <1>3
<1>5. /\ answers' \in [PushKeys -> SUBSET VendorAnswers]
      /\ \A k \in PushKeys : answers[k] \subseteq answers'[k]
      /\ answer \in answers'[c.key]
  <2>1. answers' = [answers EXCEPT ![c.key] = @ \cup {answer}] /\ c.key \in PushKeys
    BY <1>0 DEF send_private_message_hint, PushClaim
  <2> QED
    BY <1>0, <2>1
<1>6. PushTypes' /\ LockedAreOpen'
  BY <1>0, <1>3, <1>5 DEF PushInv, PushTypes, LockedAreOpen, LockedRows
<1>7. ClaimsAreReal'
  <2>1. \A m \in Loops : \A i \in 1..Len(claimed[m]) : claimed[m][i].key \in PushKeys
    BY ClaimType DEF PushClaim, PushInv
  <2>2. ASSUME NEW m \in Loops, NEW i \in 1..Len(claimed'[m])
        PROVE  /\ claimed'[m][i].attempt >= 1
               /\ claimed'[m][i].attempt <= delivery'[claimed'[m][i].key].attempts
               /\ claimed'[m][i].answer = "none" \/ claimed'[m][i].answer \in answers'[claimed'[m][i].key]
    <3>1. i \in 1..Len(claimed[m])
      BY <1>4
    <3>2. /\ claimed[m][i].attempt >= 1
          /\ claimed[m][i].attempt <= delivery[claimed[m][i].key].attempts
          /\ claimed[m][i].answer = "none" \/ claimed[m][i].answer \in answers[claimed[m][i].key]
      BY <3>1 DEF PushInv, ClaimsAreReal
    <3>3. claimed[m][i].key \in PushKeys
      BY <2>1, <3>1
    <3> QED
      BY <1>0, <1>4, <1>5, <3>1, <3>2, <3>3
  <2> QED
    BY <2>2 DEF ClaimsAreReal
<1>8. ClaimsAreDistinct'
  BY <1>4 DEF PushInv, ClaimsAreDistinct
<1>9. FinalIsFirst' /\ FinalHasReason'
  BY <1>0, <1>5 DEF PushInv, FinalIsFirst, FinalHasReason
<1>10. \A k, n : HeldAttempt(k, n)' <=> HeldAttempt(k, n)
  <2> TAKE k, n
  <2>1. ASSUME NEW m \in Loops
        PROVE  (\E i \in 1..Len(claimed'[m]) : claimed'[m][i].key = k /\ claimed'[m][i].attempt = n)
               <=> (\E i \in 1..Len(claimed[m]) : claimed[m][i].key = k /\ claimed[m][i].attempt = n)
    <3>1. Len(claimed'[m]) = Len(claimed[m])
      BY <1>4
    <3>2. \A i \in 1..Len(claimed[m]) : /\ claimed'[m][i].key = claimed[m][i].key
                                        /\ claimed'[m][i].attempt = claimed[m][i].attempt
      BY <1>4
    <3> QED
      BY <3>1, <3>2
  <2> QED
    BY <2>1 DEF HeldAttempt
<1>11. \A k \in PushKeys : Spent(k)' = Spent(k)
  BY <1>0, <1>10 DEF Spent
<1>12. AttemptsAreCharged'
  BY <1>0, <1>11 DEF PushInv, AttemptsAreCharged
<1> QED
  BY <1>6, <1>7, <1>8, <1>9, <1>12 DEF PushInv

\* Claims that are dropped change no row.
LEMMA DropKeeps ==
  ASSUME PushInv, NEW l \in Loops, FinishFails(l) \/ LoopDies(l)
  PROVE  PushInv'
<1>0. /\ claimed[l] # <<>>
      /\ UNCHANGED <<delivery, request, answers, settledAs, lapses>>
      /\ claimed' = [claimed EXCEPT ![l] = Tail(claimed[l])] \/ claimed' = [claimed EXCEPT ![l] = <<>>]
  BY DEF FinishFails, LoopDies, VendorAnswered
<1>1. /\ ClaimsAreReal' /\ ClaimsAreDistinct'
      /\ \A k, n : HeldAttempt(k, n)' => HeldAttempt(k, n)
  <2>1. CASE claimed' = [claimed EXCEPT ![l] = Tail(claimed[l])]
    BY <1>0, <2>1, ShrinkKeeps DEF PushInv
  <2>2. CASE claimed' = [claimed EXCEPT ![l] = <<>>]
    BY <1>0, <2>2, ShrinkKeeps DEF PushInv
  <2> QED
    BY <1>0, <2>1, <2>2
<1>2. PushTypes' /\ LockedAreOpen'
  <2>1. claimed' \in [Loops -> Seq(PushClaim)]
    <3>1. CASE claimed' = [claimed EXCEPT ![l] = Tail(claimed[l])]
      BY <1>0, <3>1, Shrinks DEF PushInv
    <3>2. CASE claimed' = [claimed EXCEPT ![l] = <<>>]
      BY <1>0, <3>2, Shrinks DEF PushInv
    <3> QED
      BY <1>0, <3>1, <3>2
  <2> QED
    BY <1>0, <2>1 DEF PushInv, PushTypes, LockedAreOpen, LockedRows
<1>3. FinalIsFirst' /\ FinalHasReason'
  BY <1>0 DEF PushInv, FinalIsFirst, FinalHasReason
<1>4. ASSUME NEW k \in PushKeys
      PROVE  delivery'[k].attempts <= Cardinality(Spent(k)') + lapses'[k] + Claimed(delivery'[k])
  <2>1. delivery[k].attempts <= Cardinality(Spent(k)) + lapses[k] + Claimed(delivery[k])
    BY DEF PushInv, AttemptsAreCharged
  <2>2. delivery[k].attempts \in Nat /\ lapses[k] \in Nat
    BY DEF PushInv, PushTypes, PushRow
  <2>3. Cardinality(Spent(k)) <= Cardinality(Spent(k)')
    <3>1. delivery'[k].attempts >= delivery[k].attempts
      BY <1>0, <2>2
    <3>2. \A n \in 1..(PushAttempts - 1) :
            n <= delivery[k].attempts /\ HeldAttempt(k, n)' => HeldAttempt(k, n)
      BY <1>1
    <3>3. PushTypes
      BY DEF PushInv
    <3> QED
      BY <1>2, <3>1, <3>2, <3>3, SpentGrows
  <2>4. Cardinality(Spent(k)) \in Nat
    BY SpentIsSmall
  <2>5. Cardinality(Spent(k)') \in Nat
    BY SpentPrimed
  <2> QED
    BY <1>0, <2>1, <2>2, <2>3, <2>4, <2>5, ClaimedBound
<1> QED
  BY <1>1, <1>2, <1>3, <1>4 DEF PushInv, AttemptsAreCharged

\* What a result makes of the delivery.
LEMMA StatusOfResult ==
  ASSUME PushInv, NEW c \in PushClaim, c.answer # "none"
  PROVE  /\ StatusOf(c) \in {"retry"} \cup FinalStatus
         /\ StatusOf(c) = "sent" => c.answer = "sent"
         /\ StatusOf(c) = "quarantined" => c.answer = "quarantined" \/ c.attempt >= PushAttempts
         /\ StatusOf(c) = "retry" => c.attempt < PushAttempts
<1>1. c.answer \in VendorAnswers /\ c.attempt \in Nat /\ PushAttempts \in Nat
  BY AttemptsAssumption DEF PushClaim
<1>2. CASE c.answer \in {"sent", "gone"}
  BY <1>2 DEF StatusOf, FinalStatus
<1>3. CASE c.answer = "retry" /\ c.attempt < PushAttempts
  BY <1>3 DEF StatusOf
<1>4. CASE c.answer = "quarantined" \/ (c.answer = "retry" /\ ~(c.attempt < PushAttempts))
  <2>1. StatusOf(c) = "quarantined"
    BY <1>4 DEF StatusOf
  <2> QED
    BY <1>1, <1>4, <2>1 DEF FinalStatus
<1> QED
  BY <1>1, <1>2, <1>3, <1>4 DEF VendorAnswers

\* A result settles a delivery that is being sent, whoever sends it now, and
\* uses up the claim it belongs to.
LEMMA FinishKeeps ==
  ASSUME PushInv, NEW l \in Loops, finish_delivery(l)
  PROVE  PushInv'
<1> DEFINE c == claimed[l][1]
           k == c.key
<1>0. /\ PushTypes /\ ClaimsAreReal /\ ClaimsAreDistinct /\ LockedAreOpen
      /\ FinalIsFirst /\ FinalHasReason /\ AttemptsAreCharged
  BY DEF PushInv
<1>1. /\ claimed[l] # <<>> /\ c.answer # "none" /\ c.key \notin LockedRows
      /\ Deliveries(SettledBy(c)) /\ claimed' = [claimed EXCEPT ![l] = Tail(claimed[l])]
      /\ UNCHANGED <<request, answers, lapses>>
  BY DEF finish_delivery, VendorAnswered
<1>2. c \in PushClaim /\ k \in PushKeys /\ 1 \in 1..Len(claimed[l])
  BY <1>0, <1>1, FirstClaim DEF PushClaim
<1>3. c.attempt \in Nat /\ c.attempt >= 1 /\ c.attempt <= delivery[k].attempts /\ c.answer \in answers[k]
  BY <1>0, <1>1, <1>2 DEF ClaimsAreReal, PushClaim
<1>4. HeldAttempt(k, c.attempt)
  BY <1>2 DEF HeldAttempt
<1>5. /\ delivery \in [PushKeys -> PushRow] /\ settledAs \in [PushKeys -> {"none"} \cup FinalStatus]
      /\ lapses \in [PushKeys -> Nat]
  BY <1>0 DEF PushTypes
<1>6. /\ delivery' = SettledBy(c)
      /\ settledAs' = [j \in PushKeys |-> IF delivery'[j].status \in FinalStatus /\ settledAs[j] = "none"
                                          THEN delivery'[j].status ELSE settledAs[j]]
  BY <1>1, Recorded
<1> HIDE DEF c, k
<1>7. /\ StatusOf(c) \in {"retry"} \cup FinalStatus
      /\ StatusOf(c) = "sent" => c.answer = "sent"
      /\ StatusOf(c) = "quarantined" => c.answer = "quarantined" \/ c.attempt >= PushAttempts
      /\ StatusOf(c) = "retry" => c.attempt < PushAttempts
  BY <1>1, <1>2, StatusOfResult
<1> DEFINE settles == delivery[k].status = "sending"
<1>8. /\ \A j \in PushKeys : ~(settles /\ j = k) => delivery'[j] = delivery[j]
      /\ settles => /\ delivery'[k] \in PushRow /\ delivery'[k].status = StatusOf(c)
                    /\ delivery'[k].attempts = delivery[k].attempts /\ ~delivery'[k].lapsed
      /\ delivery' \in [PushKeys -> PushRow]
  <2>1. CASE settles
    <3>1. delivery' = [delivery EXCEPT ![k] = [delivery[k] EXCEPT !.status = StatusOf(c), !.lapsed = FALSE]]
      BY <1>2, <1>5, <1>6, <2>1 DEF SettledBy, k
    <3>2. delivery'[k] = [delivery[k] EXCEPT !.status = StatusOf(c), !.lapsed = FALSE] /\ delivery[k] \in PushRow
      BY <1>2, <1>5, <3>1
    <3>3. /\ delivery'[k] \in PushRow /\ delivery'[k].status = StatusOf(c)
          /\ delivery'[k].attempts = delivery[k].attempts /\ ~delivery'[k].lapsed
      BY <1>7, <3>2 DEF PushRow, OpenStatus
    <3>4. \A j \in PushKeys \ {k} : delivery'[j] = delivery[j]
      BY <1>5, <3>1
    <3>5. delivery' \in [PushKeys -> PushRow]
      BY <1>2, <1>5, <3>1, <3>2, <3>3
    <3> QED
      BY <2>1, <3>3, <3>4, <3>5
  <2>2. CASE ~settles
    BY <1>5, <1>6, <2>2 DEF SettledBy, k
  <2> QED
    BY <2>1, <2>2
<1>9. \A j \in PushKeys : delivery'[j].attempts = delivery[j].attempts
  BY <1>8
<1>10. /\ ClaimsAreReal' /\ ClaimsAreDistinct'
       /\ \A j, n : HeldAttempt(j, n)' => HeldAttempt(j, n)
       /\ \A j, n : j = k /\ n = c.attempt => ~HeldAttempt(j, n)'
  BY <1>0, <1>1, <1>9, ShrinkKeeps DEF c, k
<1>11. settledAs' \in [PushKeys -> {"none"} \cup FinalStatus]
  BY <1>5, <1>6
<1>12. PushTypes'
  <2>1. claimed' \in [Loops -> Seq(PushClaim)]
    BY <1>0, <1>1, Shrinks
  <2> QED
    BY <1>0, <1>1, <1>8, <1>11, <2>1 DEF PushTypes, LockedRows
<1>13. LockedAreOpen'
  <2>1. LockedRows' = LockedRows /\ LockedRows \subseteq PushKeys /\ k \notin LockedRows
    BY <1>0, <1>1 DEF LockedRows, PushTypes, k
  <2> QED
    BY <1>0, <1>8, <2>1 DEF LockedAreOpen
<1>14. FinalIsFirst'
  <2> SUFFICES ASSUME NEW j \in PushKeys
               PROVE  /\ delivery'[j].status \in FinalStatus => settledAs'[j] = delivery'[j].status
                      /\ settledAs'[j] # "none" => delivery'[j].status = settledAs'[j]
    BY DEF FinalIsFirst
  <2>1. settledAs'[j] = IF delivery'[j].status \in FinalStatus /\ settledAs[j] = "none"
                        THEN delivery'[j].status ELSE settledAs[j]
    BY <1>6
  <2>2. /\ delivery[j].status \in FinalStatus => settledAs[j] = delivery[j].status
        /\ settledAs[j] # "none" => delivery[j].status = settledAs[j]
        /\ settledAs[j] \in {"none"} \cup FinalStatus
    BY <1>0, <1>5 DEF FinalIsFirst
  <2>3. CASE settles /\ j = k
    <3>1. settledAs[j] = "none"
      BY <2>2, <2>3 DEF FinalStatus
    <3> QED
      BY <2>1, <3>1
  <2>4. CASE ~(settles /\ j = k)
    BY <1>8, <2>1, <2>2, <2>4 DEF FinalStatus
  <2> QED
    BY <2>3, <2>4
<1>15. FinalHasReason'
  <2> SUFFICES ASSUME NEW j \in PushKeys
               PROVE  /\ delivery'[j].status = "sent" => "sent" \in answers[j]
                      /\ delivery'[j].status = "quarantined" =>
                            "quarantined" \in answers[j] \/ delivery'[j].attempts >= PushAttempts
    BY <1>1 DEF FinalHasReason
  <2>1. CASE settles /\ j = k
    <3>1. delivery[k].attempts \in Nat /\ PushAttempts \in Nat
      BY <1>2, <1>5, AttemptsAssumption DEF PushRow
    <3>2. c.attempt >= PushAttempts => delivery'[k].attempts >= PushAttempts
      BY <1>3, <1>8, <2>1, <3>1
    <3> QED
      BY <1>3, <1>7, <1>8, <2>1, <3>2
  <2>2. CASE ~(settles /\ j = k)
    BY <1>0, <1>8, <2>2 DEF FinalHasReason
  <2> QED
    BY <2>1, <2>2
<1>16. ASSUME NEW j \in PushKeys
       PROVE  delivery'[j].attempts <= Cardinality(Spent(j)') + lapses'[j] + Claimed(delivery'[j])
  <2>1. delivery[j].attempts <= Cardinality(Spent(j)) + lapses[j] + Claimed(delivery[j])
    BY <1>0 DEF AttemptsAreCharged
  <2>2. /\ delivery[j].attempts \in Nat /\ lapses[j] \in Nat /\ Cardinality(Spent(j)) \in Nat
        /\ Cardinality(Spent(j)') \in Nat /\ delivery'[j].attempts = delivery[j].attempts
        /\ lapses'[j] = lapses[j]
    BY <1>1, <1>5, <1>9, SpentIsSmall, SpentPrimed DEF PushRow
  <2>3. Spent(j) \subseteq Spent(j)' /\ Cardinality(Spent(j)) <= Cardinality(Spent(j)')
    <3>1. delivery'[j].attempts >= delivery[j].attempts
      BY <2>2
    <3> QED
      BY <1>0, <1>10, <1>12, <3>1, SpentGrows
  <2>4. Claimed(delivery[j]) \in {0, 1} /\ Claimed(delivery'[j]) \in {0, 1}
    BY ClaimedBound
  <2>5. CASE settles /\ j = k /\ StatusOf(c) = "retry"
    <3>1. PushAttempts \in Nat /\ c.attempt \in 1..(PushAttempts - 1)
      BY <1>3, <1>7, <2>5, AttemptsAssumption
    <3>2. c.attempt \notin Spent(j) /\ c.attempt \in Spent(j)'
      <4>1. HeldAttempt(j, c.attempt)
        BY <1>4, <2>5
      <4>2. \A n : n = c.attempt => ~HeldAttempt(j, n)'
        BY <1>10, <2>5
      <4>3. \A n : n = c.attempt => n \in Spent(j)'
        BY <1>3, <2>2, <2>5, <3>1, <4>2 DEF Spent
      <4>4. c.attempt \notin Spent(j)
        BY <4>1 DEF Spent
      <4> QED
        BY <4>3, <4>4
    <3>3. Cardinality(Spent(j)) + 1 <= Cardinality(Spent(j)')
      <4>1. IsFiniteSet(Spent(j)) /\ IsFiniteSet(Spent(j)')
        BY SpentIsSmall, SpentPrimed
      <4>2. Cardinality(Spent(j) \cup {c.attempt}) = Cardinality(Spent(j)) + 1
        BY <3>2, <4>1, FS_AddElement
      <4>3. Spent(j) \cup {c.attempt} \in SUBSET (Spent(j)')
        BY <2>3, <3>2
      <4>4. Cardinality(Spent(j) \cup {c.attempt}) <= Cardinality(Spent(j)')
        BY <4>1, <4>3, FS_Subset
      <4> QED
        BY <4>2, <4>4
    <3> QED
      BY <2>1, <2>2, <2>4, <3>3
  <2>6. CASE settles /\ j = k /\ StatusOf(c) # "retry"
    <3>1. Claimed(delivery'[j]) = 1
      BY <1>7, <1>8, <2>6 DEF Claimed, FinalStatus
    <3> QED
      BY <2>1, <2>2, <2>3, <2>4, <3>1
  <2>7. CASE ~(settles /\ j = k)
    <3>1. delivery'[j] = delivery[j]
      BY <1>8, <2>7
    <3> QED
      BY <2>1, <2>2, <2>3, <2>4, <3>1
  <2> QED
    BY <2>5, <2>6, <2>7
<1> QED
  BY <1>10, <1>12, <1>13, <1>14, <1>15, <1>16 DEF PushInv, AttemptsAreCharged

\* What a claim writes: the next attempt of each delivery in the batch, in the
\* rows and in the loop's list.
LEMMA ClaimWrites ==
  ASSUME PushTypes, NEW l \in Loops, claim_deliveries(l)
  PROVE  \E picked \in SUBSET {k \in PushKeys : Claimable(k)} :
           /\ \A k \in PushKeys :
                IF k \in picked
                THEN /\ delivery'[k].status = "sending" /\ ~delivery'[k].lapsed
                     /\ delivery'[k].attempts = delivery[k].attempts + 1
                ELSE delivery'[k] = delivery[k]
           /\ delivery' \in [PushKeys -> PushRow]
           /\ claimed' \in [Loops -> Seq(PushClaim)]
           /\ \A m \in Loops \ {l} : claimed'[m] = claimed[m]
           /\ \A i \in 1..Len(claimed'[l]) :
                /\ claimed'[l][i].key \in picked /\ claimed'[l][i].answer = "none"
                /\ claimed'[l][i].attempt = delivery[claimed'[l][i].key].attempts + 1
           /\ \A i, j \in 1..Len(claimed'[l]) : i # j => claimed'[l][i].key # claimed'[l][j].key
<1>0. claimed \in [Loops -> Seq(PushClaim)] /\ delivery \in [PushKeys -> PushRow]
  BY DEF PushTypes
<1>1. PICK picked \in SUBSET {k \in PushKeys : Claimable(k)} :
        /\ delivery' = [k \in PushKeys |-> IF k \in picked
              THEN [status |-> "sending", attempts |-> delivery[k].attempts + 1, lapsed |-> FALSE] ELSE delivery[k]]
        /\ \E order \in SetToSeqs(picked) :
              claimed' = [claimed EXCEPT ![l] = [i \in 1..Len(order) |->
                  [key |-> order[i], attempt |-> delivery[order[i]].attempts + 1, answer |-> "none"]]]
  BY DEF claim_deliveries
<1>2. PICK order \in SetToSeqs(picked) :
        claimed' = [claimed EXCEPT ![l] = [i \in 1..Len(order) |->
            [key |-> order[i], attempt |-> delivery[order[i]].attempts + 1, answer |-> "none"]]]
  BY <1>1
<1> DEFINE n == Cardinality(picked)
           entry(i) == [key |-> order[i], attempt |-> delivery[order[i]].attempts + 1, answer |-> "none"]
<1>3. n \in Nat
  <2>1. picked \in SUBSET PushKeys
    OBVIOUS
  <2>2. IsFiniteSet(picked)
    BY <2>1, KeysAreFinite, FS_Subset
  <2> QED
    BY <2>2, FS_CardinalityType
<1>4. order \in [1..n -> picked] /\ \A i, j \in 1..n : i # j => order[i] # order[j]
  BY DEF SetToSeqs
<1> HIDE DEF n
<1>5. Len(order) = n
  BY <1>3, <1>4
<1>6. claimed' = [claimed EXCEPT ![l] = [i \in 1..n |-> entry(i)]]
  BY <1>2, <1>5
<1>7. \A i \in 1..n : entry(i) \in PushClaim /\ entry(i).key = order[i] /\ entry(i).answer = "none"
                      /\ entry(i).attempt = delivery[order[i]].attempts + 1
  <2> TAKE i \in 1..n
  <2>1. order[i] \in picked /\ order[i] \in PushKeys
    BY <1>4
  <2>2. delivery[order[i]].attempts \in Nat
    BY <1>0, <2>1 DEF PushRow
  <2> QED
    BY <2>1, <2>2 DEF PushClaim
<1> HIDE DEF entry
<1>8. /\ claimed'[l] = [i \in 1..n |-> entry(i)]
      /\ \A m \in Loops \ {l} : claimed'[m] = claimed[m]
  BY <1>0, <1>6
<1>9. /\ [i \in 1..n |-> entry(i)] \in Seq(PushClaim)
      /\ Len([i \in 1..n |-> entry(i)]) = n
  BY <1>3, <1>7
<1>10. claimed' \in [Loops -> Seq(PushClaim)]
  BY <1>0, <1>6, <1>9
<1>11. ASSUME NEW i \in 1..Len(claimed'[l])
       PROVE  /\ i \in 1..n /\ claimed'[l][i] = entry(i)
              /\ claimed'[l][i].key = order[i]
              /\ claimed'[l][i].key \in picked /\ claimed'[l][i].answer = "none"
              /\ claimed'[l][i].attempt = delivery[claimed'[l][i].key].attempts + 1
  <2>1. i \in 1..n
    BY <1>8, <1>9
  <2>2. claimed'[l][i] = entry(i)
    BY <1>8, <2>1
  <2> QED
    BY <1>4, <1>7, <2>1, <2>2
<1>12. \A i, j \in 1..Len(claimed'[l]) : i # j => claimed'[l][i].key # claimed'[l][j].key
  BY <1>4, <1>11
<1>13. \A k \in PushKeys :
         IF k \in picked
         THEN /\ delivery'[k].status = "sending" /\ ~delivery'[k].lapsed
              /\ delivery'[k].attempts = delivery[k].attempts + 1
              /\ delivery'[k] \in PushRow
         ELSE delivery'[k] = delivery[k]
  <2> TAKE k \in PushKeys
  <2>1. delivery[k].attempts \in Nat
    BY <1>0 DEF PushRow
  <2>2. CASE k \in picked
    <3>1. delivery'[k] = [status |-> "sending", attempts |-> delivery[k].attempts + 1, lapsed |-> FALSE]
      BY <1>1, <2>2
    <3> QED
      BY <2>1, <2>2, <3>1 DEF PushRow, OpenStatus
  <2>3. CASE k \notin picked
    BY <1>1, <2>3
  <2> QED
    BY <2>2, <2>3
<1>14. delivery' \in [PushKeys -> PushRow]
  <2>1. \A k \in PushKeys : delivery'[k] \in PushRow
    BY <1>0, <1>13
  <2>2. delivery' = [k \in PushKeys |-> delivery'[k]]
    BY <1>1
  <2> QED
    BY <2>1, <2>2
<1>15. \A k \in PushKeys :
         IF k \in picked
         THEN /\ delivery'[k].status = "sending" /\ ~delivery'[k].lapsed
              /\ delivery'[k].attempts = delivery[k].attempts + 1
         ELSE delivery'[k] = delivery[k]
  BY <1>13
<1>16. \A i \in 1..Len(claimed'[l]) :
         /\ claimed'[l][i].key \in picked /\ claimed'[l][i].answer = "none"
         /\ claimed'[l][i].attempt = delivery[claimed'[l][i].key].attempts + 1
  BY <1>11
<1> WITNESS picked \in SUBSET {k \in PushKeys : Claimable(k)}
<1> QED
  BY <1>8, <1>10, <1>12, <1>14, <1>15, <1>16, Zenon

LEMMA ClaimKeeps ==
  ASSUME PushInv, NEW l \in Loops, claim_deliveries(l)
  PROVE  PushInv'
<1>0. /\ PushTypes /\ ClaimsAreReal /\ ClaimsAreDistinct /\ LockedAreOpen
      /\ FinalIsFirst /\ FinalHasReason /\ AttemptsAreCharged
  BY DEF PushInv
<1>1. PICK picked \in SUBSET {k \in PushKeys : Claimable(k)} :
           /\ \A k \in PushKeys :
                IF k \in picked
                THEN /\ delivery'[k].status = "sending" /\ ~delivery'[k].lapsed
                     /\ delivery'[k].attempts = delivery[k].attempts + 1
                ELSE delivery'[k] = delivery[k]
           /\ delivery' \in [PushKeys -> PushRow]
           /\ claimed' \in [Loops -> Seq(PushClaim)]
           /\ \A m \in Loops \ {l} : claimed'[m] = claimed[m]
           /\ \A i \in 1..Len(claimed'[l]) :
                /\ claimed'[l][i].key \in picked /\ claimed'[l][i].answer = "none"
                /\ claimed'[l][i].attempt = delivery[claimed'[l][i].key].attempts + 1
           /\ \A i, j \in 1..Len(claimed'[l]) : i # j => claimed'[l][i].key # claimed'[l][j].key
  BY <1>0, ClaimWrites
<1>2. /\ UNCHANGED <<request, answers, settledAs, lapses>> /\ claimed[l] = <<>>
  BY DEF claim_deliveries
<1>3. /\ delivery \in [PushKeys -> PushRow] /\ settledAs \in [PushKeys -> {"none"} \cup FinalStatus]
      /\ lapses \in [PushKeys -> Nat]
      /\ \A k \in PushKeys : delivery[k].attempts \in Nat
  BY <1>0 DEF PushTypes, PushRow
<1>4. ASSUME NEW k \in picked
      PROVE  /\ k \in PushKeys /\ k \notin LockedRows /\ Claimed(delivery[k]) = 0
             /\ delivery[k].status \in OpenStatus /\ settledAs[k] = "none"
  <2>1. k \in PushKeys /\ Claimable(k)
    OBVIOUS
  <2>2. k \notin LockedRows /\ delivery[k].status \in OpenStatus /\ Claimed(delivery[k]) = 0
    BY <2>1 DEF Claimable, Claimed, OpenStatus
  <2>3. settledAs[k] = "none"
    BY <1>0, <1>3, <2>1, <2>2 DEF FinalIsFirst, OpenStatus, FinalStatus
  <2> QED
    BY <2>1, <2>2, <2>3
<1>5. PushTypes'
  BY <1>0, <1>1, <1>2 DEF PushTypes, LockedRows
<1>6. LockedAreOpen'
  <2>1. LockedRows' = LockedRows /\ \A k \in LockedRows : k \in PushKeys /\ delivery'[k] = delivery[k]
    BY <1>0, <1>1, <1>2, <1>4 DEF LockedRows, PushTypes
  <2> QED
    BY <1>0, <2>1 DEF LockedAreOpen
<1>7. FinalIsFirst' /\ FinalHasReason'
  <2>1. \A k \in PushKeys :
          \/ delivery'[k] = delivery[k]
          \/ delivery'[k].status = "sending" /\ settledAs[k] = "none"
    BY <1>1, <1>4
  <2>2. FinalIsFirst'
    BY <1>0, <1>2, <2>1 DEF FinalIsFirst, FinalStatus
  <2>3. FinalHasReason'
    BY <1>0, <1>2, <2>1 DEF FinalHasReason
  <2> QED
    BY <2>2, <2>3
\* Claims of before and of this batch.
<1>8. ASSUME NEW m \in Loops, NEW i \in 1..Len(claimed'[m])
      PROVE  IF m = l
             THEN /\ claimed'[m][i].key \in picked /\ claimed'[m][i].answer = "none"
                  /\ claimed'[m][i].attempt = delivery[claimed'[m][i].key].attempts + 1
                  /\ claimed'[m][i].key \in PushKeys
             ELSE /\ i \in 1..Len(claimed[m]) /\ claimed'[m][i] = claimed[m][i]
                  /\ claimed[m][i].key \in PushKeys /\ claimed[m][i].attempt \in Nat
                  /\ claimed[m][i].attempt >= 1
                  /\ claimed[m][i].attempt <= delivery[claimed[m][i].key].attempts
                  /\ claimed[m][i].answer = "none" \/ claimed[m][i].answer \in answers[claimed[m][i].key]
  <2>1. CASE m = l
    BY <1>1, <1>4, <2>1
  <2>2. CASE m # l
    <3>1. claimed'[m] = claimed[m]
      BY <1>1, <2>2
    <3>2. claimed[m][i] \in PushClaim
      BY <1>0, <3>1, ClaimType
    <3> QED
      BY <1>0, <2>2, <3>1, <3>2 DEF ClaimsAreReal, PushClaim
  <2> QED
    BY <2>1, <2>2
<1>9. \A k \in PushKeys : delivery'[k].attempts \in Nat /\ delivery[k].attempts <= delivery'[k].attempts
  <2> TAKE k \in PushKeys
  <2>1. delivery'[k].attempts = delivery[k].attempts + 1 \/ delivery'[k].attempts = delivery[k].attempts
    BY <1>1
  <2>2. delivery[k].attempts \in Nat
    BY <1>3
  <2> QED
    BY <2>1, <2>2
<1>10. ClaimsAreReal'
  <2> SUFFICES ASSUME NEW m \in Loops, NEW i \in 1..Len(claimed'[m])
               PROVE  /\ claimed'[m][i].attempt >= 1
                      /\ claimed'[m][i].attempt <= delivery'[claimed'[m][i].key].attempts
                      /\ claimed'[m][i].answer = "none" \/ claimed'[m][i].answer \in answers[claimed'[m][i].key]
    BY <1>2 DEF ClaimsAreReal
  <2>1. CASE m = l
    BY <1>1, <1>3, <1>8, <2>1
  <2>2. CASE m # l
    <3>1. /\ claimed'[m][i] = claimed[m][i] /\ claimed[m][i].attempt \in Nat
          /\ claimed[m][i].key \in PushKeys /\ claimed[m][i].attempt >= 1
          /\ claimed[m][i].attempt <= delivery[claimed[m][i].key].attempts
          /\ claimed[m][i].answer = "none" \/ claimed[m][i].answer \in answers[claimed[m][i].key]
      BY <1>8, <2>2
    <3>2. /\ delivery[claimed[m][i].key].attempts \in Nat /\ delivery'[claimed[m][i].key].attempts \in Nat
          /\ delivery[claimed[m][i].key].attempts <= delivery'[claimed[m][i].key].attempts
      BY <1>3, <1>9, <3>1
    <3> QED
      BY <3>1, <3>2
  <2> QED
    BY <2>1, <2>2
<1>11. ClaimsAreDistinct'
  <2> SUFFICES ASSUME NEW m \in Loops, NEW p \in Loops,
                      NEW i \in 1..Len(claimed'[m]), NEW j \in 1..Len(claimed'[p]),
                      claimed'[m][i].key = claimed'[p][j].key,
                      claimed'[m][i].attempt = claimed'[p][j].attempt
               PROVE  m = p /\ i = j
    BY DEF ClaimsAreDistinct
  <2>1. CASE m = l /\ p = l
    BY <1>1, <2>1
  <2>2. CASE m = l /\ p # l
    <3>1. /\ claimed'[m][i].attempt = delivery[claimed'[m][i].key].attempts + 1
          /\ claimed'[m][i].key \in PushKeys
      BY <1>8, <2>2
    <3>2. claimed'[p][j].attempt \in Nat /\ claimed'[p][j].attempt <= delivery[claimed'[p][j].key].attempts
      BY <1>8, <2>2
    <3> QED
      BY <1>3, <3>1, <3>2
  <2>3. CASE m # l /\ p = l
    <3>1. /\ claimed'[p][j].attempt = delivery[claimed'[p][j].key].attempts + 1
          /\ claimed'[p][j].key \in PushKeys
      BY <1>8, <2>3
    <3>2. claimed'[m][i].attempt \in Nat /\ claimed'[m][i].attempt <= delivery[claimed'[m][i].key].attempts
      BY <1>8, <2>3
    <3> QED
      BY <1>3, <3>1, <3>2
  <2>4. CASE m # l /\ p # l
    <3>1. claimed'[m] = claimed[m] /\ claimed'[p] = claimed[p]
      BY <1>1, <2>4
    <3> QED
      BY <1>0, <3>1 DEF ClaimsAreDistinct
  <2> QED
    BY <2>1, <2>2, <2>3, <2>4
<1>12. ASSUME NEW k \in PushKeys
       PROVE  delivery'[k].attempts <= Cardinality(Spent(k)') + lapses'[k] + Claimed(delivery'[k])
  <2>1. delivery[k].attempts <= Cardinality(Spent(k)) + lapses[k] + Claimed(delivery[k])
    BY <1>0 DEF AttemptsAreCharged
  <2>2. /\ delivery[k].attempts \in Nat /\ lapses[k] \in Nat /\ Cardinality(Spent(k)) \in Nat
        /\ Cardinality(Spent(k)') \in Nat /\ lapses'[k] = lapses[k]
    BY <1>2, <1>3, SpentIsSmall, SpentPrimed
  <2>3. ASSUME NEW n \in 1..(PushAttempts - 1), n <= delivery[k].attempts, HeldAttempt(k, n)'
        PROVE  HeldAttempt(k, n)
    <3>1. PICK m \in Loops : \E i \in 1..Len(claimed'[m]) :
             claimed'[m][i].key = k /\ claimed'[m][i].attempt = n
      BY <2>3 DEF HeldAttempt
    <3>2. PICK i \in 1..Len(claimed'[m]) : claimed'[m][i].key = k /\ claimed'[m][i].attempt = n
      BY <3>1
    <3>3. m # l
      BY <1>8, <2>2, <2>3, <3>2
    <3> QED
      BY <1>8, <3>2, <3>3 DEF HeldAttempt
  <2>4. Cardinality(Spent(k)) <= Cardinality(Spent(k)')
    <3>1. delivery'[k].attempts >= delivery[k].attempts
      BY <1>3, <1>9
    <3> QED
      BY <1>0, <1>5, <2>3, <3>1, SpentGrows
  <2>5. CASE k \in picked
    <3>1. Claimed(delivery[k]) = 0 /\ delivery'[k].attempts = delivery[k].attempts + 1
      BY <1>1, <1>4, <2>5
    <3>2. Claimed(delivery'[k]) = 1
      BY <1>1, <2>5 DEF Claimed
    <3> QED
      BY <2>1, <2>2, <2>4, <3>1, <3>2
  <2>6. CASE k \notin picked
    <3>1. delivery'[k] = delivery[k]
      BY <1>1, <2>6
    <3>2. Claimed(delivery[k]) \in {0, 1}
      BY ClaimedBound
    <3> QED
      BY <2>1, <2>2, <2>4, <3>1, <3>2
  <2> QED
    BY <2>5, <2>6
<1> QED
  BY <1>5, <1>6, <1>7, <1>10, <1>11, <1>12 DEF PushInv, AttemptsAreCharged

-----------------------------------------------------------------------------

LEMMA NextPush == PushInv /\ [PushNext]_pushVars => PushInv'
<1> SUFFICES ASSUME PushInv, [PushNext]_pushVars PROVE PushInv'
  OBVIOUS
<1>1. ASSUME NEW kind, NEW x, NEW d, NEW ds, BeginRequest(kind, x, d, ds)
      PROVE  PushInv'
  <2>1. LockedRows' = OpenOn(ds)
    BY <1>1 DEF BeginRequest, LockedRows
  <2>2. UNCHANGED <<delivery, claimed, answers, settledAs, lapses>>
    BY <1>1 DEF BeginRequest
  <2> QED
    BY <2>1, <2>2, RequestKeeps
<1>2. ASSUME NEW x \in Accounts, NEW d \in Devices,
             \/ register_push_subscription(x, d) \/ delete_push_subscription(x, d)
             \/ disable_push_subscription_by_id(x, d)
      PROVE  PushInv'
  BY <1>1, <1>2 DEF register_push_subscription, delete_push_subscription, disable_push_subscription_by_id
<1>3. ASSUME NEW x \in Accounts, NEW on \in BOOLEAN, update_notification_preferences(x, on)
      PROVE  PushInv'
  BY <1>1, <1>3 DEF update_notification_preferences
<1>4. CASE CommitRequest
  BY <1>4, CommitKeeps
<1>5. CASE RollbackRequest
  <2>1. LockedRows' = {} /\ UNCHANGED <<delivery, claimed, answers, settledAs, lapses>>
    BY <1>5 DEF RollbackRequest, LockedRows, NoRequest
  <2> QED
    BY <2>1, RequestKeeps
<1>6. ASSUME NEW h \in Hints, materialize_direct_message_deliveries(h)
      PROVE  PushInv'
  BY <1>6, MaterializeKeeps
<1>7. ASSUME NEW l \in Loops,
             \/ claim_deliveries(l) \/ finish_delivery(l) \/ FinishFails(l) \/ LoopDies(l)
             \/ \E answer \in {"sent", "gone", "retry", "quarantined"} : send_private_message_hint(l, answer)
      PROVE  PushInv'
  BY <1>7, ClaimKeeps, FinishKeeps, DropKeeps, SendKeeps DEF VendorAnswers
<1>8. ASSUME NEW k \in PushKeys, LeaseLapses(k)
      PROVE  PushInv'
  BY <1>8, LapseKeeps
<1>9. CASE UNCHANGED pushVars
  BY <1>9, RequestKeeps DEF pushVars, LockedRows
<1> QED
  BY <1>2, <1>3, <1>4, <1>5, <1>6, <1>7, <1>8, <1>9 DEF PushNext

\* A delivery is settled once and for a reason, and gets no more attempts than
\* MAX_DELIVERY_ATTEMPTS and one for every lease that lapsed, whatever results of
\* loops that lost their lease come in (claim_deliveries, finish_delivery).
THEOREM WebPushSound == PushSpec => []PushIsSound
<1>1. PushInv => PushIsSound
  <2> SUFFICES ASSUME PushInv, NEW k \in PushKeys
               PROVE  delivery[k].attempts <= PushAttempts + lapses[k]
    BY DEF PushInv, PushIsSound, FinalIsFirst, FinalHasReason
  <2>1. delivery[k].attempts <= Cardinality(Spent(k)) + lapses[k] + Claimed(delivery[k])
    BY DEF PushInv, AttemptsAreCharged
  <2>2. /\ Cardinality(Spent(k)) \in Nat /\ Cardinality(Spent(k)) <= PushAttempts - 1
        /\ PushAttempts \in Nat /\ delivery[k].attempts \in Nat /\ lapses[k] \in Nat
    BY SpentIsSmall, AttemptsAssumption DEF PushInv, PushTypes, PushRow
  <2> QED
    BY <2>1, <2>2, ClaimedBound
<1>2. QED
  BY <1>1, InitPush, NextPush, PTL DEF PushSpec

=============================================================================
