-------------------------- MODULE NodeDeleteJournal --------------------------
(***************************************************************************)
(* Deleting a node and its Faeden from the two JSONL files                  *)
(* (apps/api/src/routes/nodes.rs): both files are rewritten beside, set     *)
(* aside, swapped one after the other and cleaned up, with a journal that   *)
(* says how far it got.  A step may fail, without an effect or, when the    *)
(* sync of the directory fails, after it; the process may die at any step;  *)
(* a request may be dropped with its connection while the process lives on. *)
(* The locks of both files are held to the end of a request, so deletes     *)
(* and appends follow each other.  Every journal entry is synced after      *)
(* what it says: a power loss adds nothing on a file system that keeps the  *)
(* order of directory changes.                                              *)
(***************************************************************************)
EXTENDS Naturals

CONSTANTS NodeIds, EdgeIds,
          NodeOf,          \* the node a Faden hangs on
          OldIds,          \* the records of the files at the start
          MaxMishaps       \* bound: failures, crashes and dropped requests

ASSUME JournalAssumption ==
    /\ NodeOf \in [EdgeIds -> NodeIds] /\ NodeIds \cap EdgeIds = {} /\ MaxMishaps \in Nat
    /\ OldIds \subseteq NodeIds \cup EdgeIds /\ \A e \in OldIds \cap EdgeIds : NodeOf[e] \in OldIds

VARIABLES
    disk,      \* the two files, their rewrites and their backups
    journal,   \* .node-delete-cascade.journal.json
    deletion,  \* the delete or the recovery under way, with its copy of the journal
    alive,     \* the process has loaded its caches
    known,     \* the caches, which decide what may be deleted
    kept,      \* ghost: records acknowledged and not deleted since
    begun,     \* ghost: nodes whose delete was cut off
    exposed,   \* ghost: records appended to what a cut off delete left, or to no node
    undone,    \* ghost: a rollback went against a journal that says "node_swapped"
    used,      \* bound: every identifier is created once
    mishaps

journalVars == <<disk, journal, deletion, alive, known, kept, begun, exposed, undone, used, mishaps>>

NoJournalFile == [phase |-> "none", existed |-> FALSE]
NoNode == "no node"
NoDeletion == [at |-> "idle", for |-> "nobody", node |-> NoNode, existed |-> FALSE]
MissingFile == [there |-> FALSE, ids |-> {}]
FileOf(ids) == [there |-> TRUE, ids |-> ids]
FadenOf(n) == {e \in EdgeIds : NodeOf[e] = n}
Records(d) == d.nodes.ids \cup d.edges.ids

\* The edges file need not exist as long as nobody has created a Faden.
JournalInit ==
    /\ \E ids \in {{}, OldIds \cap EdgeIds} :
         disk = [nodes |-> FileOf(OldIds \cap NodeIds), edges |-> IF ids = {} THEN MissingFile ELSE FileOf(ids),
                 nodeTmp |-> MissingFile, edgeTmp |-> MissingFile, nodeBak |-> MissingFile, edgeBak |-> MissingFile]
    /\ journal = NoJournalFile /\ deletion = NoDeletion /\ alive = TRUE
    /\ known = Records(disk) /\ kept = Records(disk)
    /\ begun = {} /\ exposed = {} /\ undone = FALSE /\ used = Records(disk) /\ mishaps = 0

(***************************************************************************)
(* The steps on the files                                                  *)
(***************************************************************************)

WithoutFile(name) == [disk EXCEPT ![name] = MissingFile]
Renamed(from, to) == [disk EXCEPT ![to] = disk[from], ![from] = MissingFile]

\* restore_backup is two steps: the target is removed, the backup renamed.
TargetRemoved(target, backup, existed) ==
    IF disk[backup].there \/ ~existed THEN WithoutFile(target) ELSE disk
BackupRestored(target, backup, existed) ==
    IF ~existed THEN WithoutFile(backup) ELSE IF disk[backup].there THEN Renamed(backup, target) ELSE disk
Restorable(target, backup, existed) == ~existed \/ disk[backup].there \/ disk[target].there

\* prepare_edge_delete_tmp and prepare_node_delete_tmp.
RewrittenFor(n) ==
    [disk EXCEPT !.edgeTmp = FileOf(disk.edges.ids \ FadenOf(n)), !.nodeTmp = FileOf(disk.nodes.ids \ {n})]

\* What a step leaves on the disk.
EffectOf(at) ==
    CASE at = "prepare" -> RewrittenFor(deletion.node)
      [] at = "edgeBackup" -> IF deletion.existed THEN Renamed("edges", "edgeBak") ELSE disk
      [] at = "nodeBackup" -> Renamed("nodes", "nodeBak")
      [] at = "edgeSwap" -> Renamed("edgeTmp", "edges")
      [] at = "nodeSwap" -> Renamed("nodeTmp", "nodes")
      [] at \in {"dropNodeBackup", "commitNodeBackup"} -> WithoutFile("nodeBak")
      [] at \in {"dropEdgeBackup", "commitEdgeBackup"} -> WithoutFile("edgeBak")
      [] at \in {"undoTmp", "commitTmp"} -> [disk EXCEPT !.nodeTmp = MissingFile, !.edgeTmp = MissingFile]
      [] at = "undoNode" -> TargetRemoved("nodes", "nodeBak", TRUE)
      [] at = "restoreNode" -> BackupRestored("nodes", "nodeBak", TRUE)
      [] at = "undoEdge" -> TargetRemoved("edges", "edgeBak", deletion.existed)
      [] at = "restoreEdge" -> BackupRestored("edges", "edgeBak", deletion.existed)

\* What it needs to find; otherwise it fails.
Possible(at) ==
    CASE at = "prepare" -> disk.nodes.there /\ deletion.node \in disk.nodes.ids
      [] at = "restoreNode" -> Restorable("nodes", "nodeBak", TRUE)
      [] at = "restoreEdge" -> Restorable("edges", "edgeBak", deletion.existed)
      [] at = "commitNodeBackup" -> disk.nodes.there /\ disk.edges.there
      [] OTHER -> TRUE

\* What a journal entry says, and the order of all steps.
Says == [sayPrepared |-> "prepared", sayBackups |-> "backups_created", sayEdge |-> "edge_swapped",
         sayNode |-> "node_swapped"]
Following ==
    [prepare |-> "sayPrepared", sayPrepared |-> "edgeBackup", edgeBackup |-> "nodeBackup", nodeBackup |-> "sayBackups",
     sayBackups |-> "edgeSwap", edgeSwap |-> "sayEdge", sayEdge |-> "nodeSwap", nodeSwap |-> "sayNode",
     sayNode |-> "dropNodeBackup", dropNodeBackup |-> "dropEdgeBackup", dropEdgeBackup |-> "dropJournal",
     undoTmp |-> "undoNode", undoNode |-> "restoreNode", restoreNode |-> "undoEdge", undoEdge |-> "restoreEdge",
     restoreEdge |-> "removeJournal", commitTmp |-> "commitNodeBackup", commitNodeBackup |-> "commitEdgeBackup",
     commitEdgeBackup |-> "removeJournal"]
Forward == {"prepare", "sayPrepared", "edgeBackup", "nodeBackup", "sayBackups", "edgeSwap", "sayEdge", "nodeSwap", "sayNode"}
Cleanup == {"dropNodeBackup", "dropEdgeBackup", "dropJournal"}
LastSteps == {"dropJournal", "removeJournal"}

\* What one step writes: a journal entry, or one of the two files.
StepWrites ==
    /\ disk' = IF deletion.at \in LastSteps \cup DOMAIN Says THEN disk ELSE EffectOf(deletion.at)
    /\ journal' = IF deletion.at \in LastSteps THEN NoJournalFile
                  ELSE IF deletion.at \in DOMAIN Says THEN [phase |-> Says[deletion.at], existed |-> deletion.existed]
                  ELSE journal

(***************************************************************************)
(* The delete, its rollback and the recovery                               *)
(***************************************************************************)

\* recover_node_delete_jsonl_journal: what it does first.
RecoverAt == IF journal.phase = "node_swapped" THEN "commitTmp" ELSE "undoTmp"
Recovering(for, n) == [at |-> RecoverAt, for |-> for, node |-> n, existed |-> journal.existed]
\* edge_original_existed of the new journal.
DeletingUnmarked(n) == [at |-> "prepare", for |-> "delete", node |-> n, existed |-> FALSE]
Deleting(n) == [at |-> "prepare", for |-> "delete", node |-> n, existed |-> disk.edges.there]

DeleteNode(n) ==
    /\ alive /\ deletion = NoDeletion /\ n \in known
    /\ deletion' = IF journal = NoJournalFile THEN Deleting(n) ELSE Recovering("delete", n)
    /\ UNCHANGED <<disk, journal, alive, known, kept, begun, exposed, undone, used, mishaps>>

\* The start of the process: recovery, then the caches are loaded.
StartServer ==
    /\ ~alive /\ deletion = NoDeletion
    /\ IF journal = NoJournalFile
         THEN deletion' = NoDeletion /\ alive' = TRUE /\ known' = Records(disk)
         ELSE deletion' = Recovering("start", NoNode) /\ UNCHANGED <<alive, known>>
    /\ UNCHANGED <<disk, journal, kept, begun, exposed, undone, used, mishaps>>

FileStep ==
    /\ deletion.at \in DOMAIN Following /\ Possible(deletion.at)
    /\ StepWrites /\ deletion' = [deletion EXCEPT !.at = Following[deletion.at]]
    /\ UNCHANGED <<alive, known, kept, begun, exposed, undone, used, mishaps>>

\* The caller forgets the node and its Faeden and acknowledges the delete.
Acknowledged(n) ==
    /\ deletion' = NoDeletion
    /\ known' = known \ ({n} \cup FadenOf(n)) /\ kept' = kept \ ({n} \cup FadenOf(n))
    /\ UNCHANGED <<alive, begun>>
\* A failed delete leaves the caches alone.
DeleteRefused ==
    /\ deletion' = NoDeletion
    /\ begun' = IF journal' = NoJournalFile \/ deletion.for = "start" THEN begun ELSE begun \cup {deletion.node}
    /\ UNCHANGED <<alive, known, kept>>

\* The end: of a delete, of a recovery, after which a delete or the start goes
\* on, or of a rollback, which answers the error that caused it.
LastStep ==
    /\ deletion.at \in LastSteps /\ StepWrites
    /\ \/ deletion.at = "dropJournal" /\ Acknowledged(deletion.node)
       \/ deletion.at = "removeJournal" /\ deletion.for = "delete"
          /\ deletion' = Deleting(deletion.node) /\ UNCHANGED <<alive, known, kept, begun>>
       \/ deletion.at = "removeJournal" /\ deletion.for = "start"
          /\ deletion' = NoDeletion /\ alive' = TRUE /\ known' = Records(disk) /\ UNCHANGED <<kept, begun>>
       \/ deletion.at = "removeJournal" /\ deletion.for = "error" /\ DeleteRefused
    /\ UNCHANGED <<exposed, undone, used, mishaps>>

\* An error: a delete is rolled back, a failed clean-up is left to the next
\* start, any other recovery or rollback gives up and leaves the journal.
StepFailed ==
    /\ \/ deletion.at \in Forward
          /\ deletion' = [deletion EXCEPT !.at = "undoTmp", !.for = "error"]
          /\ undone' = (undone \/ journal'.phase = "node_swapped")
          /\ UNCHANGED <<alive, known, kept, begun>>
       \/ deletion.at \in Cleanup /\ Acknowledged(deletion.node) /\ UNCHANGED undone
       \/ deletion.at \notin Forward \cup Cleanup /\ DeleteRefused /\ UNCHANGED undone
    /\ UNCHANGED <<exposed, used>>

\* It happens before the step's effect or after it.
FileStepFails ==
    /\ deletion # NoDeletion /\ mishaps < MaxMishaps /\ mishaps' = mishaps + 1
    /\ (UNCHANGED <<disk, journal>> \/ (Possible(deletion.at) /\ StepWrites))
    /\ StepFailed

\* What it needs is not there.
StepImpossible ==
    /\ deletion # NoDeletion /\ ~Possible(deletion.at)
    /\ UNCHANGED <<disk, journal, mishaps>> /\ StepFailed

(***************************************************************************)
(* Crashes, dropped requests and the others                                *)
(***************************************************************************)

CutOff == begun' = IF deletion.for \in {"delete", "error"} THEN begun \cup {deletion.node} ELSE begun

ServerDies ==
    /\ mishaps < MaxMishaps /\ mishaps' = mishaps + 1 /\ (alive \/ deletion # NoDeletion)
    /\ deletion' = NoDeletion /\ alive' = FALSE /\ CutOff
    /\ UNCHANGED <<disk, journal, known, kept, exposed, undone, used>>

RequestDropped ==
    /\ alive /\ deletion # NoDeletion /\ mishaps < MaxMishaps /\ mishaps' = mishaps + 1
    /\ deletion' = NoDeletion /\ CutOff
    /\ UNCHANGED <<disk, journal, alive, known, kept, exposed, undone, used>>

\* A record is appended to a file, which is created when it is missing.
AppendRecord(name, id) ==
    /\ alive /\ deletion = NoDeletion /\ id \notin used /\ used' = used \cup {id}
    /\ disk' = [disk EXCEPT ![name] = FileOf(disk[name].ids \cup {id})]
    /\ known' = known \cup {id} /\ kept' = kept \cup {id}
    /\ exposed' = IF journal # NoJournalFile \/ (name = "edges" /\ NodeOf[id] \notin disk.nodes.ids) THEN exposed \cup {id} ELSE exposed
    /\ UNCHANGED <<journal, deletion, alive, begun, undone, mishaps>>
CreateNode(n) == AppendRecord("nodes", n)
\* create_edge does not ask whether the node is there.
CreateEdge(e) == AppendRecord("edges", e)

JournalNext ==
    \/ \E n \in NodeIds : DeleteNode(n) \/ CreateNode(n)
    \/ \E e \in EdgeIds : CreateEdge(e)
    \/ StartServer \/ FileStep \/ LastStep \/ FileStepFails \/ StepImpossible \/ ServerDies \/ RequestDropped

JournalSpec == JournalInit /\ [][JournalNext]_journalVars

(***************************************************************************)
(* A delete is all or nothing.  Once the process serves with no journal    *)
(* left, both files are there as far as they ever were; every record that  *)
(* was acknowledged is in its file, or belongs to a node whose delete was  *)
(* cut off and which is gone with all its Faeden; and no Faden is left     *)
(* behind by its node.  Three things are out of this promise, because the  *)
(* code does not keep it there: a record appended while the journal of a   *)
(* cut off delete lies about, a Faden created on a node that is gone, and  *)
(* a rollback that starts because the sync after "node_swapped" failed and *)
(* is cut off itself.                                                      *)
(***************************************************************************)
DeleteIsAtomic ==
    alive /\ deletion = NoDeletion /\ journal = NoJournalFile /\ ~undone =>
        /\ disk.nodes.there /\ ~disk.nodeBak.there /\ ~disk.edgeBak.there
        /\ \A n \in (kept \cap NodeIds) \ exposed :
             IF n \in disk.nodes.ids THEN (kept \cap FadenOf(n)) \ exposed \subseteq disk.edges.ids
             ELSE n \in begun /\ disk.edges.ids \cap FadenOf(n) \subseteq exposed
        /\ \A e \in disk.edges.ids \ exposed : NodeOf[e] \in disk.nodes.ids \cup exposed

=============================================================================
