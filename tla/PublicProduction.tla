-------------------------- MODULE PublicProduction --------------------------
(***************************************************************************)
(* The public site and those who report on it (scripts/ops): the verifier  *)
(* of a public release, the collector of runtime evidence and the live     *)
(* readiness check.  Each reads the site in several requests, and releases *)
(* are rolled out in several steps, backups taken, expired and restored    *)
(* between any two of them.  The observers do not influence one another,   *)
(* so one runs at a time; each may be killed and leaves its last report.   *)
(***************************************************************************)
EXTENDS Naturals, FiniteSets

CONSTANTS Releases,      \* commits
          Labels,        \* names a backup may be given (BACKUP_LABEL)
          Defects,       \* what may be wrong with the public surface (see ProbeFinds)
          BackupMaxAge, RestoreMaxAge,   \* freshness limits of the collector
          Retention,     \* age beyond which backups are deleted; 0: never
          LastHour,      \* bound: the clock
          MaxEvents,     \* bound: changes of the site, its data and its backups
          MaxPolls       \* bound: polls of the release verifier

ASSUME ProductionAssumption ==
    /\ {BackupMaxAge, RestoreMaxAge, Retention, LastHour, MaxEvents, MaxPolls} \subseteq Nat
    /\ "missing" \notin Releases   \* what a bundle without its tree declares is no commit
    /\ Defects \subseteq {"foreignAddress", "redirectLost", "noShell", "notReady", "metricsExposed",
                          "styleNotRevalidated", "noGlyphs", "noRanges"}

VARIABLES site,       \* bundle, edge header, API container, its modes; defects of the surface
          database,   \* content of the database (a version)
          backup,     \* per label: manifest and dump, or NoBackup
          proof,      \* per label: the restore proof, or NoProof
          hour,       \* wall clock
          events,     \* changes made so far
          restored,   \* ghost: contents imported by a restore, with the time
          observer,   \* the observer at work and what it has read so far
          receipt,    \* per observer: the last report it left, or NoReport
          steady      \* ghost: observers whose last report is of the site as it is now

productionVars == <<site, database, backup, proof, hour, events, restored, observer, receipt, steady>>

NoBackup == [file |-> "none"]
NoProof == [of |-> "none"]
NoReport == [status |-> "none"]
Damaged == MaxEvents + 1   \* bytes that no database version has
NoObserver == [tool |-> "none"]
Observers == {"release", "evidence", "live"}
ReleaseSteps == {"bundle", "edge", "api"}

\* A commit is shown in full or as its first eight characters.
Full(c) == [commit |-> c, length |-> 40]
Short(c) == [commit |-> c, length |-> 8]
\* commit_identities_match: the shorter has at least seven characters and is a prefix.
IdentitiesEqual(header, body) == header = body
IdentitiesMatch(header, body) ==
    header.length >= 7 /\ body.length >= 7 /\ header.commit = body.commit

\* A site, perhaps in the middle of a rollout, without or with a proven backup.
ProductionInit ==
    /\ site \in [bundle : Releases, edge : Releases, api : Releases, tree : BOOLEAN,
                 modes : {TRUE}, defects : SUBSET Defects]
    /\ database = 0 /\ hour = 0 /\ events = 0
    /\ \/ /\ backup = [l \in Labels |-> NoBackup] /\ proof = [l \in Labels |-> NoProof]
          /\ restored = {}
       \/ /\ backup = [l \in Labels |-> [file |-> l, sha |-> 0, dump |-> 0, created |-> 0]]
          /\ proof = [l \in Labels |-> [of |-> l, sha |-> 0, created |-> 0]]
          /\ restored = {[content |-> 0, at |-> 0]}
    /\ observer = NoObserver /\ receipt = [o \in Observers |-> NoReport] /\ steady = {}

(***************************************************************************)
(* The site and its backups                                                *)
(***************************************************************************)

Hour ==
    /\ hour < LastHour /\ hour' = hour + 1
    /\ UNCHANGED <<site, database, backup, proof, events, restored, observer, receipt, steady>>

Event == events < MaxEvents /\ events' = events + 1

\* Ghost: what the observer at work reports is no longer of one state of the site.
Disturbed == observer' = IF observer = NoObserver THEN observer ELSE [observer EXCEPT !.calm = FALSE]
Reported(o, calm) == steady' = IF calm THEN steady \cup {o} ELSE steady \ {o}

\* A report is replaced as a whole, by a rename.
WriteReport(o, report) == receipt' = [receipt EXCEPT ![o] = report]

\* One step of a deployment or of its rollback; a bundle may come without its artifact tree.
ReleaseStep(part, c, tree) ==
    /\ Event /\ site[part] # c
    /\ site' = [site EXCEPT ![part] = c, !.tree = IF part = "bundle" THEN tree ELSE @]
    /\ Disturbed /\ steady' = {}
    /\ UNCHANGED <<database, backup, proof, hour, restored, receipt>>

SurfaceChange ==
    /\ Event
    /\ \/ \E d \in Defects \ site.defects : site' = [site EXCEPT !.defects = @ \cup {d}]
       \/ \E d \in site.defects : site' = [site EXCEPT !.defects = @ \ {d}]
       \/ site' = [site EXCEPT !.modes = ~@]
    /\ Disturbed /\ steady' = {}
    /\ UNCHANGED <<database, backup, proof, hour, restored, receipt>>

Write ==
    /\ Event /\ database' = database + 1
    /\ UNCHANGED <<site, backup, proof, hour, restored, observer, receipt, steady>>

\* postgres-backup.sh: a name in use is refused; the manifest names dump, hash
\* and time; at last the retention deletes old dumps with their manifests.  The
\* proofs, in their own directory, stay.
Swept(b) == IF b # NoBackup /\ Retention > 0 /\ hour - b.created > Retention THEN NoBackup ELSE b
Backup(l) ==
    /\ Event /\ backup[l] = NoBackup
    /\ backup' = [k \in Labels |-> IF k = l THEN [file |-> l, sha |-> database, dump |-> database, created |-> hour]
                                   ELSE Swept(backup[k])]
    /\ UNCHANGED <<site, database, proof, hour, restored, observer, receipt, steady>>

\* A backup under a name that nobody collects: what is left of it is its sweep.
BackupElsewhere ==
    /\ backup' = [k \in Labels |-> Swept(backup[k])] /\ backup' # backup
    /\ UNCHANGED <<site, database, proof, hour, events, restored, observer, receipt, steady>>

Damage(l) ==
    /\ Event /\ backup[l] # NoBackup
    /\ backup' = [backup EXCEPT ![l].dump = Damaged]
    /\ UNCHANGED <<site, database, proof, hour, restored, observer, receipt, steady>>

\* postgres-restore-proof.sh: hash as in the manifest, import, then the proof.
\* Hash and import are one step: a name in use is never written again.
RestoreProof(l) ==
    /\ Event /\ backup[l] # NoBackup /\ backup[l].dump = backup[l].sha
    /\ proof' = [proof EXCEPT ![l] = [of |-> l, sha |-> backup[l].sha, created |-> hour]]
    /\ restored' = restored \cup {[content |-> backup[l].dump, at |-> hour]}
    /\ UNCHANGED <<site, database, backup, hour, observer, receipt, steady>>

(***************************************************************************)
(* verify_public_release_commit.py                                         *)
(***************************************************************************)

Polling(c, n) == [tool |-> "release", at |-> "frontend", expected |-> c, polls |-> n, calm |-> TRUE]
VerifyRelease(c) ==
    /\ observer = NoObserver /\ observer' = Polling(c, 1)
    /\ UNCHANGED <<site, database, backup, proof, hour, events, restored, receipt, steady>>

\* What a request brings back: a failed request carries no payload.
Failed == [ok |-> FALSE]
FrontendAnswer == [ok |-> TRUE, commit |-> Full(site.bundle), version |-> Short(site.bundle),
                   tree |-> IF site.tree THEN Full(site.bundle) ELSE Full("missing")]
ApiAnswer == [ok |-> TRUE, commit |-> Full(site.api), build |-> Full(site.api), edge |-> Short(site.edge)]

FetchFrontend ==
    /\ observer.tool = "release" /\ observer.at = "frontend"
    /\ \E answer \in {FrontendAnswer, Failed} :
         observer' = [tool |-> "release", at |-> "api", expected |-> observer.expected,
                      polls |-> observer.polls, calm |-> answer.ok, frontend |-> answer]
    /\ UNCHANGED <<site, database, backup, proof, hour, events, restored, receipt, steady>>

\* evaluate: identity of both ends and the declared artifact tree.
IdentityVerified(c, frontend, answer) ==
    /\ frontend.ok /\ frontend.commit = Full(c) /\ frontend.version = Short(c)
    /\ answer.ok /\ answer.commit = Full(c) /\ answer.build = Full(c) /\ answer.edge = Short(c)
TreeVerified(c, frontend) == frontend.ok /\ frontend.tree = Full(c)

\* The second request, the verdict and the receipt, written by an atomic replace at
\* every poll.  A pass ends the run; after a failure the deadline decides.
FetchApi ==
    /\ observer.tool = "release" /\ observer.at = "api"
    /\ \E answer \in {ApiAnswer, Failed} :
         LET c == observer.expected
             pass == IdentityVerified(c, observer.frontend, answer) /\ TreeVerified(c, observer.frontend)
         IN /\ WriteReport("release", [status |-> IF pass THEN "pass" ELSE "failed", commit |-> c])
            /\ Reported("release", observer.calm /\ answer.ok)
            /\ \/ observer' = NoObserver
               \/ ~pass /\ observer.polls < MaxPolls /\ observer' = Polling(c, observer.polls + 1)
    /\ UNCHANGED <<site, database, backup, proof, hour, events, restored>>

(***************************************************************************)
(* collect_production_runtime_evidence.py                                  *)
(***************************************************************************)

\* The collector's time is taken once, before its first request.
CollectStart(l) ==
    /\ observer = NoObserver
    /\ observer' = [tool |-> "evidence", at |-> "ready", now |-> hour, label |-> l, calm |-> TRUE]
    /\ UNCHANGED <<site, database, backup, proof, hour, events, restored, receipt, steady>>

Sees(field, value, next) ==
    /\ observer' = [f \in DOMAIN observer \cup {field} |->
                       IF f = field THEN value ELSE IF f = "at" THEN next ELSE observer[f]]
    /\ UNCHANGED <<receipt, steady>>

\* An EvidenceError anywhere ends the collection with a report that says fail.
CollectFails ==
    /\ WriteReport("evidence", [status |-> "fail"])
    /\ observer' = NoObserver /\ Reported("evidence", FALSE)

Ready == "notReady" \notin site.defects

\* Readiness, API version and web version: three requests one after another.
CollectPublic ==
    /\ observer.tool = "evidence"
    /\ \/ observer.at = "ready" /\ Sees("ready", Ready, "version")
       \/ observer.at = "version" /\ Sees("version", [header |-> Full(site.api), body |-> Full(site.api)], "web")
       \/ observer.at = "web" /\ Sees("web", [header |-> Short(site.edge), body |-> Full(site.bundle)], "modes")
       \/ observer.at \in {"ready", "version", "web"} /\ CollectFails
    /\ UNCHANGED <<site, database, backup, proof, hour, events, restored>>

CollectModes ==
    /\ observer.tool = "evidence" /\ observer.at = "modes"
    /\ Sees("modes", site.modes, "backup") \/ CollectFails
    /\ UNCHANGED <<site, database, backup, proof, hour, events, restored>>

\* The bytes of the dump, read from a regular file, have the manifest's hash and size.
Intact(b) == b.dump = b.sha

\* The manifest, then the dump it names: hash, size and freshness; a manifest
\* younger than the collection is an error.
CollectBackup ==
    /\ observer.tool = "evidence" /\ observer.at = "backup"
    /\ LET b == backup[observer.label] IN
       \/ /\ b # NoBackup /\ b.created <= observer.now
          /\ Sees("backup", [file |-> b.file, sha |-> b.sha, created |-> b.created, dump |-> b.dump,
                             ok |-> Intact(b) /\ observer.now - b.created <= BackupMaxAge], "restore")
       \/ ~(b # NoBackup /\ b.created <= observer.now) /\ CollectFails
    /\ UNCHANGED <<site, database, backup, proof, hour, events, restored>>

\* A proof counts when it is fresh, not older than the backup, and of its file and hash.
RestoreEvidenceByName(p, b, now) ==
    now - p.created <= RestoreMaxAge /\ p.created >= b.created /\ p.of = b.file
RestoreEvidence(p, b, now) ==
    /\ now - p.created <= RestoreMaxAge /\ p.created >= b.created
    /\ p.of = b.file /\ p.sha = b.sha

\* Optional: a copy elsewhere, the same artifact with the same bytes.
SecondaryCopies == {"not-provided", "pass", "fail"}

PublicEvidence(o) ==
    o.ready /\ IdentitiesMatch(o.version.header, o.version.body) /\ IdentitiesMatch(o.web.header, o.web.body)

\* The rest of the files and the report: "partial" is the best there is.
CollectRestore ==
    /\ observer.tool = "evidence" /\ observer.at = "restore"
    /\ LET p == proof[observer.label] b == observer.backup IN
       \/ ~(p # NoProof /\ p.created <= observer.now) /\ CollectFails
       \/ /\ p # NoProof /\ p.created <= observer.now
          /\ \E copy \in SecondaryCopies :
               LET required == /\ PublicEvidence(observer) /\ observer.modes
                               /\ b.ok /\ RestoreEvidence(p, b, observer.now)
               IN WriteReport("evidence",
                      [status |-> IF required /\ copy # "fail" THEN "partial" ELSE "fail",
                       backup |-> b, now |-> observer.now, version |-> observer.version,
                       web |-> observer.web, ready |-> observer.ready, public |-> PublicEvidence(observer)])
          /\ observer' = NoObserver /\ Reported("evidence", observer.calm)
    /\ UNCHANGED <<site, database, backup, proof, hour, events, restored>>

(***************************************************************************)
(* check_public_live_readiness.py: probe after probe                       *)
(***************************************************************************)

Probes == <<"dns", "redirect", "shell", "ready", "metrics", "version", "style", "glyphs", "tiles", "done">>

\* The defect each probe tells apart: the site's surface, the commit of
\* version.json, and the map's resources.
SurfaceDefect == [dns |-> "foreignAddress", redirect |-> "redirectLost", shell |-> "noShell",
                  ready |-> "notReady", metrics |-> "metricsExposed"]
MapDefect == [style |-> "styleNotRevalidated", glyphs |-> "noGlyphs", tiles |-> "noRanges"]
VersionDiffers(expected) == site.bundle # expected
ProbeFinds(probe, expected) ==
    \/ probe \in DOMAIN SurfaceDefect /\ SurfaceDefect[probe] \in site.defects
    \/ probe \in DOMAIN MapDefect /\ MapDefect[probe] \in site.defects
    \/ probe = "version" /\ VersionDiffers(expected)

LiveStart(c) ==
    /\ observer = NoObserver
    /\ observer' = [tool |-> "live", at |-> 1, expected |-> c, failed |-> {}, calm |-> TRUE]
    /\ UNCHANGED <<site, database, backup, proof, hour, events, restored, receipt, steady>>

\* A probe that fails, or whose request does, does not end the run.  Bound: in
\* a run that is already disturbed no further request is lost.
Probe ==
    /\ observer.tool = "live" /\ Probes[observer.at] # "done"
    /\ LET probe == Probes[observer.at]
           bad == ProbeFinds(probe, observer.expected)
       IN \E answered \in {TRUE, ~observer.calm} :
          observer' = [observer EXCEPT !.at = @ + 1, !.calm = @ /\ answered,
                                       !.failed = IF bad \/ ~answered THEN @ \cup {probe} ELSE @]
    /\ UNCHANGED <<site, database, backup, proof, hour, events, restored, receipt, steady>>

LiveEnd ==
    /\ observer.tool = "live" /\ Probes[observer.at] = "done"
    /\ WriteReport("live",
          [status |-> IF observer.failed = {} THEN "pass" ELSE "fail", failed |-> observer.failed,
           commit |-> observer.expected])
    /\ observer' = NoObserver /\ Reported("live", observer.calm)
    /\ UNCHANGED <<site, database, backup, proof, hour, events, restored>>

\* The observer is killed: its temporary file is not its report.
ObserverDies ==
    /\ observer # NoObserver /\ observer' = NoObserver
    /\ UNCHANGED <<site, database, backup, proof, hour, events, restored, receipt, steady>>

SiteNext ==
    \/ SurfaceChange
    \/ \E part \in ReleaseSteps, c \in Releases, tree \in BOOLEAN : ReleaseStep(part, c, tree)
BackupNext ==
    \/ Hour \/ Write \/ BackupElsewhere
    \/ \E l \in Labels : Backup(l) \/ Damage(l) \/ RestoreProof(l)
ReleaseNext == (\E c \in Releases : VerifyRelease(c)) \/ FetchFrontend \/ FetchApi
CollectNext ==
    \/ \E l \in Labels : CollectStart(l)
    \/ CollectPublic \/ CollectModes \/ CollectBackup \/ CollectRestore
LiveNext == (\E c \in Releases : LiveStart(c)) \/ Probe \/ LiveEnd

ProductionNext == SiteNext \/ BackupNext \/ ReleaseNext \/ CollectNext \/ LiveNext \/ ObserverDies

ProductionSpec == ProductionInit /\ [][ProductionNext]_productionVars

(***************************************************************************)
(* Properties                                                              *)
(***************************************************************************)

\* Evidence that is not a failure names a backup whose very bytes, as they lay
\* on disk when they were hashed, a restore had imported after the backup was
\* taken and within the limits: a proof left over from an expired backup of
\* the same name never vouches for its successor (collect_backup_evidence,
\* collect_restore_evidence).
EvidenceIsRestorable ==
    LET e == receipt["evidence"] IN
    e.status = "partial" =>
        \E r \in restored :
            /\ r.content = e.backup.dump
            /\ e.backup.created <= r.at /\ r.at <= e.now
            /\ e.now - r.at <= RestoreMaxAge /\ e.now - e.backup.created <= BackupMaxAge

\* The three observers agree with each other and with the site.  Reports that
\* were each made of one and the same state of the site: a passing release
\* receipt and the evidence name the same commit at both ends, with matching
\* identities; the readiness check accepts the version the verifier passed,
\* and the evidence is ready exactly when the readiness check says so; and a
\* verdict is a pass exactly when nothing is wrong (evaluate,
\* collect_public_evidence, PublicLiveChecker.run).
ObserversAgree ==
    LET r == receipt["release"] e == receipt["evidence"] v == receipt["live"] IN
    /\ "release" \in steady =>
         (r.status = "pass" <=> site.tree /\ \A part \in ReleaseSteps : site[part] = r.commit)
    /\ "live" \in steady => (v.status = "pass" <=> site.defects = {} /\ site.bundle = v.commit)
    /\ {"release", "evidence"} \subseteq steady /\ r.status = "pass" =>
         /\ e.version.body = Full(r.commit) /\ e.web.body = Full(r.commit)
         /\ e.public = e.ready
    /\ {"release", "live"} \subseteq steady /\ r.status = "pass" /\ v.commit = r.commit =>
         "version" \notin v.failed
    /\ {"evidence", "live"} \subseteq steady => (e.ready <=> "ready" \notin v.failed)

\* Both, of what the observers leave behind.
ReportsAreSound == EvidenceIsRestorable /\ ObserversAgree

=============================================================================
