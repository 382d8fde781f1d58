--------------------------- MODULE ToolBootstrap ---------------------------
(***************************************************************************)
(* bootstrap_tools.py: installers fill one tool cache.  The download of an *)
(* archive holds a file lock and replaces the file atomically; what follows*)
(* (extraction, installation, the check of the installed binary) holds     *)
(* none, and an installer of another tool lock may replace archive and     *)
(* binary of the same name in between.                                     *)
(***************************************************************************)
EXTENDS Naturals, FiniteSets

CONSTANTS Installers,     \* invocations
          ToolVersions,   \* contents a tool lock may pin
          ToolLock,       \* installer -> the version its lock pins
          Attempts,       \* attempts per source (DOWNLOAD_ATTEMPTS)
          MaxRestarts     \* bound: installers started again

ASSUME BootstrapAssumption ==
    /\ ToolLock \in [Installers -> ToolVersions] /\ Attempts \in Nat \ {0} /\ MaxRestarts \in Nat

VARIABLES archive,      \* the archive in the cache
          binary,       \* the installed executable
          downloadLock, \* installer that holds the download lock, or NoHolder
          installer,    \* installer -> where it stands
          toolReceipt,  \* installers whose receipt is written
          restarts,     \* installations started so far
          foreign       \* ghost: installer -> binary replaced since it was checked

bootstrapVars == <<archive, binary, downloadLock, installer, toolReceipt, restarts, foreign>>

NoHolder == "none"
Missing == "missing"
Damaged_ == "damaged"
Sources == {"mirror", "canonical"}

BootstrapInit ==
    /\ archive \in {Missing, Damaged_} \cup ToolVersions /\ binary \in {Missing} \cup ToolVersions
    /\ downloadLock = NoHolder /\ installer = [p \in Installers |-> [at |-> "idle"]]
    /\ toolReceipt = {} /\ restarts = 0 /\ foreign = [p \in Installers |-> FALSE]

At_(p, state) == installer' = [installer EXCEPT ![p] = state]

Install(p) ==
    /\ installer[p].at = "idle" /\ restarts < MaxRestarts /\ restarts' = restarts + 1
    /\ At_(p, [at |-> "lock"])
    /\ UNCHANGED <<archive, binary, downloadLock, toolReceipt, foreign>>

Verified(p, content) == content = ToolLock[p]

\* Under the lock: an archive with the right hash is kept; otherwise the
\* mirror, when one is configured, and then the canonical source are tried.
LockDownload(p) ==
    /\ installer[p].at = "lock" /\ downloadLock = NoHolder
    /\ \/ Verified(p, archive) /\ At_(p, [at |-> "extract"]) /\ UNCHANGED downloadLock
       \/ /\ ~Verified(p, archive) /\ downloadLock' = p
          /\ \E s \in Sources : At_(p, [at |-> "fetch", source |-> s, left |-> Attempts])
    /\ UNCHANGED <<archive, binary, toolReceipt, restarts, foreign>>

Unlocked(p) == downloadLock' = IF downloadLock = p THEN NoHolder ELSE downloadLock
GivesUp(p) == At_(p, [at |-> "idle"]) /\ Unlocked(p)

\* One attempt into a temporary file.  The hash decides: the right bytes
\* replace the archive, wrong ones end the installation at once; an error is
\* retried while it is worth it, then the next source is tried.
Fetch(p) ==
    /\ installer[p].at = "fetch"
    /\ \/ \E got \in ToolVersions \cup {Damaged_} :
            IF Verified(p, got)
            THEN archive' = got /\ At_(p, [at |-> "extract"]) /\ Unlocked(p)
            ELSE GivesUp(p) /\ UNCHANGED archive
       \/ /\ installer[p].left > 1 /\ At_(p, [installer[p] EXCEPT !.left = @ - 1])
          /\ UNCHANGED <<archive, downloadLock>>
       \/ /\ installer[p].source = "mirror"
          /\ At_(p, [at |-> "fetch", source |-> "canonical", left |-> Attempts])
          /\ UNCHANGED <<archive, downloadLock>>
       \/ installer[p].source = "canonical" /\ GivesUp(p) /\ UNCHANGED archive
    /\ UNCHANGED <<binary, toolReceipt, restarts, foreign>>

\* The archive is opened again, without the lock; what cannot be extracted ends it.
Extract(p) ==
    /\ installer[p].at = "extract"
    /\ \/ archive \in ToolVersions /\ At_(p, [at |-> "install", candidate |-> archive])
       \/ At_(p, [at |-> "idle"])
    /\ UNCHANGED <<archive, binary, downloadLock, toolReceipt, restarts, foreign>>

\* _install_executable: an equal binary stays, another one is replaced.
InstallExecutable(p) ==
    /\ installer[p].at = "install"
    /\ binary' = installer[p].candidate
    /\ foreign' = IF binary' = binary THEN foreign ELSE [q \in Installers |-> TRUE]
    /\ At_(p, [at |-> "check"])
    /\ UNCHANGED <<archive, downloadLock, toolReceipt, restarts>>

BinaryPresent(p) == binary # Missing
BinaryLocked(p) == Verified(p, binary)
CheckBinary(p) ==
    /\ installer[p].at = "check"
    /\ IF BinaryLocked(p)
       THEN At_(p, [at |-> "receipt"]) /\ foreign' = [foreign EXCEPT ![p] = FALSE]
       ELSE At_(p, [at |-> "idle"]) /\ UNCHANGED foreign
    /\ UNCHANGED <<archive, binary, downloadLock, toolReceipt, restarts>>

\* The artifacts, downloaded the same way, and the receipt.
WriteToolReceipt(p) ==
    /\ installer[p].at = "receipt"
    /\ toolReceipt' = toolReceipt \cup {p} /\ At_(p, [at |-> "idle"])
    /\ UNCHANGED <<archive, binary, downloadLock, restarts, foreign>>

InstallerDies(p) ==
    /\ installer[p].at # "idle" /\ GivesUp(p)
    /\ UNCHANGED <<archive, binary, toolReceipt, restarts, foreign>>

BootstrapNext ==
    \E p \in Installers :
        \/ Install(p) \/ LockDownload(p) \/ Fetch(p) \/ Extract(p)
        \/ InstallExecutable(p) \/ CheckBinary(p) \/ WriteToolReceipt(p) \/ InstallerDies(p)

BootstrapSpec == BootstrapInit /\ [][BootstrapNext]_bootstrapVars

\* A receipt stands for the locked binary as long as no installation after its
\* check put another one there, even when an installer of another lock exchanged
\* the archive after this one's download; and whoever goes on from a download
\* finds an archive that some lock pins (_download, install).
ToolsAreLocked ==
    \A p \in Installers :
        /\ p \in toolReceipt /\ ~foreign[p] => binary = ToolLock[p]
        /\ installer[p].at = "extract" => archive \in {ToolLock[q] : q \in Installers}

=============================================================================
