---------------------------- MODULE ProofMirror ----------------------------
(***************************************************************************)
(* From the image lock to a reusable proof.  In every checkout of a host   *)
(* oci_proof_mirror.py loads the locked images into Docker (load-host),    *)
(* verifies them offline (verify-host) and loads them into kind nodes      *)
(* (load-kind); proof_identity.py records a passing proof and lets a later *)
(* run reuse it.  Docker's local tags are shared by all checkouts, an      *)
(* inspection reads image and digests by two commands, the lock is read    *)
(* at the start and hashed at the end, and the reusable proof is a pair of *)
(* files.  One image stands for the inventory: each is handled alike.      *)
(***************************************************************************)
EXTENDS Naturals, FiniteSets

CONSTANTS Checkouts, Heads,   \* work trees and the commits they may be at
          InputsOf,           \* commit -> content of the suite's input files
          LockedDigest,       \* content of the inputs -> digest the mirror lock pins
          KindNodes,          \* nodes of a checkout's cluster
          MaxSwitches,        \* bound: checkouts that move to another commit
          MaxRuns             \* bound: invocations

ASSUME MirrorAssumption ==
    /\ InputsOf \in [Heads -> Nat] /\ KindNodes # {} /\ MaxSwitches \in Nat /\ MaxRuns \in Nat

VARIABLES headOf,      \* checkout -> commit
          localTag,    \* the image Docker's local reference points to
          nodeImage,   \* checkout -> node -> image its containerd has under the reference
          work,         \* checkout -> invocation: where it stands and what it read
          proofFile, recordFile,   \* proof.json and record.json of the reuse directory
          switches, runs           \* bounds so far

mirrorVars == <<headOf, localTag, nodeImage, work, proofFile, recordFile, switches, runs>>

NoImage == "none"
Foreign == "foreign"      \* an image of the reference's name without the mirror's digest
NoRecord == [status |-> "none"]
Asleep == [at |-> "idle"]
Inputs(c) == InputsOf[headOf[c]]
Lock(c) == LockedDigest[Inputs(c)]

MirrorInit ==
    /\ headOf \in [Checkouts -> Heads] /\ localTag \in {NoImage, Foreign}
    /\ nodeImage = [c \in Checkouts |-> [n \in KindNodes |-> NoImage]]
    /\ work = [c \in Checkouts |-> Asleep]
    /\ proofFile = NoRecord /\ recordFile = NoRecord /\ switches = 0 /\ runs = 0

Goes(c, state) == work' = [work EXCEPT ![c] = state]
ReuseFiles == <<proofFile, recordFile>>

\* The work tree moves to another commit; an invocation that runs there goes on.
Switch(c, h) ==
    /\ switches < MaxSwitches /\ switches' = switches + 1
    /\ headOf[c] # h /\ headOf' = [headOf EXCEPT ![c] = h]
    /\ UNCHANGED <<localTag, nodeImage, work, ReuseFiles, runs>>

\* The generation check of _load_lock (source commit is an ancestor, its seed
\* and the work tree's have the locked hash) holds in every commit of Heads.
Begins(c, state) ==
    /\ work[c].at = "idle" /\ runs < MaxRuns /\ runs' = runs + 1 /\ Goes(c, state)
    /\ UNCHANGED <<headOf, localTag, nodeImage, ReuseFiles, switches>>

(***************************************************************************)
(* load-host                                                               *)
(***************************************************************************)

LoadHost(c) == Begins(c, [at |-> "pull", lock |-> Lock(c)])

\* _pull_one: a verified local tag is reused; else the mirror's digest is
\* pulled and tagged; every attempt may fail.
PullOne(c) ==
    /\ work[c].at = "pull"
    /\ localTag' = work[c].lock \/ UNCHANGED localTag
    /\ Goes(c, Asleep)
    /\ UNCHANGED <<headOf, nodeImage, ReuseFiles, switches, runs>>

(***************************************************************************)
(* A proof: verify-host, load-kind and the receipt                         *)
(***************************************************************************)

\* The proof has a clean work tree: its commit is its content.  verify-host
\* reads the lock; _local_image asks for the image ID ...
StartMirrorProof(c) == Begins(c, [at |-> "hostId", commit |-> headOf[c], lock |-> Lock(c)])

ReadImageId(c, at, field, next) ==
    /\ work[c].at = at
    /\ IF localTag = NoImage THEN Goes(c, Asleep)
       ELSE Goes(c, [f \in DOMAIN work[c] \cup {field} |->
                       IF f = field THEN localTag ELSE IF f = "at" THEN next ELSE work[c][f]])
    /\ UNCHANGED <<headOf, localTag, nodeImage, ReuseFiles, switches, runs>>
HostImageId(c) == ReadImageId(c, "hostId", "hostId", "hostDigests")

\* ... and then for its digests, which must hold the mirror's.
DigestsBound(c) == localTag = work[c].lock
HostDigests(c) ==
    /\ work[c].at = "hostDigests"
    /\ Goes(c, IF DigestsBound(c) THEN [work[c] EXCEPT !.at = "hostHash"] ELSE Asleep)
    /\ UNCHANGED <<headOf, localTag, nodeImage, ReuseFiles, switches, runs>>

\* The receipt carries the hash of the lock as it is now.  The cluster comes
\* up, and load-kind reads the lock anew.
HostReceipt(c) ==
    /\ work[c].at = "hostHash"
    /\ Goes(c, [at |-> "kindCheck", commit |-> work[c].commit, lock |-> Lock(c),
                hostId |-> work[c].hostId, hostLock |-> Lock(c)])
    /\ UNCHANGED <<headOf, localTag, nodeImage, ReuseFiles, switches, runs>>

KindCheck(c) ==
    /\ work[c].at = "kindCheck"
    /\ Goes(c, IF DigestsBound(c) THEN [work[c] EXCEPT !.at = "kindLoad"] ELSE Asleep)
    /\ UNCHANGED <<headOf, localTag, nodeImage, ReuseFiles, switches, runs>>

\* kind load copies what the tag points to now; it may stop after some nodes.
KindLoad(c) ==
    /\ work[c].at = "kindLoad"
    /\ \E reached \in SUBSET KindNodes :
         /\ nodeImage' = [nodeImage EXCEPT ![c] =
                            [n \in KindNodes |-> IF n \in reached THEN localTag ELSE @[n]]]
         /\ Goes(c, IF reached = KindNodes THEN [work[c] EXCEPT !.at = "kindId"] ELSE Asleep)
    /\ UNCHANGED <<headOf, localTag, ReuseFiles, switches, runs>>

KindImageId(c) == ReadImageId(c, "kindId", "kindId", "kindDigests")
KindDigests(c) ==
    /\ work[c].at = "kindDigests"
    /\ Goes(c, IF DigestsBound(c)
               THEN [f \in DOMAIN work[c] \cup {"torn"} |->
                       IF f = "torn" THEN work[c].kindId # localTag   \* ghost
                       ELSE IF f = "at" THEN "kindNodes" ELSE work[c][f]]
               ELSE Asleep)
    /\ UNCHANGED <<headOf, localTag, nodeImage, ReuseFiles, switches, runs>>

\* _kind_cri_image_binding on every node, the registries blocked, the lock
\* hashed, and the rest of the proof, which passes or does not.
NodesBound(c) == \A n \in KindNodes : nodeImage[c][n] = work[c].kindId
KindReceipt(c) ==
    /\ work[c].at = "kindNodes"
    /\ \/ /\ NodesBound(c)
          /\ Goes(c, [at |-> "proved",
                      proof |-> [status |-> "pass", commit |-> work[c].commit,
                                 hostId |-> work[c].hostId, hostLock |-> work[c].hostLock,
                                 kindId |-> work[c].kindId, kindLock |-> Lock(c),
                                 digest |-> work[c].lock, torn |-> work[c].torn,
                                 ran |-> {nodeImage[c][n] : n \in KindNodes}]])
       \/ Goes(c, Asleep)
    /\ UNCHANGED <<headOf, localTag, nodeImage, ReuseFiles, switches, runs>>

(***************************************************************************)
(* record and validate                                                     *)
(***************************************************************************)

\* _validate_controlled_oci_proof: both receipts of the current lock, the
\* cluster's image that of the host and of the locked digest.
ClusterOnly(p, lock) == p.kindLock = lock /\ p.digest = lock
HostImage(p, lock) == p.hostLock = lock
ClusterImage(p, lock) == p.kindLock = lock /\ p.digest = lock /\ p.kindId = p.hostId
ControlledProof(p, lock) == HostImage(p, lock) /\ ClusterImage(p, lock)

\* record: identity.json as computed from the inputs now, the proof of the
\* commit that is checked out; proof.json is written first, then record.json.
RecordProof(c) ==
    /\ work[c].at = "proved"
    /\ IF work[c].proof.commit = headOf[c] /\ ControlledProof(work[c].proof, Lock(c))
       THEN /\ proofFile' = work[c].proof
            /\ Goes(c, [at |-> "record", identity |-> Inputs(c), proof |-> work[c].proof])
       ELSE UNCHANGED proofFile /\ Goes(c, Asleep)
    /\ UNCHANGED <<headOf, localTag, nodeImage, recordFile, switches, runs>>
RecordIdentity(c) ==
    /\ work[c].at = "record"
    /\ recordFile' = [status |-> "pass", identity |-> work[c].identity, proof |-> work[c].proof]
    /\ Goes(c, Asleep)
    /\ UNCHANGED <<headOf, localTag, nodeImage, proofFile, switches, runs>>

\* validate: identity, then the record, then the bytes of the proof against
\* the record's hash, then the proof once more as JSON.
Validate(c) == Begins(c, [at |-> "readRecord", identity |-> Inputs(c)])
ReadRecord(c) ==
    /\ work[c].at = "readRecord"
    /\ Goes(c, IF recordFile.status = "pass" /\ recordFile.identity = work[c].identity
               THEN [at |-> "hash", identity |-> work[c].identity, record |-> recordFile.proof] ELSE Asleep)
    /\ UNCHANGED <<headOf, localTag, nodeImage, ReuseFiles, switches, runs>>
HashMatches(c) == proofFile = work[c].record
HashProof(c) ==
    /\ work[c].at = "hash"
    /\ Goes(c, IF HashMatches(c) THEN [work[c] EXCEPT !.at = "payload"] ELSE Asleep)
    /\ UNCHANGED <<headOf, localTag, nodeImage, ReuseFiles, switches, runs>>
ReadProof(c) ==
    /\ work[c].at = "payload"
    /\ LET p == proofFile
           current == LockedDigest[work[c].identity] = Lock(c)
       IN Goes(c, IF current /\ p.commit = work[c].record.commit /\ ControlledProof(p, Lock(c))
                  THEN [at |-> "accepted", identity |-> work[c].identity, proof |-> p] ELSE Asleep)
    /\ UNCHANGED <<headOf, localTag, nodeImage, ReuseFiles, switches, runs>>
Reuse(c) ==
    /\ work[c].at = "accepted" /\ Goes(c, Asleep)
    /\ UNCHANGED <<headOf, localTag, nodeImage, ReuseFiles, switches, runs>>

\* Somebody builds or tags an image of that name.
ForeignTag ==
    /\ switches < MaxSwitches /\ switches' = switches + 1
    /\ localTag' = Foreign
    /\ UNCHANGED <<headOf, nodeImage, work, ReuseFiles, runs>>

RunDies(c) ==
    /\ work[c].at # "idle" /\ Goes(c, Asleep)
    /\ UNCHANGED <<headOf, localTag, nodeImage, ReuseFiles, switches, runs>>

MirrorNext ==
    \/ ForeignTag
    \/ \E c \in Checkouts :
          \/ \E h \in Heads : Switch(c, h)
          \/ LoadHost(c) \/ PullOne(c) \/ StartMirrorProof(c)
          \/ HostImageId(c) \/ HostDigests(c) \/ HostReceipt(c)
          \/ KindCheck(c) \/ KindLoad(c) \/ KindImageId(c) \/ KindDigests(c) \/ KindReceipt(c)
          \/ RecordProof(c) \/ RecordIdentity(c)
          \/ Validate(c) \/ ReadRecord(c) \/ HashProof(c) \/ ReadProof(c) \/ Reuse(c) \/ RunDies(c)

MirrorSpec == MirrorInit /\ [][MirrorNext]_mirrorVars

\* A proof that is reused was made from the inputs of the run that reuses it,
\* and every node ran the image the lock pins, although tags are shared, the
\* lock is read and hashed at different times and the files of another
\* record may come between any two reads.  Only an inspection of load-kind
\* that saw two images, together with a host receipt of the wrong image,
\* would get past the checks (verify_host, load_kind, record, validate).
ReusedProofIsBound ==
    \A c \in Checkouts : work[c].at = "accepted" =>
        LET p == work[c].proof
            lock == LockedDigest[work[c].identity]
        IN /\ InputsOf[p.commit] = work[c].identity
           /\ p.ran = {lock} \/ (p.torn /\ p.hostId # lock)

=============================================================================
