---------------------------- MODULE OciPublisher ----------------------------
(***************************************************************************)
(* publish_oci_mirror.py copies the locked upstream images into the        *)
(* private registry, batch by batch, one thread per image of a batch, and  *)
(* keeps a provenance file.  A tag names an image and its digest, so there *)
(* is one right content per tag; what the registry stores under a digest   *)
(* stays.  A copy that was given up after a timeout may still arrive.      *)
(***************************************************************************)
EXTENDS Naturals, FiniteSets

CONSTANTS Images,        \* images of the seed
          BatchOf,       \* image -> number of its batch (max_parallelism)
          CopyAttempts,  \* mirror_publish_attempts
          MaxMoves       \* bound: tags moved by others

ASSUME PublisherAssumption ==
    /\ IsFiniteSet(Images)
    /\ BatchOf \in [Images -> 1..Cardinality(Images)]
    /\ CopyAttempts \in Nat \ {0} /\ MaxMoves \in Nat

VARIABLES mirrorTag,   \* image -> what its tag shows: "absent", "canonical" or "other"
          stored,      \* images whose canonical bytes the registry holds
          copying,     \* copies under way that nobody waits for any more
          thread,      \* image -> where its thread stands
          batch,       \* batch at work, 0 before and after
          provenance,  \* the file: status, images and failures
          moves        \* moves by others so far

publisherVars == <<mirrorTag, stored, copying, thread, batch, provenance, moves>>

Quiet == [at |-> "none"]
NoProvenance == [status |-> "none", images |-> {}, failures |-> {}]
LastBatch == CHOOSE b \in {BatchOf[i] : i \in Images} : \A i \in Images : BatchOf[i] <= b

PublisherInit ==
    /\ mirrorTag \in [Images -> {"absent", "canonical", "other"}]
    /\ stored = {i \in Images : mirrorTag[i] = "canonical"}
    /\ copying = {} /\ thread = [i \in Images |-> Quiet]
    /\ batch = 0 /\ provenance = NoProvenance /\ moves = 0

InBatch(b) == {i \in Images : BatchOf[i] = b}
Submit(b) == thread' = [i \in Images |-> IF BatchOf[i] = b THEN [at |-> "canonical"] ELSE Quiet]

\* publish: head and seed as expected and the seed valid, or nothing happens;
\* then "running" is on disk before the first request.  Without its tools it
\* ends as "failed".
Publish ==
    /\ batch = 0
    /\ \/ /\ provenance' = [status |-> "running", images |-> {}, failures |-> {}]
          /\ batch' = 1 /\ Submit(1)
       \/ /\ provenance' = [status |-> "failed", images |-> {}, failures |-> {"toolchain"}]
          /\ UNCHANGED <<batch, thread>>
    /\ UNCHANGED <<mirrorTag, stored, copying, moves>>

Becomes(i, state) == thread' = [thread EXCEPT ![i] = state]
Fails(i) == Becomes(i, [at |-> "failed"])

\* The digest of the upstream manifest; unreachable, missing or another digest
\* ends the thread (_manifest_digest retries only what is unavailable).
InspectCanonical(i) ==
    /\ thread[i].at = "canonical"
    /\ Becomes(i, [at |-> "existing"]) \/ Fails(i)
    /\ UNCHANGED <<mirrorTag, stored, copying, batch, provenance, moves>>

ReusableAny(shown) == shown # "absent"
Reusable(shown) == shown = "canonical"

\* An existing tag is reused when it shows the canonical digest; with another
\* digest the thread fails, it never overwrites.
InspectExisting(i) ==
    /\ thread[i].at = "existing"
    /\ \/ mirrorTag[i] = "absent" /\ Becomes(i, [at |-> "copy", left |-> CopyAttempts])
       \/ Reusable(mirrorTag[i]) /\ Becomes(i, [at |-> "done"])
       \/ mirrorTag[i] # "absent" /\ ~Reusable(mirrorTag[i]) /\ Fails(i)
       \/ Fails(i)
    /\ UNCHANGED <<mirrorTag, stored, copying, batch, provenance, moves>>

Arrive(i) == mirrorTag' = [mirrorTag EXCEPT ![i] = "canonical"] /\ stored' = stored \cup {i}

\* One attempt: it succeeds, or it fails or times out, maybe to arrive later;
\* after the last one the thread fails.
CopyOne(i) ==
    /\ thread[i].at = "copy"
    /\ \/ Arrive(i) /\ Becomes(i, [at |-> "verify"]) /\ UNCHANGED copying
       \/ /\ copying' \in {copying, copying \cup {i}}
          /\ IF thread[i].left > 1
             THEN Becomes(i, [at |-> "copy", left |-> thread[i].left - 1]) ELSE Fails(i)
          /\ UNCHANGED <<mirrorTag, stored>>
    /\ UNCHANGED <<batch, provenance, moves>>

LateCopy(i) ==
    /\ i \in copying /\ copying' = copying \ {i} /\ Arrive(i)
    /\ UNCHANGED <<thread, batch, provenance, moves>>

VerifyCopy(i) ==
    /\ thread[i].at = "verify"
    /\ \/ mirrorTag[i] = "canonical" /\ Becomes(i, [at |-> "done"])
       \/ Fails(i)
    /\ UNCHANGED <<mirrorTag, stored, copying, batch, provenance, moves>>

\* All futures of the batch have ended: the file lists them; a failure ends
\* the run, the last batch makes it a pass.
BatchEnds ==
    /\ batch > 0 /\ \A i \in InBatch(batch) : thread[i].at \in {"done", "failed"}
    /\ LET done == provenance.images \cup {i \in InBatch(batch) : thread[i].at = "done"}
           failed == {i \in InBatch(batch) : thread[i].at = "failed"}
           status == IF failed # {} THEN (IF done # {} THEN "partial" ELSE "failed")
                     ELSE IF batch = LastBatch THEN "pass" ELSE "running"
       IN /\ provenance' = [status |-> status, images |-> done, failures |-> failed]
          /\ IF status = "running"
             THEN batch' = batch + 1 /\ Submit(batch + 1)
             ELSE batch' = 0 /\ thread' = [i \in Images |-> Quiet]
    /\ UNCHANGED <<mirrorTag, stored, copying, moves>>

PublisherDies ==
    /\ batch > 0 /\ batch' = 0 /\ thread' = [i \in Images |-> Quiet]
    /\ copying' = copying \cup {i \in Images : thread[i].at = "copy"}
    /\ UNCHANGED <<mirrorTag, stored, provenance, moves>>

\* Somebody else pushes a tag, or deletes it.
TagMoves(i) ==
    /\ moves < MaxMoves /\ moves' = moves + 1
    /\ \E shown \in {"absent", "other"} : mirrorTag' = [mirrorTag EXCEPT ![i] = shown]
    /\ UNCHANGED <<stored, copying, thread, batch, provenance>>

PublisherNext ==
    \/ Publish \/ BatchEnds \/ PublisherDies
    \/ \E i \in Images :
          \/ InspectCanonical(i) \/ InspectExisting(i) \/ CopyOne(i) \/ VerifyCopy(i)
          \/ LateCopy(i) \/ TagMoves(i)

PublisherSpec == PublisherInit /\ [][PublisherNext]_publisherVars

\* The provenance never lists an image whose canonical bytes the registry does
\* not hold, whatever tags others move, whatever attempt timed out and arrived
\* later or never, and whenever the publisher died; and "pass" is all of the
\* seed without a failure (publish, _publish_one).
ProvenanceIsStored ==
    /\ provenance.images \subseteq stored
    /\ provenance.status = "pass" => provenance.images = Images /\ provenance.failures = {}

=============================================================================
