----------------------------- MODULE OciImages -----------------------------
(***************************************************************************)
(* The three tools an image passes on its way from the upstream registry   *)
(* into a build: publish_oci_mirror.py, oci_proof_mirror.py with           *)
(* proof_identity.py, and controlled_oci_dockerfile.  They meet in the     *)
(* lock, which each of them only reads.                                    *)
(***************************************************************************)
EXTENDS OciPublisher, ProofMirror, OciDockerfile

\* Two base images of a lock do not go by one local name.  controlled_refs only
\* refuses two with one name and one digest; the committed lock
\* (platform/oci-proof-mirror.lock.json) gives every image its own name.
OwnLocalNames ==
    \A l \in OciLocks : \A b, d \in BaseImages : l[b].local = l[d].local => l[b].ref = l[d].ref

\* Images are what the lock says, from the mirror to the build: nothing is
\* recorded as mirrored that is not stored so (publish), a proof is reused only
\* for what it ran on (record, validate), and a Dockerfile that is accepted
\* builds on locked images and earlier stages only (controlled_oci_dockerfile).
ImagesAreControlled == ProvenanceIsStored /\ ReusedProofIsBound /\ DockerfileIsControlled

=============================================================================
