------------------------------ MODULE OciArchives ------------------------------
(***************************************************************************)
(* Two readers of OCI archives: merge_oci_archives.py, which takes what a  *)
(* native build exported, and version_plan.py (_OciMetadata), by which the *)
(* build and the publisher verify an artifact.  Each has rules of its own  *)
(* for the same graph of documents.                                        *)
(*                                                                         *)
(* Content is addressed by its digest: here a document is its own digest.  *)
(* An archive has a root, a sequence of descriptors; blobs, the documents  *)
(* it holds; and the blobs among them whose bytes are damaged.             *)
(*   image       [kind, arch, label, revision, layers, diffs], with its    *)
(*               configuration; a layer is [kind, tree]                    *)
(*   attestation [kind, form, subject, typed, layers], with its            *)
(*               configuration; `typed` says the subject's descriptor has  *)
(*               an artifactType; a layer is a statement [kind, about]     *)
(*   index       [kind, manifests]                                         *)
(* A descriptor is [media, doc, platform, mark, about]: `mark` says it is  *)
(* annotated as an attestation, `about` names what it refers to, if it     *)
(* does.  The field a policy declares for an OCI artifact is taken to be   *)
(* the version label, which the merge checks.                              *)
(*                                                                         *)
(* Left out is what both readers demand alike of a document by itself: its *)
(* schema, the names of its media types, and its own limit in bytes, but   *)
(* for indexes, of which the merge writes one.                             *)
(***************************************************************************)
EXTENDS Naturals, FiniteSets, SequencesExt

CONSTANTS MaxDepth,    \* nesting of indexes (8 in the code)
          MaxVisited,  \* descriptors walked, and manifests in an index (1024)
          MaxMetadata, \* bytes read of an archive's documents (32,000,000)
          MaxDocument, \* bytes of an index (2,000,000)
          MaxMembers,  \* documents an archive holds (100,000 members)
          Size(_),     \* bytes read for a document, its configuration included
          Legible(_)   \* whether version_plan.py parses a document the merge parses:
                       \* it wants UTF-8 without a mark, and nesting it can recurse into

ASSUME ArchiveAssumption ==
  /\ MaxDepth \in Nat \ {0} /\ MaxVisited \in Nat \ {0}
  /\ MaxMetadata \in Nat /\ MaxDocument \in Nat /\ MaxMembers \in Nat

-----------------------------------------------------------------------------
(* Walking the graph *)

Children(d) ==
  IF d.media = "index" /\ d.doc.kind = "index" THEN d.doc.manifests ELSE <<>>

Below(descriptors) == FlattenSeq([i \in DOMAIN descriptors |-> Children(descriptors[i])])

\* The descriptors at depth n of an archive; one level more than may be walked.
Levels(a) ==
  LET level[n \in 0 .. MaxDepth + 1] == IF n = 0 THEN a.root ELSE Below(level[n - 1])
  IN level

Walked(a) == LET level == Levels(a) IN FlattenSeq([n \in 1 .. MaxDepth + 2 |-> level[n - 1]])

IsList(s) == s \in Seq(ToSet(s))

\* Both readers count what they visit over the whole archive, and bound each index.
WithinLimits(a) ==
  /\ IsList(a.root) /\ a.root # <<>>
  /\ Levels(a)[MaxDepth + 1] = <<>> /\ Len(Walked(a)) <= MaxVisited
  /\ \A n \in 0 .. MaxDepth : \A d \in ToSet(Levels(a)[n]) :
       d.media = "index" =>
         /\ d.doc.kind = "index" /\ IsList(d.doc.manifests)
         /\ Len(d.doc.manifests) \in 1 .. MaxVisited

\* Those elements of a sequence that are in T, in order.
Among(s, T) == FlattenSeq([i \in DOMAIN s |-> IF s[i] \in T THEN <<s[i]>> ELSE <<>>])

Leaves(a) == Among(Walked(a), {d \in ToSet(Walked(a)) : d.media # "index"})

Attests(d) == d.mark \/ (d.doc.kind = "attestation" /\ d.doc.form = "artifact")

\* What an attestation speaks of: its subject, or the reference of its descriptor.
SubjectOf(d) == IF d.doc.form = "artifact" THEN d.doc.subject ELSE d.about

-----------------------------------------------------------------------------
(* Limits over a whole archive, the same in both readers *)

\* index.json, and oci-layout with it.
Root(a) == [kind |-> "index", manifests |-> a.root]

\* Every descriptor walked costs a reading of its document, and so does the root.
Metadata(a) ==
  LET walked == Walked(a)
  IN <<Root(a)>> \o [i \in DOMAIN walked |-> walked[i].doc]

Total(documents) == FoldLeft(LAMBDA sum, document : sum + Size(document), 0, documents)

WithinBudget(a, documents) ==
  /\ Total(documents) <= MaxMetadata
  /\ Cardinality(a.blobs) <= MaxMembers
  /\ \A document \in ToSet(documents) : document.kind = "index" => Size(document) <= MaxDocument

-----------------------------------------------------------------------------
(* merge_oci_archives.py: an exported archive of one platform *)

ImageFits(d, a, platform, label, revision) ==
  /\ d.doc.kind = "image" /\ ~d.mark
  /\ d.platform = platform /\ d.doc.arch = platform
  /\ d.doc.label = label /\ d.doc.revision = revision
  /\ \A i \in DOMAIN d.doc.layers : d.doc.layers[i] \in a.blobs
  \* Each layer unpacks to the file system tree the configuration names.
  /\ d.doc.diffs = [i \in DOMAIN d.doc.layers |-> d.doc.layers[i].tree]

StatementFits(s, subject) == s.kind = "statement" /\ subject \in s.about

AttestationFits(d, a) ==
  /\ d.doc.kind = "attestation" /\ d.platform = "unknown"
  /\ IF d.doc.form = "artifact"
     THEN d.doc.subject # <<>> /\ d.about \in {<<>>, d.doc.subject}
     ELSE d.doc.subject = <<>> /\ d.about # <<>>
  /\ SubjectOf(d)[1] \in a.blobs
  /\ d.doc.layers # <<>>
  /\ \A i \in DOMAIN d.doc.layers :
       d.doc.layers[i] \in a.blobs /\ StatementFits(d.doc.layers[i], SubjectOf(d)[1])

\* A plausible slip: an attestation of another image of the archive passes.
MutOneImage(leaves) == \E d \in leaves : ~Attests(d)
\* One image, and attestations of that image only.
OneImage(leaves) ==
  \E d \in leaves :
    ~Attests(d) /\ \A e \in leaves \ {d} : Attests(e) /\ SubjectOf(e) = <<d.doc>>

\* Statements are read too, and charged to the same budget.
Statements(a) ==
  LET leaves == Leaves(a)
  IN FlattenSeq([i \in DOMAIN leaves |->
                   IF Attests(leaves[i]) THEN leaves[i].doc.layers ELSE <<>>])

InputAccepted(a, platform, label, revision) ==
  /\ a.damaged = {}
  /\ WithinLimits(a)
  /\ \A d \in ToSet(Walked(a)) : d.media \in {"index", "manifest"} /\ d.doc \in a.blobs
  /\ \A d \in ToSet(Leaves(a)) :
       IF Attests(d) THEN AttestationFits(d, a) ELSE ImageFits(d, a, platform, label, revision)
  /\ IsInjective([i \in DOMAIN Leaves(a) |-> Leaves(a)[i].doc])
  /\ OneImage(ToSet(Leaves(a)))
  /\ WithinBudget(a, Metadata(a) \o Statements(a))

\* The merged archive: one index of all leaves, images first, over all blobs.
Manifests(parts) ==
  LET leaves == FlattenSeq([i \in DOMAIN parts |-> Leaves(parts[i])])
      images == {d \in ToSet(leaves) : d.platform # "unknown"}
  IN Among(leaves, images) \o Among(leaves, ToSet(leaves) \ images)
Merged(parts) ==
  LET inner == [kind |-> "index", manifests |-> Manifests(parts)]
  IN [root |-> <<[media |-> "index", doc |-> inner, platform |-> "any",
                  mark |-> FALSE, about |-> <<>>]>>,
      blobs |-> {inner} \cup UNION {parts[i].blobs : i \in DOMAIN parts},
      damaged |-> UNION {parts[i].damaged : i \in DOMAIN parts}]

-----------------------------------------------------------------------------
(* version_plan.py: an artifact of any number of platforms *)

\* An image or index is read and hashed; of its layers only the presence is checked.
Readable(a, doc) == doc \in a.blobs /\ doc \notin a.damaged /\ Legible(doc)

RunnableFits(d, a, label) ==
  /\ d.doc.kind = "image"
  /\ d.platform \in {"any", d.doc.arch}
  /\ d.doc.label = label
  /\ \A i \in DOMAIN d.doc.layers : d.doc.layers[i] \in a.blobs

AttestationKnown(d, a) ==
  /\ d.media = "manifest" /\ d.doc.kind = "attestation" /\ d.platform = "unknown"
  /\ d.doc.form = "artifact" =>
       /\ d.doc.subject # <<>> /\ d.doc.subject[1] \in a.blobs /\ ~d.doc.typed
       /\ d.about \in {<<>>, d.doc.subject}
  /\ d.doc.layers # <<>>
  /\ \A i \in DOMAIN d.doc.layers : d.doc.layers[i] \in a.blobs

ArtifactAccepted(a, label) ==
  LET walked == ToSet(Walked(a))
      runnable == {d \in walked : d.media # "index" /\ ~Attests(d)}
      images == {d.doc : d \in runnable}
  IN /\ WithinLimits(a) /\ WithinBudget(a, Metadata(a))
     /\ \A d \in walked : Readable(a, d.doc)
     /\ \A d \in runnable : RunnableFits(d, a, label)
     /\ \A d \in walked : Attests(d) =>
          AttestationKnown(d, a) /\ ToSet(SubjectOf(d)) \subseteq images
     /\ images # {}
=============================================================================
