------------------------------ MODULE ReleaseBuild ------------------------------
(***************************************************************************)
(* From a frozen plan to an accepted package: release-build.yml runs       *)
(* version_plan.py (sync), check-release-version.py, a build,              *)
(* stage_release_assets.py and version_receipt.py; the publisher           *)
(* (release_versioned.py) takes what was uploaded and verifies it again.   *)
(*                                                                         *)
(* A package is plain, one archive with a version written in it, or an OCI *)
(* archive merged from native exports (OciMerge); the policy declares one  *)
(* of them.  What a build took from the checkout is the tree it leaves in  *)
(* the package, with the attempt that built it.                            *)
(*                                                                         *)
(* Others may edit the version files, write into exports, or kill a sync;  *)
(* the run may be repeated in whole, on a fresh checkout, or in part, the  *)
(* publisher alone.  Nothing is assumed of the directory the publisher is  *)
(* given: a package and a receipt in it may be of different builds.        *)
(***************************************************************************)
EXTENDS VersionSync, OciMerge

CONSTANTS Formats,     \* package formats a policy may declare
          Artifact,    \* the artifact's declaration: [path, slots, value, ecosystem]
          Exports(_, _, _), \* the archives a native build of a platform may export,
                       \* given the version and the tree it found
          MaxAttempts  \* bound: attempts of the run

ASSUME BuildAssumption == Formats \subseteq {"plain", "oci"} /\ MaxAttempts \in Nat

VARIABLES format,  \* the declared format
          attempt, \* attempt of the run
          job,     \* what the attempt's build is at, its staged package and receipt
          uploads, \* what builds have uploaded
          shipped  \* what the publisher has accepted

vars == <<syncVars, mergeVars, format, attempt, job, uploads, shipped>>

NewJob == [at |-> "new", staged |-> <<>>, receipt |-> <<>>]
JobAt(at) == job' = [job EXCEPT !.at = at]

-----------------------------------------------------------------------------
(* Building *)

\* check-release-version.py: by the workflow after the sync, and again by the build.
CheckRelease ==
  /\ sync.at = "done" /\ job.at \in {"new", "checked"}
  /\ JobAt(IF ~(ValidPlan(plan, Policy, Declared, Source) /\ InSync) THEN "failed"
           ELSE IF job.at = "new" THEN "checked" ELSE "building")
  /\ UNCHANGED <<syncVars, mergeVars, format, attempt, uploads, shipped>>

\* What a build takes from the checkout.
Tree == [files |-> files, made |-> attempt]
Label == files[Artifact.path].slots[CHOOSE slot \in Artifact.slots : TRUE]
Wanted == Value(plan, Artifact)

BuildPackage ==
  /\ job.at = "building" /\ format = "plain" /\ output = <<>>
  /\ output' = <<[kind |-> "plain", label |-> Label, tree |-> Tree]>>
  /\ UNCHANGED <<syncVars, exports, merge, format, attempt, job, uploads, shipped>>

\* One native export; the builder is not ours, and may export anything of `Exports`,
\* but what is in its layers it has from the checkout.
LayerTrees(archive) == {blob.tree : blob \in {b \in archive.blobs : b.kind = "layer"}}
BuildExport(p) ==
  /\ job.at = "building" /\ format = "oci" /\ exports[p].archive = <<>>
  /\ \E archive \in Exports(p, Label, Tree) :
       /\ LayerTrees(archive) \subseteq {Tree}
       /\ exports' = [exports EXCEPT ![p].archive = <<archive>>]
  /\ UNCHANGED <<syncVars, merge, output, format, attempt, job, uploads, shipped>>

Merge ==
  /\ job.at = "building" /\ format = "oci" /\ MergeStep(Wanted)
  /\ UNCHANGED <<syncVars, format, attempt, job, uploads, shipped>>

-----------------------------------------------------------------------------
(* Staging: stage_release_assets.py and version_receipt.py *)

\* A plausible slip: that the fields hold their versions is enough.
MutInputsUnchanged == TRUE
\* The version files are byte for byte what the sync left.
InputsUnchanged == files = evidence[1].after

\* Checks first, then the one file the pattern names is copied.
StageInputs ==
  /\ job.at = "building" /\ output # <<>> /\ merge.at \in {"idle", "linked"}
  /\ job' = IF ValidPlan(plan, Policy, Declared, Source) /\ InSync /\ InputsUnchanged
            THEN [job EXCEPT !.at = "copied", !.staged = output]
            ELSE [job EXCEPT !.at = "failed"]
  /\ UNCHANGED <<syncVars, mergeVars, format, attempt, uploads, shipped>>

\* verify_artifact: the version the package carries is the plan's.
ArtifactVerified(package) ==
  /\ package.kind = format
  /\ IF format = "plain" THEN package.label = Wanted
     ELSE ArtifactAccepted(package.archive, Wanted)

InspectStaged ==
  /\ job.at = "copied"
  /\ JobAt(IF ArtifactVerified(job.staged[1]) THEN "inspected" ELSE "failed")
  /\ UNCHANGED <<syncVars, mergeVars, format, attempt, uploads, shipped>>

\* create_receipt: evidence of the sync, inventory of the package, who built it.
WriteReceipt ==
  /\ job.at = "inspected"
  /\ job' = IF evidence[1].plan = plan /\ InputsUnchanged
            THEN [job EXCEPT !.at = "received",
                    !.receipt = <<[plan |-> plan, after |-> evidence[1].after,
                                   package |-> job.staged[1], producer |-> attempt]>>]
            ELSE [job EXCEPT !.at = "failed"]
  /\ UNCHANGED <<syncVars, mergeVars, format, attempt, uploads, shipped>>

\* `untouched` is history: no edit slipped in or was undone where no check could tell.
Upload ==
  /\ job.at = "received"
  /\ uploads' = uploads \cup {[package |-> job.staged[1], receipt |-> job.receipt[1],
                               untouched |-> ~sync.slipped /\ ~sync.undone]}
  /\ JobAt("uploaded")
  /\ UNCHANGED <<syncVars, mergeVars, format, attempt, shipped>>

-----------------------------------------------------------------------------
(* Publishing: what release_versioned.py accepts *)

\* A plausible slip: a receipt of the run is good for every attempt of it.
MutProducedHere(receipt) == TRUE
ProducedHere(receipt) == receipt.producer = attempt

ReceiptAccepted(receipt, package) ==
  /\ receipt.plan = plan /\ ProducedHere(receipt)
  /\ receipt.package = package

\* The directory holds some package, of any upload or foreign, and some receipt.
Foreign == [kind |-> "plain", label |-> Wanted, tree |-> [files |-> Committed, made |-> 0]]

Publish ==
  /\ job.at = "uploaded"
  /\ \E u \in uploads : \E package \in {v.package : v \in uploads} \cup {Foreign} :
       /\ shipped' = IF ReceiptAccepted(u.receipt, package) /\ ArtifactVerified(package)
                     THEN shipped \cup {[package |-> package, attempt |-> attempt,
                                         untouched |-> u.untouched]}
                     ELSE shipped
  /\ JobAt("published")
  /\ UNCHANGED <<syncVars, mergeVars, format, attempt, uploads>>

-----------------------------------------------------------------------------
(* Others, and repeated attempts *)

BuildVars == <<format, attempt, job, uploads, shipped>>

Others ==
  \/ /\ KillSync \/ \E path \in Paths : OthersEdit(path) \/ PutBack(path)
     /\ UNCHANGED <<mergeVars, BuildVars>>
  \/ /\ faults < MaxFaults /\ faults' = faults + 1
     /\ TakeOutput(Foreign) \/ \E p \in Native : WriteOver(p)
     /\ UNCHANGED <<plan, files, sync, evidence, BuildVars>>

\* The run has come to an end in some way.
Ended ==
  \/ sync.at \in {"refused", "killed"} \/ merge.at = "refused"
  \/ job.at \in {"failed", "published"}

RerunAll ==
  /\ Ended /\ attempt < MaxAttempts /\ attempt' = attempt + 1
  /\ files' = Committed /\ sync' = Fresh /\ evidence' = <<>>
  /\ exports' = NoExports /\ merge' = Unmerged /\ output' = <<>>
  /\ job' = NewJob
  /\ UNCHANGED <<plan, faults, format, uploads, shipped>>

RerunPublisher ==
  /\ job.at = "published" /\ attempt < MaxAttempts /\ attempt' = attempt + 1
  /\ JobAt("uploaded")
  /\ UNCHANGED <<syncVars, mergeVars, format, uploads, shipped>>

-----------------------------------------------------------------------------
Init ==
  /\ SyncInit
  /\ exports = NoExports /\ merge = Unmerged /\ output = <<>>
  /\ format \in Formats
  /\ attempt = 1 /\ job = NewJob /\ uploads = {} /\ shipped = {}

Sync == SyncStep /\ UNCHANGED <<mergeVars, BuildVars>>

Next ==
  \/ Sync \/ CheckRelease \/ BuildPackage \/ (\E p \in Native : BuildExport(p)) \/ Merge
  \/ StageInputs \/ InspectStaged \/ WriteReceipt \/ Upload \/ Publish
  \/ Others \/ RerunAll \/ RerunPublisher

\* A sync that is under way goes on, and one that was killed is started again.
Spec == Init /\ [][Next]_vars /\ WF_vars(Sync)

-----------------------------------------------------------------------------
(* Properties *)

TreesOf(package) ==
  IF package.kind = "plain" THEN {package.tree}
  ELSE LayerTrees(package.archive)

\* What is accepted for publication was built from the commit and the plan, and from
\* nothing else: in every package the version files are the committed ones with the
\* planned fields, whatever was edited, killed or mixed up on the way.  Excepted are the
\* two edits no check can see: one between the look at the checkout and the reading of
\* the files, and one that is undone before the package is staged.
ShippedFromCommit ==
  \A s \in shipped : \A tree \in TreesOf(s.package) :
    s.untouched => tree.files = [path \in Paths |-> Edited(path, Committed[path])]

\* What an attempt publishes was built in that attempt: bytes of an earlier attempt of
\* the run, whose gate is not this one's, are refused though plan and version agree.
ShippedFromThisAttempt ==
  \A s \in shipped : \A tree \in TreesOf(s.package) : tree.made = s.attempt

\* What only the verification asks of a merged archive: that it is within the limits as
\* a whole, though its inputs were within them one by one; that a parser of its own can
\* read every document; and that no attestation types its subject.
OnlyVerified(a) ==
  /\ Len(Walked(a)) <= MaxVisited /\ WithinBudget(a, Metadata(a))
  /\ \A d \in ToSet(Walked(a)) :
       /\ Legible(d.doc)
       /\ Attests(d) /\ d.doc.form = "artifact" => ~d.doc.typed

\* How far two readers agree: of what the merge accepts and links, the verification by
\* which builds and publisher judge a package (version_plan.py) refuses exactly what
\* OnlyVerified names, and nothing for any other reason.
MergedVerifies ==
  merge.at = "linked" =>
    (ArtifactAccepted(output[1].archive, Wanted) <=> OnlyVerified(output[1].archive))
=============================================================================
