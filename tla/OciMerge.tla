-------------------------------- MODULE OciMerge --------------------------------
(***************************************************************************)
(* merge_oci_archives.py: native exports become one archive.               *)
(*                                                                         *)
(* Each input is opened, hashed, checked and walked; then all are read     *)
(* again, blob by blob, into a hidden file, which is linked to the output  *)
(* name if that name is still free.  The inputs are not locked: whoever    *)
(* writes into one of them changes its stamp (size and times), which the   *)
(* command compares after the walk and again after the last byte.          *)
(***************************************************************************)
EXTENDS OciArchives

CONSTANTS Platforms,  \* sequence of platforms, in the order they are opened
          Revision    \* commit named in the images' labels

Native == ToSet(Platforms)

ASSUME MergeAssumption == Platforms \in Seq(Native) /\ Platforms # <<>>

VARIABLES exports, \* platform -> [archive, stamp] on disk, or none
          merge,   \* what the command is at
          output   \* <<the package at the output name>>, or <<>>

mergeVars == <<exports, merge, output>>

NoExports == [p \in Native |-> [archive |-> <<>>, stamp |-> 0]]
Unmerged == [at |-> "idle", stamps |-> [p \in Native |-> 0], parts |-> <<>>, copies |-> <<>>]

\* The platform to be opened or copied next, and how far the command is.
NextPart == Platforms[Len(merge.parts) + 1]
NextCopy == Platforms[Len(merge.copies) + 1]
AllRead == Len(merge.parts) = Len(Platforms)
AllCopied == Len(merge.copies) = Len(Platforms)

MergeStops == merge' = [Unmerged EXCEPT !.at = "refused"] /\ UNCHANGED <<exports, output>>

\* A plausible slip: the inputs are trusted once they have been walked.
MutUnchanged(p) == exports[p].stamp = merge.stamps[p] \/ AllCopied
Unchanged(p) == exports[p].stamp = merge.stamps[p]

StartMerge ==
  /\ merge.at = "idle" /\ \A p \in Native : exports[p].archive # <<>>
  /\ IF output = <<>>
     THEN merge' = [Unmerged EXCEPT !.at = "opening"] /\ UNCHANGED <<exports, output>>
     ELSE MergeStops

\* Archive.__init__: open and hash, ...
OpenInput ==
  /\ merge.at = "opening" /\ ~AllRead
  /\ merge' = [merge EXCEPT !.at = "walking", !.stamps[NextPart] = exports[NextPart].stamp]
  /\ UNCHANGED <<exports, output>>

\* ... check every member, walk the graph, and see that nothing moved meanwhile.
WalkInput(label) ==
  /\ merge.at = "walking"
  /\ LET archive == exports[NextPart].archive[1]
     IN IF Unchanged(NextPart) /\ InputAccepted(archive, NextPart, label, Revision)
        THEN /\ merge' = [merge EXCEPT !.at = "opening", !.parts = Append(@, archive)]
             /\ UNCHANGED <<exports, output>>
        ELSE MergeStops

\* An archive of which others have written over some blobs.
Damaged(a, lost) == [root |-> a.root, blobs |-> a.blobs, damaged |-> lost]

\* The blobs are read again where the walk found them; of an input written over since,
\* they may be anything.
CopyBlobs ==
  /\ merge.at = "opening" /\ AllRead /\ ~AllCopied
  /\ LET part == merge.parts[Len(merge.copies) + 1]
     IN \E lost \in IF exports[NextCopy].stamp = merge.stamps[NextCopy]
                    THEN {{}} ELSE {{}, part.blobs} :
          merge' = [merge EXCEPT !.copies = Append(@, Damaged(part, lost))]
  /\ UNCHANGED <<exports, output>>

\* After the last byte every input must still be what it was when opened.
SealMerge ==
  /\ merge.at = "opening" /\ AllRead /\ AllCopied
  /\ IF \A p \in Native : Unchanged(p)
     THEN merge' = [merge EXCEPT !.at = "sealed"] /\ UNCHANGED <<exports, output>>
     ELSE MergeStops

\* os.link takes the name only if nobody else has.
LinkOutput ==
  /\ merge.at = "sealed"
  /\ IF output = <<>>
     THEN /\ output' = <<[kind |-> "oci", archive |-> Merged(merge.copies)]>>
          /\ merge' = [merge EXCEPT !.at = "linked"]
          /\ UNCHANGED exports
     ELSE MergeStops

MergeStep(label) ==
  StartMerge \/ OpenInput \/ WalkInput(label) \/ CopyBlobs \/ SealMerge \/ LinkOutput

\* Others write into an input that is being merged, or take the output name.
WriteOver(p) ==
  /\ merge.at \in {"opening", "walking", "sealed"}
  /\ LET archive == exports[p].archive[1]
     IN exports' = [exports EXCEPT ![p] = [archive |-> <<Damaged(archive, archive.blobs)>>,
                                           stamp |-> @.stamp + 1]]
  /\ UNCHANGED <<merge, output>>

TakeOutput(package) ==
  /\ merge.at \in {"opening", "walking", "sealed"} /\ output = <<>>
  /\ output' = <<package>>
  /\ UNCHANGED <<exports, merge>>

-----------------------------------------------------------------------------
(* Properties *)

\* An archive that was linked is whole (534-640): whoever wrote into an input while it
\* was read, every blob arrived as it was checked, and the index names exactly the
\* images and attestations of the inputs that were accepted.
MergedWhole ==
  merge.at = "linked" =>
    /\ output[1].archive.damaged = {}
    /\ ToSet(Leaves(output[1].archive))
         = UNION {ToSet(Leaves(merge.parts[i])) : i \in DOMAIN merge.parts}
=============================================================================
