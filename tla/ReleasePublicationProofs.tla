----------------------- MODULE ReleasePublicationProofs ------------------------
(***************************************************************************)
(* Proofs about ReleasePublication, for any staged files, any number of     *)
(* releases, interferences and attempts, and any token.                    *)
(***************************************************************************)
EXTENDS ReleasePublication, TLAPS

USE PublicationAssumption

-----------------------------------------------------------------------------
(* The invariant *)

\* Where the job is: before anything is consumed; before its create request is sent;
\* looking what a request without a reply has done; with a draft it takes for its own.
Opening == {"precheck", "superseded", "preworkflows", "consume"}
Tagging == {"absent", "workflows", "tag", "create"}
Reconciling == {"confirm", "first", "second"}
Filling == {"reread", "again", "final", "upload", "verify", "tagcheck", "source", "publish"}
Places == {"new", "done", "failed"} \cup Opening \cup Tagging \cup Reconciling \cup Filling
Unsent == {"new"} \cup Opening \cup Tagging

Releases == [by : -1 .. MaxAttempts, public : BOOLEAN,
             assets : SUBSET ((Assets \cup {Extra}) \X Contents)]
Jobs == [at : Places, kind : Kinds \cup {"none"}, attempt : 1 .. MaxAttempts,
         running : BOOLEAN, captured : Commits \cup {"none"}, id : 0 .. MaxReleases,
         listed : SUBSET (Ids \X Releases), left : SUBSET Assets]

PublicationTypeOK ==
  /\ head \in Commits /\ tag \in Commits \cup {"none"}
  /\ release \in [Ids -> Releases]
  /\ late \in SUBSET (1 .. MaxAttempts)
  /\ consumed \in BOOLEAN
  /\ job \in Jobs
  /\ outside \in 0 .. MaxOutside
  /\ unseen \in SUBSET {"head", "tag", "assets"}

\* One request per attempt: it is still to be sent, on its way, or has left its release.
RequestsCounted ==
  /\ \A a \in late : a <= job.attempt /\ \A i \in Ids : release[i].by # a
  /\ \A i \in Ids : release[i].by <= job.attempt
  /\ job.at \in Unsent => job.attempt \notin late /\ \A i \in Ids : release[i].by # job.attempt

OwnDraft == job.at \in Filling => job.id \in Ids /\ release[job.id].by = job.attempt

\* What each check found still holds, unless others changed just that since.
SeenWhole ==
  job.at \in {"tagcheck", "source", "publish"} /\ "assets" \notin unseen =>
    release[job.id].assets = Whole
SeenTag == job.at \in {"source", "publish"} /\ "tag" \notin unseen => tag = Source
SeenHead ==
  job.kind = "automatic" =>
    /\ job.at \in Tagging \cup Reconciling \cup Filling => job.captured = Source
    /\ job.at = "publish" /\ "head" \notin unseen => head = Source

PublicationInv ==
  /\ PublicationTypeOK
  /\ OneReleasePerAttempt
  /\ RequestsCounted
  /\ OwnDraft
  /\ SeenWhole
  /\ SeenTag
  /\ SeenHead

LEMMA InitHolds == Init => PublicationInv
<1> SUFFICES ASSUME Init PROVE PublicationInv
  OBVIOUS
<1> USE DEF Init
<1>0. job.at = "new" /\ job.kind = "none" /\ job.attempt = 1 /\ job.id = 0
  BY DEF NewJob
<1>1. NoRelease \in Releases
  BY DEF NoRelease, Releases
<1>2. NewJob \in Jobs
  BY DEF NewJob, Jobs, Places
<1>3. PublicationTypeOK
  <2>1. 0 \in 0 .. MaxOutside
    OBVIOUS
  <2>2. release \in [Ids -> Releases] /\ job \in Jobs
    BY <1>1, <1>2
  <2>3. head \in Commits /\ tag \in Commits \cup {"none"}
    BY DEF Commits
  <2>4. late \in SUBSET (1 .. MaxAttempts) /\ consumed \in BOOLEAN /\ outside \in 0 .. MaxOutside
    BY <2>1
  <2>5. unseen \in SUBSET {"head", "tag", "assets"}
    OBVIOUS
  <2>6. QED
    BY <2>2, <2>3, <2>4, <2>5 DEF PublicationTypeOK
<1>4. \A i \in Ids : release[i].by = -1
  BY DEF NoRelease
<1>5. OneReleasePerAttempt /\ RequestsCounted
  BY <1>0, <1>4 DEF OneReleasePerAttempt, RequestsCounted, Others
<1>6. OwnDraft /\ SeenWhole /\ SeenTag /\ SeenHead
  BY <1>0 DEF OwnDraft, SeenWhole, SeenTag, SeenHead, Filling, Tagging, Reconciling
<1>7. QED
  BY <1>3, <1>5, <1>6 DEF PublicationInv

-----------------------------------------------------------------------------
(* Steps that change nothing under the tag *)

\* A job that only reads keeps the invariant if it sends its request only once, goes on
\* with its own draft alone, and goes past a check only with what it checks.
LEMMA ReadingKeeps ==
  ASSUME PublicationInv, UNCHANGED <<head, tag, release, late, outside>>,
         consumed' \in BOOLEAN, unseen' \in SUBSET unseen,
         job' \in Jobs, job'.attempt = job.attempt,
         job'.at \in Unsent => job.at \in Unsent,
         OwnDraft', SeenWhole', SeenTag', SeenHead'
  PROVE  PublicationInv'
<1>1. PublicationTypeOK'
  BY DEF PublicationInv, PublicationTypeOK
<1>2. OneReleasePerAttempt'
  BY DEF PublicationInv, OneReleasePerAttempt
<1>3. RequestsCounted'
  BY DEF PublicationInv, RequestsCounted
<1>4. QED
  BY <1>1, <1>2, <1>3 DEF PublicationInv

\* A job's place is all that changes, to one that has nothing to rest on yet.
LEMMA GoingKeeps ==
  ASSUME PublicationInv, UNCHANGED Server, UNCHANGED outside, UNCHANGED unseen,
         NEW place \in Places, Go(place),
         place \in Unsent => job.at \in Unsent,
         place \in Filling => job.at \in Filling,
         place \notin {"tagcheck", "source", "publish"},
         place \in Tagging \cup Reconciling \cup Filling =>
           job.at \in Tagging \cup Reconciling \cup Filling
  PROVE  PublicationInv'
<1>0. job \in Jobs
  BY DEF PublicationInv, PublicationTypeOK
<1>1. /\ job' \in Jobs /\ job'.at = place
      /\ job'.attempt = job.attempt /\ job'.id = job.id /\ job'.kind = job.kind
      /\ job'.captured = job.captured
  BY <1>0 DEF Go, Jobs
<1>2. OwnDraft'
  BY <1>1 DEF PublicationInv, OwnDraft, Server
<1>3. SeenWhole' /\ SeenTag'
  BY <1>1 DEF SeenWhole, SeenTag
<1>4. SeenHead'
  BY <1>1 DEF SeenHead, PublicationInv
<1>5. consumed' \in BOOLEAN
  BY DEF PublicationInv, PublicationTypeOK, Server
<1>6. QED
  BY <1>1, <1>2, <1>3, <1>4, <1>5, ReadingKeeps DEF Server

LEMMA StartKeeps ==
  ASSUME PublicationInv, NEW kind \in Kinds, Start(kind)
  PROVE  PublicationInv'
<1>0. job \in Jobs /\ job.at = "new" /\ consumed' \in BOOLEAN
  BY DEF PublicationInv, PublicationTypeOK, Start, At, Server
<1>1. /\ job' \in Jobs /\ job'.at = "precheck" /\ job'.attempt = job.attempt
  BY <1>0 DEF Start, Jobs, Places, Opening
<1>2. OwnDraft' /\ SeenWhole' /\ SeenTag' /\ SeenHead'
  BY <1>1 DEF OwnDraft, SeenWhole, SeenTag, SeenHead, Filling, Tagging, Reconciling
<1>3. QED
  BY <1>0, <1>1, <1>2, ReadingKeeps DEF Start, Server, Unsent

LEMMA EnsureAbsentKeeps ==
  ASSUME PublicationInv, EnsureAbsent
  PROVE  PublicationInv'
<1>1. PICK place \in {"workflows", "superseded", "failed"} :
        Go(place) /\ (place = "workflows" => At("absent"))
  BY DEF EnsureAbsent, GoIf
<1>2. QED
  BY <1>1, GoingKeeps
     DEF EnsureAbsent, At, Places, Unsent, Opening, Tagging, Reconciling, Filling

LEMMA CheckSupersededKeeps ==
  ASSUME PublicationInv, CheckSuperseded
  PROVE  PublicationInv'
<1>1. PICK place \in {"done", "failed", "preworkflows"} : Go(place)
  BY DEF CheckSuperseded
<1>2. QED
  BY <1>1, GoingKeeps
     DEF CheckSuperseded, At, Places, Unsent, Opening, Tagging, Reconciling, Filling

LEMMA CheckWorkflowsKeeps ==
  ASSUME PublicationInv, CheckWorkflows
  PROVE  PublicationInv'
<1>1. PICK place \in {"tag", "consume", "failed"} :
        Go(place) /\ (place = "tag" => At("workflows"))
  BY DEF CheckWorkflows, GoIf
<1>2. QED
  BY <1>1, GoingKeeps
     DEF CheckWorkflows, At, Places, Unsent, Opening, Tagging, Reconciling, Filling

LEMMA ConfirmKeeps ==
  ASSUME PublicationInv, Confirm
  PROVE  PublicationInv'
<1>1. PICK place \in {"first", "final", "failed"} :
        Go(place) /\ (place = "final" => At("again"))
  BY DEF Confirm, GoIf
<1>2. QED
  BY <1>1, GoingKeeps
     DEF Confirm, At, Places, Unsent, Opening, Tagging, Reconciling, Filling

LEMMA RereadKeeps ==
  ASSUME PublicationInv, Reread
  PROVE  PublicationInv'
<1>1. PICK place \in {"again", "failed"} : Go(place)
  BY DEF Reread, GoIf
<1>2. QED
  BY <1>1, GoingKeeps
     DEF Reread, At, Places, Unsent, Opening, Tagging, Reconciling, Filling

LEMMA UploadsDoneKeeps ==
  ASSUME PublicationInv, UploadsDone
  PROVE  PublicationInv'
  BY GoingKeeps DEF UploadsDone, At, Places, Unsent, Opening, Tagging, Reconciling, Filling
\* The number is consumed for what the captured head allows.
LEMMA ConsumeKeeps ==
  ASSUME PublicationInv, Consume
  PROVE  PublicationInv'
<1>0. job \in Jobs /\ job.at = "consume" /\ head \in Commits /\ consumed' \in BOOLEAN
  BY DEF PublicationInv, PublicationTypeOK, Consume, At
<1>1. CASE job' = [job EXCEPT !.at = "failed"]
  <2>1. job' \in Jobs /\ job'.at = "failed" /\ job'.attempt = job.attempt
    BY <1>0, <1>1 DEF Jobs, Places
  <2>2. OwnDraft' /\ SeenWhole' /\ SeenTag' /\ SeenHead'
    BY <2>1 DEF OwnDraft, SeenWhole, SeenTag, SeenHead, Filling, Tagging, Reconciling
  <2>3. QED
    BY <1>0, <2>1, <2>2, ReadingKeeps DEF Consume, Unsent, Opening, Tagging
<1>2. CASE /\ job' = [job EXCEPT !.at = "absent", !.captured = head]
           /\ job.kind = "automatic" => head = Source
  <2>1. /\ job' \in Jobs /\ job'.at = "absent" /\ job'.attempt = job.attempt
        /\ job'.kind = job.kind /\ job'.captured = head
    BY <1>0, <1>2 DEF Jobs, Places, Tagging
  <2>2. OwnDraft' /\ SeenWhole' /\ SeenTag'
    BY <2>1 DEF OwnDraft, SeenWhole, SeenTag, Filling
  <2>3. SeenHead'
    BY <2>1, <1>2 DEF SeenHead
  <2>4. QED
    BY <1>0, <2>1, <2>2, <2>3, ReadingKeeps DEF Consume, Unsent, Opening, Tagging
<1>3. QED
  BY <1>1, <1>2 DEF Consume

LEMMA FirstInventoryKeeps ==
  ASSUME PublicationInv, FirstInventory
  PROVE  PublicationInv'
<1>0. job \in Jobs /\ job.at = "first" /\ release \in [Ids -> Releases] /\ consumed' \in BOOLEAN
  BY DEF PublicationInv, PublicationTypeOK, FirstInventory, At, Server
<1>1. Inventory \in SUBSET (Ids \X Releases)
  BY <1>0 DEF Inventory
<1>2. /\ job' \in Jobs /\ job'.at = "second" /\ job'.attempt = job.attempt
      /\ job'.kind = job.kind /\ job'.captured = job.captured
  BY <1>0, <1>1 DEF FirstInventory, Jobs, Places, Reconciling
<1>3. OwnDraft' /\ SeenWhole' /\ SeenTag'
  BY <1>2 DEF OwnDraft, SeenWhole, SeenTag, Filling
<1>4. SeenHead'
  BY <1>0, <1>2 DEF SeenHead, PublicationInv, Reconciling
<1>5. QED
  BY <1>0, <1>2, <1>3, <1>4, ReadingKeeps DEF FirstInventory, Server, Unsent, Opening, Tagging

\* The one release both inventories list was made by this attempt's request.
LEMMA SecondInventoryKeeps ==
  ASSUME PublicationInv, SecondInventory
  PROVE  PublicationInv'
<1>0. job \in Jobs /\ job.at = "second" /\ release \in [Ids -> Releases] /\ consumed' \in BOOLEAN
  BY DEF PublicationInv, PublicationTypeOK, SecondInventory, At, Server
<1>1. CASE job' = [job EXCEPT !.at = "failed", !.listed = {}]
  <2>1. job' \in Jobs /\ job'.at = "failed" /\ job'.attempt = job.attempt
    BY <1>0, <1>1 DEF Jobs, Places
  <2>2. OwnDraft' /\ SeenWhole' /\ SeenTag' /\ SeenHead'
    BY <2>1 DEF OwnDraft, SeenWhole, SeenTag, SeenHead, Filling, Tagging, Reconciling
  <2>3. QED
    BY <1>0, <2>1, <2>2, ReadingKeeps DEF SecondInventory, Server, Unsent, Opening, Tagging
<1>2. ASSUME NEW i \in Ids,
             {entry[1] : entry \in Inventory} = {i},
             \A entry \in job.listed \cup Inventory : Exactly(entry[2], job.attempt),
             job' = [job EXCEPT !.at = "reread", !.id = i, !.listed = {}]
      PROVE  PublicationInv'
  <2>0. i \in 0 .. MaxReleases /\ "reread" \in Places /\ {} \in SUBSET (Ids \X Releases)
    BY DEF Ids, Places, Filling
  <2>1. /\ job' \in Jobs /\ job'.at = "reread" /\ job'.attempt = job.attempt
        /\ job'.kind = job.kind /\ job'.captured = job.captured /\ job'.id = i
    BY <1>0, <1>2, <2>0 DEF Jobs
  <2>2. PICK entry \in Inventory : entry[1] = i
    BY <1>2
  <2>3. entry = <<i, release[i]>>
    BY <2>2 DEF Inventory
  <2>4. release[i].by = job.attempt
    BY <1>2, <2>2, <2>3 DEF Exactly
  <2>5. OwnDraft'
    BY <1>0, <2>1, <2>4 DEF OwnDraft, SecondInventory, Server
  <2>6. SeenWhole' /\ SeenTag'
    BY <2>1 DEF SeenWhole, SeenTag
  <2>7. SeenHead'
    BY <1>0, <2>1 DEF SeenHead, PublicationInv, Reconciling
  <2>8. QED
    BY <1>0, <2>1, <2>5, <2>6, <2>7, ReadingKeeps
       DEF SecondInventory, Server, Unsent, Opening, Tagging
<1>3. QED
  BY <1>1, <1>2 DEF SecondInventory

LEMMA FinalReadKeeps ==
  ASSUME PublicationInv, FinalRead
  PROVE  PublicationInv'
<1>0. /\ job \in Jobs /\ job.at = "final" /\ job.id \in Ids /\ release[job.id].by = job.attempt
      /\ consumed' \in BOOLEAN
  BY DEF PublicationInv, PublicationTypeOK, FinalRead, At, Server, OwnDraft, Filling
<1>1. PICK place \in {"upload", "failed"} :
        /\ job'.at = place /\ job' \in Jobs /\ job'.attempt = job.attempt
        /\ job'.id = job.id /\ job'.kind = job.kind /\ job'.captured = job.captured
  BY <1>0 DEF FinalRead, Holding, Jobs, Places, Filling
<1>2. OwnDraft'
  BY <1>0, <1>1 DEF OwnDraft, FinalRead, Server
<1>3. SeenWhole' /\ SeenTag'
  BY <1>1 DEF SeenWhole, SeenTag
<1>4. SeenHead'
  BY <1>0, <1>1 DEF SeenHead, PublicationInv, Filling, Tagging, Reconciling
<1>5. QED
  BY <1>0, <1>1, <1>2, <1>3, <1>4, ReadingKeeps DEF FinalRead, Server, Unsent, Opening, Tagging

\* What a check of the draft, the tag or the branch found is what the job goes on with.
LEMMA CheckingKeeps ==
  ASSUME PublicationInv, UNCHANGED Server, UNCHANGED outside, unseen' \in SUBSET unseen,
         job.at \in {"verify", "tagcheck", "source"},
         NEW place \in {"tagcheck", "source", "publish", "failed"}, Go(place),
         place \in {"tagcheck", "source", "publish"} => (SeenWhole' /\ SeenTag'),
         place = "publish" /\ job.kind = "automatic" => head = Source
  PROVE  PublicationInv'
<1>0. /\ job \in Jobs /\ job.id \in Ids /\ release[job.id].by = job.attempt
      /\ consumed' \in BOOLEAN
  BY DEF PublicationInv, PublicationTypeOK, Server, OwnDraft, Filling
<1>1. /\ job' \in Jobs /\ job'.at = place /\ job'.attempt = job.attempt
      /\ job'.id = job.id /\ job'.kind = job.kind /\ job'.captured = job.captured
  BY <1>0 DEF Go, Jobs, Places, Filling
<1>2. OwnDraft'
  BY <1>0, <1>1 DEF OwnDraft, Server
<1>3. SeenWhole' /\ SeenTag'
  BY <1>1 DEF SeenWhole, SeenTag
<1>4. SeenHead'
  BY <1>0, <1>1 DEF SeenHead, PublicationInv, Filling, Tagging, Reconciling, Server
<1>5. QED
  BY <1>0, <1>1, <1>2, <1>3, <1>4, ReadingKeeps DEF Server, Unsent, Opening, Tagging

LEMMA VerifyAssetsKeeps ==
  ASSUME PublicationInv, VerifyAssets
  PROVE  PublicationInv'
<1>1. PICK place \in {"tagcheck", "failed"} :
        Go(place) /\ (place = "tagcheck" => release[job.id].assets = Whole)
  BY DEF VerifyAssets, GoIf, Complete
<1>2. job \in Jobs /\ job'.at = place /\ job'.id = job.id
  BY <1>1 DEF PublicationInv, PublicationTypeOK, Go, Jobs
<1>3. SeenWhole' /\ SeenTag'
  BY <1>1, <1>2 DEF SeenWhole, SeenTag, VerifyAssets, Server
<1>4. QED
  BY <1>1, <1>3, CheckingKeeps DEF VerifyAssets, At

LEMMA CheckTagKeeps ==
  ASSUME PublicationInv, CheckTag
  PROVE  PublicationInv'
<1>1. PICK place \in {"source", "failed"} : Go(place) /\ (place = "source" => tag = Source)
  BY DEF CheckTag, GoIf, TagHolds
<1>2. job \in Jobs /\ job'.at = place /\ job'.id = job.id
  BY <1>1 DEF PublicationInv, PublicationTypeOK, Go, Jobs
<1>3. SeenWhole' /\ SeenTag'
  BY <1>1, <1>2 DEF PublicationInv, SeenWhole, SeenTag, CheckTag, Server, At
<1>4. QED
  BY <1>1, <1>3, CheckingKeeps DEF CheckTag, At

LEMMA ConfirmSourceKeeps ==
  ASSUME PublicationInv, ConfirmSource
  PROVE  PublicationInv'
<1>1. PICK place \in {"publish", "failed"} : Go(place) /\ (place = "publish" => StillCurrent(job))
  BY DEF ConfirmSource, GoIf
<1>2. job \in Jobs /\ job'.at = place /\ job'.id = job.id
  BY <1>1 DEF PublicationInv, PublicationTypeOK, Go, Jobs
<1>3. SeenWhole' /\ SeenTag'
  BY <1>1, <1>2 DEF PublicationInv, SeenWhole, SeenTag, ConfirmSource, Server, At
<1>4. place = "publish" /\ job.kind = "automatic" => head = Source
  BY <1>1 DEF PublicationInv, SeenHead, StillCurrent, ConfirmSource, At, Filling
<1>5. QED
  BY <1>1, <1>3, <1>4, CheckingKeeps DEF ConfirmSource, At

\* From a failure or a cancellation the job has nothing to rest on.
LEMMA FailKeeps ==
  ASSUME PublicationInv, Fail
  PROVE  PublicationInv'
<1>0. job \in Jobs /\ consumed' \in BOOLEAN
  BY DEF PublicationInv, PublicationTypeOK, Fail, Server
<1>1. job' \in Jobs /\ job'.at = "failed" /\ job'.attempt = job.attempt
  BY <1>0 DEF Fail, Jobs, Places
<1>2. OwnDraft' /\ SeenWhole' /\ SeenTag' /\ SeenHead'
  BY <1>1 DEF OwnDraft, SeenWhole, SeenTag, SeenHead, Filling, Tagging, Reconciling
<1>3. QED
  BY <1>0, <1>1, <1>2, ReadingKeeps DEF Fail, Server, Unsent, Opening, Tagging
-----------------------------------------------------------------------------
(* Steps of the job that write *)

LEMMA CreateTagKeeps ==
  ASSUME PublicationInv, CreateTag
  PROVE  PublicationInv'
<1>0. /\ job \in Jobs /\ job.at = "tag" /\ tag' \in Commits \cup {"none"}
      /\ UNCHANGED <<head, release, late, consumed, outside, unseen>>
  BY DEF PublicationInv, PublicationTypeOK, CreateTag, At, Commits, Source
<1>1. PICK place \in {"create", "failed"} : Go(place)
  BY DEF CreateTag, GoIf
<1>2. /\ job' \in Jobs /\ job'.at = place /\ job'.attempt = job.attempt
      /\ job'.kind = job.kind /\ job'.captured = job.captured
  BY <1>0, <1>1 DEF Go, Jobs, Places, Tagging
<1>3. PublicationTypeOK'
  BY <1>0, <1>2 DEF PublicationInv, PublicationTypeOK
<1>4. OneReleasePerAttempt' /\ RequestsCounted'
  BY <1>0, <1>2 DEF PublicationInv, OneReleasePerAttempt, RequestsCounted, Unsent, Tagging
<1>5. OwnDraft' /\ SeenWhole' /\ SeenTag'
  BY <1>2 DEF OwnDraft, SeenWhole, SeenTag, Filling
<1>6. SeenHead'
  BY <1>0, <1>2 DEF PublicationInv, SeenHead, Tagging
<1>7. QED
  BY <1>3, <1>4, <1>5, <1>6 DEF PublicationInv

\* A new release has the lowest free number, and nothing else changes.
LEMMA PutAdds ==
  ASSUME PublicationTypeOK, NEW maker \in 0 .. MaxAttempts, Put(maker)
  PROVE  \E i \in Ids :
           /\ release[i].by = -1 /\ release' \in [Ids -> Releases]
           /\ release'[i] = Empty(maker)
           /\ \A j \in Ids \ {i} : release'[j] = release[j]
<1>1. Empty(maker) \in Releases
  BY DEF Empty, Releases
<1>2. PICK i \in Free : release' = [release EXCEPT ![i] = Empty(maker)]
  BY DEF Put
<1>3. i \in Ids /\ release[i].by = -1
  BY <1>2 DEF Free, Exists
<1>4. QED
  BY <1>1, <1>2, <1>3 DEF PublicationTypeOK

\* The request of an attempt that has made no release makes one.
LEMMA OnceMore ==
  ASSUME PublicationInv, NEW a \in 1 .. MaxAttempts, Put(a),
         \A i \in Ids : release[i].by # a
  PROVE  /\ OneReleasePerAttempt'
         /\ \A i \in Ids : release'[i].by \in {release[i].by, a}
         /\ \A i \in Ids : release[i].by # -1 => release'[i] = release[i]
<1>1. PICK i \in Ids : /\ release[i].by = -1 /\ release'[i] = Empty(a)
                       /\ \A j \in Ids \ {i} : release'[j] = release[j]
  BY PutAdds DEF PublicationInv
<1>2. release'[i].by = a
  BY <1>1 DEF Empty
<1>3. OneReleasePerAttempt'
  BY <1>1, <1>2 DEF PublicationInv, OneReleasePerAttempt
<1>4. QED
  BY <1>1, <1>2, <1>3

\* However its reply went, the request of this attempt is on its way or has its release.
LEMMA CreateReleaseKeeps ==
  ASSUME PublicationInv, CreateRelease
  PROVE  PublicationInv'
<1>0. /\ job \in Jobs /\ job.at = "create" /\ job.attempt \in 1 .. MaxAttempts
      /\ UNCHANGED <<head, tag, consumed, outside, unseen>>
      /\ job.attempt \notin late /\ \A i \in Ids : release[i].by # job.attempt
  BY DEF PublicationInv, PublicationTypeOK, CreateRelease, At, RequestsCounted, Unsent, Tagging, Jobs
<1>1. PICK place \in {"confirm", "failed", "upload"} :
        /\ job'.at = place /\ job' \in Jobs /\ job'.attempt = job.attempt
        /\ job'.kind = job.kind /\ job'.captured = job.captured
        /\ place = "upload" => /\ Put(job.attempt) /\ UNCHANGED late /\ job'.id \in Ids
                               /\ release'[job'.id] # release[job'.id]
  <2>1. CASE \E i \in Ids : release'[i] # release[i] /\ job' = Holding(job, i)
    <3>1. PICK i \in Ids : release'[i] # release[i] /\ job' = Holding(job, i)
      BY <2>1
    <3>2. /\ job'.at = "upload" /\ job' \in Jobs /\ job'.attempt = job.attempt
          /\ job'.kind = job.kind /\ job'.captured = job.captured /\ job'.id = i
      <4>1. i \in 0 .. MaxReleases /\ "upload" \in Places
        BY DEF Ids, Places, Filling
      <4>2. QED
        BY <1>0, <3>1, <4>1 DEF Holding, Jobs
    <3>3. Put(job.attempt) /\ UNCHANGED late
      BY <1>0, <3>1, <3>2 DEF CreateRelease, Go, Jobs, AfterLostReply
    <3>4. QED
      BY <3>1, <3>2, <3>3
  <2>2. CASE Go(AfterLostReply(job.kind))
    BY <1>0, <2>2 DEF Go, AfterLostReply, Jobs, Places, Reconciling
  <2>3. QED
    BY <2>1, <2>2 DEF CreateRelease
<1>2. SeenWhole' /\ SeenTag'
  BY <1>1 DEF SeenWhole, SeenTag
<1>3. SeenHead'
  BY <1>0, <1>1 DEF PublicationInv, SeenHead, Tagging
<1>4. CASE Put(job.attempt) /\ UNCHANGED late
  <2>1. PICK i \in Ids : /\ release[i].by = -1 /\ release' \in [Ids -> Releases]
                         /\ release'[i] = Empty(job.attempt)
                         /\ \A j \in Ids \ {i} : release'[j] = release[j]
    BY <1>0, <1>4, PutAdds DEF PublicationInv
  <2>2. /\ OneReleasePerAttempt'
        /\ \A j \in Ids : release'[j].by \in {release[j].by, job.attempt}
    BY <1>0, <1>4, OnceMore
  <2>3. PublicationTypeOK'
    BY <1>0, <1>1, <1>4, <2>1 DEF PublicationInv, PublicationTypeOK
  <2>4. RequestsCounted'
    BY <1>0, <1>1, <1>4, <2>2 DEF PublicationInv, RequestsCounted, Unsent, Opening, Tagging
  <2>5. OwnDraft'
    BY <1>1, <2>1 DEF OwnDraft, Empty, Filling
  <2>6. QED
    BY <1>2, <1>3, <2>2, <2>3, <2>4, <2>5 DEF PublicationInv
<1>5. CASE late' = late \cup {job.attempt} /\ UNCHANGED release /\ job'.at # "upload"
  <2>1. PublicationTypeOK'
    BY <1>0, <1>1, <1>5 DEF PublicationInv, PublicationTypeOK
  <2>2. OneReleasePerAttempt' /\ RequestsCounted'
    BY <1>0, <1>1, <1>5
       DEF PublicationInv, OneReleasePerAttempt, RequestsCounted, Unsent, Opening, Tagging
  <2>3. OwnDraft'
    BY <1>1, <1>5 DEF OwnDraft, Filling
  <2>4. QED
    BY <1>2, <1>3, <2>1, <2>2, <2>3 DEF PublicationInv
<1>6. QED
  <2>1. \/ Put(job.attempt) /\ UNCHANGED late
        \/ late' = late \cup {job.attempt} /\ UNCHANGED release
    BY DEF CreateRelease
  <2>2. job'.at = "upload" => Put(job.attempt) /\ UNCHANGED late
    BY <1>1
  <2>3. QED
    BY <1>4, <1>5, <2>1, <2>2
LEMMA UploadKeeps ==
  ASSUME PublicationInv, NEW a \in Assets, NEW content \in Contents, NEW confirmed \in BOOLEAN,
         Upload(a, content, confirmed)
  PROVE  PublicationInv'
<1>0. /\ job \in Jobs /\ job.at = "upload" /\ job.id \in Ids /\ release[job.id].by = job.attempt
      /\ release \in [Ids -> Releases] /\ UNCHANGED <<head, tag, late, consumed, outside, unseen>>
  BY DEF PublicationInv, PublicationTypeOK, Upload, At, OwnDraft, Filling
<1>1. PICK place \in {"upload", "failed"} :
        /\ job'.at = place /\ job' \in Jobs /\ job'.attempt = job.attempt
        /\ job'.id = job.id /\ job'.kind = job.kind /\ job'.captured = job.captured
  BY <1>0 DEF Upload, Jobs, Places
<1>2. release' \in [Ids -> Releases] /\ \A i \in Ids : release'[i].by = release[i].by
  <2>1. release' = [release EXCEPT ![job.id].assets = @ \cup {<<a, content>>}]
    BY DEF Upload
  <2>2. <<a, content>> \in (Assets \cup {Extra}) \X Contents
    OBVIOUS
  <2>3. [release[job.id] EXCEPT !.assets = @ \cup {<<a, content>>}] \in Releases
    BY <1>0, <2>2 DEF Releases
  <2>4. QED
    BY <1>0, <2>1, <2>3 DEF Releases
<1>3. PublicationTypeOK'
  BY <1>0, <1>1, <1>2 DEF PublicationInv, PublicationTypeOK
<1>4. OneReleasePerAttempt' /\ RequestsCounted'
  BY <1>0, <1>1, <1>2
     DEF PublicationInv, OneReleasePerAttempt, RequestsCounted, Unsent, Opening, Tagging
<1>5. OwnDraft' /\ SeenWhole' /\ SeenTag'
  BY <1>0, <1>1, <1>2 DEF OwnDraft, SeenWhole, SeenTag
<1>6. SeenHead'
  BY <1>0, <1>1 DEF PublicationInv, SeenHead, Filling
<1>7. QED
  BY <1>3, <1>4, <1>5, <1>6 DEF PublicationInv

LEMMA PublishKeeps ==
  ASSUME PublicationInv, NEW told \in BOOLEAN, Publish(told)
  PROVE  PublicationInv'
<1>0. /\ job \in Jobs /\ job.at = "publish" /\ job.id \in Ids
      /\ release \in [Ids -> Releases] /\ UNCHANGED <<head, late, consumed, outside, unseen>>
      /\ tag' \in Commits \cup {"none"}
  BY DEF PublicationInv, PublicationTypeOK, Publish, At, OwnDraft, Filling, Commits
<1>1. job'.at \in {"done", "failed"} /\ job' \in Jobs /\ job'.attempt = job.attempt
  BY <1>0 DEF Publish, Go, Jobs, Places
<1>2. release' \in [Ids -> Releases] /\ \A i \in Ids : release'[i].by = release[i].by
  BY <1>0 DEF Publish, Releases
<1>3. PublicationTypeOK'
  BY <1>0, <1>1, <1>2 DEF PublicationInv, PublicationTypeOK
<1>4. OneReleasePerAttempt' /\ RequestsCounted'
  BY <1>0, <1>1, <1>2
     DEF PublicationInv, OneReleasePerAttempt, RequestsCounted, Unsent, Opening, Tagging
<1>5. OwnDraft' /\ SeenWhole' /\ SeenTag' /\ SeenHead'
  BY <1>1 DEF OwnDraft, SeenWhole, SeenTag, SeenHead, Filling, Tagging, Reconciling
<1>6. QED
  BY <1>3, <1>4, <1>5 DEF PublicationInv

-----------------------------------------------------------------------------
(* Steps of others *)

\* What others change while the job is where it is, is noted, or nothing it rests on.
LEMMA OthersKeep ==
  ASSUME PublicationInv, UNCHANGED job, unseen \in SUBSET unseen',
         PublicationTypeOK', OneReleasePerAttempt', RequestsCounted',
         job.at \in Filling =>
           /\ release'[job.id].by = release[job.id].by
           /\ release'[job.id].assets = release[job.id].assets \/ "assets" \in unseen',
         tag' = tag \/ "tag" \in unseen',
         head' = head \/ "head" \in unseen'
  PROVE  PublicationInv'
<1>1. OwnDraft'
  BY DEF PublicationInv, OwnDraft
<1>2. SeenWhole' /\ SeenTag'
  BY DEF PublicationInv, SeenWhole, SeenTag, Filling
<1>3. SeenHead'
  BY DEF PublicationInv, SeenHead
<1>4. QED
  BY <1>1, <1>2, <1>3 DEF PublicationInv

LEMMA OutsideTyped ==
  ASSUME PublicationTypeOK, NEW changed \in SUBSET {"head", "tag", "assets"}, Outside(changed)
  PROVE  outside' \in 0 .. MaxOutside /\ unseen' \in SUBSET {"head", "tag", "assets"}
  BY DEF PublicationTypeOK, Outside

\* A request that takes effect late makes its attempt's one release.
LEMMA CreateArrivesKeeps ==
  ASSUME PublicationInv, NEW a \in late, CreateArrives(a)
  PROVE  PublicationInv'
<1>0. /\ a \in 1 .. MaxAttempts /\ a <= job.attempt /\ job.attempt \in 1 .. MaxAttempts
      /\ UNCHANGED <<head, tag, consumed, job, outside, unseen>> /\ late' = late \ {a} /\ Put(a)
      /\ \A i \in Ids : release[i].by # a
  BY DEF PublicationInv, PublicationTypeOK, Jobs, CreateArrives, RequestsCounted
<1>1. /\ OneReleasePerAttempt'
      /\ \A i \in Ids : release'[i].by \in {release[i].by, a}
      /\ \A i \in Ids : release[i].by # -1 => release'[i] = release[i]
  BY <1>0, OnceMore
<1>2. PublicationTypeOK'
  <2>1. release' \in [Ids -> Releases]
    BY <1>0, PutAdds DEF PublicationInv
  <2>2. QED
    BY <1>0, <2>1 DEF PublicationInv, PublicationTypeOK
<1>3. RequestsCounted'
  BY <1>0, <1>1 DEF PublicationInv, RequestsCounted
<1>4. job.at \in Filling => release'[job.id] = release[job.id]
  BY <1>0, <1>1 DEF PublicationInv, OwnDraft
<1>5. QED
  BY <1>0, <1>1, <1>2, <1>3, <1>4, OthersKeep

LEMMA DraftByHandKeeps ==
  ASSUME PublicationInv, DraftByHand
  PROVE  PublicationInv'
<1>0. /\ job.attempt \in 1 .. MaxAttempts /\ Put(0) /\ Outside({})
      /\ UNCHANGED <<head, tag, late, consumed, job>>
  BY DEF PublicationInv, PublicationTypeOK, Jobs, DraftByHand, Others
<1>1. PICK i \in Ids : /\ release[i].by = -1 /\ release' \in [Ids -> Releases]
                       /\ release'[i] = Empty(0)
                       /\ \A j \in Ids \ {i} : release'[j] = release[j]
  BY <1>0, PutAdds DEF PublicationInv
<1>2. release'[i].by = 0
  BY <1>1 DEF Empty
<1>3. PublicationTypeOK'
  BY <1>0, <1>1, OutsideTyped DEF PublicationInv, PublicationTypeOK
<1>4. OneReleasePerAttempt'
  BY <1>1, <1>2 DEF PublicationInv, OneReleasePerAttempt, Others
<1>5. RequestsCounted'
  <2>1. \A j \in Ids : release'[j].by = release[j].by \/ release'[j].by = 0
    BY <1>1, <1>2
  <2>2. QED
    BY <1>0, <2>1 DEF PublicationInv, PublicationTypeOK, RequestsCounted
<1>6. job.at \in Filling => release'[job.id] = release[job.id]
  BY <1>0, <1>1 DEF PublicationInv, OwnDraft
<1>7. QED
  BY <1>0, <1>3, <1>4, <1>5, <1>6, OthersKeep DEF Outside

LEMMA EditDraftKeeps ==
  ASSUME PublicationInv, NEW i \in Ids,
         NEW assets \in {{}, release[i].assets \cup {<<Extra, "staged">>}}, EditDraft(i, assets)
  PROVE  PublicationInv'
<1>0. /\ release \in [Ids -> Releases] /\ release' = [release EXCEPT ![i].assets = assets]
      /\ UNCHANGED <<head, tag, late, consumed, job>>
      /\ Outside(IF i = job.id THEN {"assets"} ELSE {})
  BY DEF PublicationInv, PublicationTypeOK, EditDraft
<1>1. assets \in SUBSET ((Assets \cup {Extra}) \X Contents)
  BY <1>0 DEF Releases, Contents
<1>2. release' \in [Ids -> Releases] /\ \A j \in Ids : release'[j].by = release[j].by
  BY <1>0, <1>1 DEF Releases
<1>3. \A j \in Ids \ {i} : release'[j] = release[j]
  BY <1>0
<1>4. outside' \in 0 .. MaxOutside /\ unseen' \in SUBSET {"head", "tag", "assets"}
  BY <1>0, OutsideTyped DEF PublicationInv
<1>5. PublicationTypeOK'
  BY <1>0, <1>2, <1>4 DEF PublicationInv, PublicationTypeOK
<1>6. OneReleasePerAttempt' /\ RequestsCounted'
  BY <1>0, <1>2 DEF PublicationInv, OneReleasePerAttempt, RequestsCounted
<1>7. job.at \in Filling =>
        /\ release'[job.id].by = release[job.id].by
        /\ release'[job.id].assets = release[job.id].assets \/ "assets" \in unseen'
  BY <1>0, <1>2, <1>3 DEF PublicationInv, OwnDraft, Outside
<1>8. unseen \in SUBSET unseen'
  BY <1>0 DEF Outside
<1>9. QED
  BY <1>0, <1>5, <1>6, <1>7, <1>8, OthersKeep

LEMMA MovesKeep ==
  ASSUME PublicationInv,
         \/ \E commit \in Commits : MoveHead(commit)
         \/ \E commit \in {"none", "newer"} : MoveTag(commit)
         \/ Cancel
  PROVE  PublicationInv'
<1>1. CASE \E commit \in Commits : MoveHead(commit)
  <2>1. /\ head' \in Commits /\ UNCHANGED <<tag, release, late, consumed, job>> /\ Outside({"head"})
    BY <1>1 DEF MoveHead
  <2>2. PublicationTypeOK'
    BY <2>1, OutsideTyped DEF PublicationInv, PublicationTypeOK
  <2>3. OneReleasePerAttempt' /\ RequestsCounted'
    BY <2>1 DEF PublicationInv, OneReleasePerAttempt, RequestsCounted
  <2>4. QED
    BY <2>1, <2>2, <2>3, OthersKeep DEF Outside
<1>2. CASE \E commit \in {"none", "newer"} : MoveTag(commit)
  <2>1. /\ tag' \in Commits \cup {"none"} /\ Outside({"tag"})
        /\ UNCHANGED <<head, release, late, consumed, job>>
    BY <1>2 DEF MoveTag, Commits
  <2>2. PublicationTypeOK'
    BY <2>1, OutsideTyped DEF PublicationInv, PublicationTypeOK
  <2>3. OneReleasePerAttempt' /\ RequestsCounted'
    BY <2>1 DEF PublicationInv, OneReleasePerAttempt, RequestsCounted
  <2>4. QED
    BY <2>1, <2>2, <2>3, OthersKeep DEF Outside
<1>3. CASE Cancel
  <2>1. /\ job \in Jobs /\ Outside({}) /\ UNCHANGED <<head, tag, release, late, consumed>>
        /\ job' = [job EXCEPT !.running = FALSE] /\ unseen' = unseen
    BY <1>3 DEF PublicationInv, PublicationTypeOK, Cancel, Server, Outside
  <2>2. /\ job' \in Jobs /\ job'.at = job.at /\ job'.attempt = job.attempt /\ job'.id = job.id
        /\ job'.kind = job.kind /\ job'.captured = job.captured
    BY <2>1 DEF Jobs
  <2>3. PublicationTypeOK'
    BY <2>1, <2>2, OutsideTyped DEF PublicationInv, PublicationTypeOK
  <2>4. OneReleasePerAttempt' /\ RequestsCounted'
    BY <2>1, <2>2 DEF PublicationInv, OneReleasePerAttempt, RequestsCounted
  <2>5. OwnDraft' /\ SeenWhole' /\ SeenTag' /\ SeenHead'
    BY <2>1, <2>2 DEF PublicationInv, OwnDraft, SeenWhole, SeenTag, SeenHead
  <2>6. QED
    BY <2>3, <2>4, <2>5 DEF PublicationInv
<1>4. QED
  BY <1>1, <1>2, <1>3

LEMMA CleanUpAndRerunKeeps ==
  ASSUME PublicationInv, CleanUpAndRerun
  PROVE  PublicationInv'
<1>0. /\ job \in Jobs /\ job.attempt \in 1 .. MaxAttempts /\ job.attempt + 1 \in 1 .. MaxAttempts
      /\ UNCHANGED <<head, late, consumed, outside>> /\ tag' = "none" /\ unseen' = {}
      /\ release' = [i \in Ids |-> NoRelease]
  BY DEF PublicationInv, PublicationTypeOK, CleanUpAndRerun, Jobs
<1>1. NewJob \in Jobs
  BY DEF NewJob, Jobs, Places
<1>2. job' \in Jobs /\ job'.at = "precheck" /\ job'.attempt = job.attempt + 1
  BY <1>0, <1>1 DEF CleanUpAndRerun, Jobs, Places, Opening
<1>3. release' \in [Ids -> Releases] /\ \A i \in Ids : release'[i].by = -1
  BY <1>0 DEF NoRelease, Releases
<1>4. PublicationTypeOK'
  BY <1>0, <1>2, <1>3 DEF PublicationInv, PublicationTypeOK
<1>5. OneReleasePerAttempt'
  BY <1>3 DEF OneReleasePerAttempt, Others
<1>6. RequestsCounted'
  <2>1. \A a \in late : a <= job.attempt /\ a \in 1 .. MaxAttempts
    BY DEF PublicationInv, PublicationTypeOK, RequestsCounted
  <2>2. QED
    BY <1>0, <1>2, <1>3, <2>1 DEF RequestsCounted
<1>7. OwnDraft' /\ SeenWhole' /\ SeenTag' /\ SeenHead'
  BY <1>2 DEF OwnDraft, SeenWhole, SeenTag, SeenHead, Filling, Tagging, Reconciling
<1>8. QED
  BY <1>4, <1>5, <1>6, <1>7 DEF PublicationInv
-----------------------------------------------------------------------------
(* The invariant and what follows from it *)

LEMMA NextKeeps == PublicationInv /\ [Next]_vars => PublicationInv'
<1> SUFFICES ASSUME PublicationInv, [Next]_vars PROVE PublicationInv'
  OBVIOUS
<1>1. CASE \E kind \in Kinds : Start(kind)
  BY <1>1, StartKeeps
<1>2. CASE EnsureAbsent \/ CheckSuperseded \/ CheckWorkflows \/ Consume
  BY <1>2, EnsureAbsentKeeps, CheckSupersededKeeps, CheckWorkflowsKeeps, ConsumeKeeps
<1>3. CASE CreateTag \/ CreateRelease
  BY <1>3, CreateTagKeeps, CreateReleaseKeeps
<1>4. CASE \E a \in late : CreateArrives(a)
  BY <1>4, CreateArrivesKeeps
<1>5. CASE Confirm \/ FirstInventory \/ SecondInventory \/ Reread \/ FinalRead
  BY <1>5, ConfirmKeeps, FirstInventoryKeeps, SecondInventoryKeeps, RereadKeeps, FinalReadKeeps
<1>6. CASE \E a \in Assets, content \in Contents, confirmed \in BOOLEAN : Upload(a, content, confirmed)
  BY <1>6, UploadKeeps
<1>7. CASE UploadsDone \/ VerifyAssets \/ CheckTag \/ ConfirmSource
  BY <1>7, UploadsDoneKeeps, VerifyAssetsKeeps, CheckTagKeeps, ConfirmSourceKeeps
<1>8. CASE \E told \in BOOLEAN : Publish(told)
  BY <1>8, PublishKeeps
<1>9. CASE Fail \/ CleanUpAndRerun
  BY <1>9, FailKeeps, CleanUpAndRerunKeeps
<1>10. CASE \/ \E commit \in Commits : MoveHead(commit)
            \/ \E commit \in {"none", "newer"} : MoveTag(commit)
            \/ Cancel
  BY <1>10, MovesKeep
<1>11. CASE DraftByHand
  BY <1>11, DraftByHandKeeps
<1>12. CASE \E i \in Ids : \E assets \in {{}, release[i].assets \cup {<<Extra, "staged">>}} :
              EditDraft(i, assets)
  BY <1>12, EditDraftKeeps
<1>13. CASE UNCHANGED vars
  BY <1>13 DEF vars, PublicationInv, PublicationTypeOK, OneReleasePerAttempt, RequestsCounted,
               OwnDraft, SeenWhole, SeenTag, SeenHead
<1>14. QED
  BY <1>1, <1>2, <1>3, <1>4, <1>5, <1>6, <1>7, <1>8, <1>9, <1>10, <1>11, <1>12, <1>13 DEF Next

\* The invariant of a publication: one request per attempt, the draft in hand is this
\* attempt's own, and what each check found holds unless others changed it since
\* (_publish_prepared, release_control.py:1920-2035).
THEOREM PublicationInvariant == Spec => []PublicationInv
<1>1. QED
  BY InitHolds, NextKeeps, PTL DEF Spec

\* However the reply of a create request was lost, and however late the request took
\* effect, an attempt leaves at most one release (create_release_once,
\* release_control.py:418-456).
THEOREM OneRequestOneRelease == Spec => []OneReleasePerAttempt
<1>1. PublicationInv => OneReleasePerAttempt
  BY DEF PublicationInv
<1>2. QED
  BY <1>1, PublicationInvariant, PTL

\* A release changes only where the job fills or publishes its own, where it is
\* created, where others edit a draft, and where all is cleaned up.
LEMMA OnlyOwnChanges ==
  ASSUME PublicationInv, Next, NEW i \in Ids, release'[i] # release[i]
  PROVE  \/ release[i].by = -1
         \/ /\ job.at \in {"upload", "publish"} /\ i = job.id
            /\ release[i].by = job.attempt
         \/ /\ release'[i].public = release[i].public
            /\ release'[i].assets \in {{}, release[i].assets \cup {<<Extra, "staged">>}}
         \/ release'[i] = NoRelease
<1>0. release \in [Ids -> Releases] /\ job.attempt \in 1 .. MaxAttempts /\ late \subseteq 1 .. MaxAttempts
  BY DEF PublicationInv, PublicationTypeOK, Jobs
<1>1. CASE CreateRelease
  <2>1. Put(job.attempt)
    BY <1>1 DEF CreateRelease
  <2>2. QED
    BY <1>0, <2>1, PutAdds DEF PublicationInv
<1>2. CASE \E a \in late : CreateArrives(a)
  BY <1>0, <1>2, PutAdds DEF PublicationInv, CreateArrives
<1>3. CASE DraftByHand
  BY <1>0, <1>3, PutAdds DEF PublicationInv, DraftByHand, Others
<1>4. CASE \E a \in Assets, content \in Contents, confirmed \in BOOLEAN : Upload(a, content, confirmed)
  BY <1>0, <1>4 DEF Upload, At, PublicationInv, OwnDraft, Filling
<1>5. CASE \E told \in BOOLEAN : Publish(told)
  BY <1>0, <1>5 DEF Publish, At, PublicationInv, OwnDraft, Filling
<1>6. CASE \E j \in Ids : \E assets \in {{}, release[j].assets \cup {<<Extra, "staged">>}} :
             EditDraft(j, assets)
  BY <1>0, <1>6 DEF EditDraft, Releases
<1>7. CASE CleanUpAndRerun
  BY <1>7 DEF CleanUpAndRerun
<1>8. QED
  BY <1>1, <1>2, <1>3, <1>4, <1>5, <1>6, <1>7
     DEF Next, Server, Start, EnsureAbsent, CheckSuperseded, CheckWorkflows, Consume, CreateTag,
         Confirm, FirstInventory, SecondInventory, Reread, FinalRead, UploadsDone, VerifyAssets,
         CheckTag, ConfirmSource, Fail, MoveHead, MoveTag, Cancel

\* A job neither fills nor publishes a release that another call or a person made, for
\* any number of drafts that carry its tag (release_control.py:1920-1970).
THEOREM OthersDraftsSafe == Spec => OthersDraftsUntouched
<1> DEFINE Untouched ==
      \A i \in Ids : release[i].by \in 0 .. MaxAttempts \ {job.attempt} =>
        /\ release'[i].public => release[i].public
        /\ \A entry \in release'[i].assets \ release[i].assets : entry[1] = Extra
<1>1. PublicationInv /\ [Next]_vars => [Untouched]_vars
  <2> SUFFICES ASSUME PublicationInv, Next, NEW i \in Ids,
                      release[i].by \in 0 .. MaxAttempts \ {job.attempt}
               PROVE  /\ release'[i].public => release[i].public
                      /\ \A entry \in release'[i].assets \ release[i].assets : entry[1] = Extra
    OBVIOUS
  <2>1. QED
    BY OnlyOwnChanges DEF NoRelease
<1>2. QED
  BY <1>1, PublicationInvariant, PTL DEF Spec, OthersDraftsUntouched

\* A new release is a draft.
LEMMA PutsNothingPublic ==
  ASSUME PublicationTypeOK, NEW maker \in 0 .. MaxAttempts, Put(maker), NEW i \in Ids
  PROVE  ~BecomesPublic(i)
<1>1. PICK j \in Ids : /\ release'[j] = Empty(maker)
                       /\ \A k \in Ids \ {j} : release'[k] = release[k]
  BY PutAdds
<1>2. ~release'[j].public
  BY <1>1 DEF Empty
<1>3. QED
  BY <1>1, <1>2 DEF BecomesPublic

\* Only a publication request makes a release public.
LEMMA OnlyPublishing ==
  ASSUME PublicationInv, Next, NEW i \in Ids, BecomesPublic(i)
  PROVE  i = job.id /\ job.at = "publish" /\ \E told \in BOOLEAN : Publish(told)
<1>0. release \in [Ids -> Releases] /\ job.attempt \in 1 .. MaxAttempts
  BY DEF PublicationInv, PublicationTypeOK, Jobs
<1>1. release'[i] # release[i] /\ release'[i].public /\ ~release[i].public
  BY DEF BecomesPublic
<1>2. CASE \E told \in BOOLEAN : Publish(told)
  BY <1>0, <1>1, <1>2 DEF Publish, At, PublicationInv, OwnDraft, Filling
<1>3. ~Put(job.attempt) /\ ~Put(0) /\ \A a \in late : ~Put(a)
  BY <1>0, PutsNothingPublic DEF PublicationInv, PublicationTypeOK
<1>4. ~CreateRelease \/ UNCHANGED release
  BY <1>3 DEF CreateRelease
<1>5. ~DraftByHand /\ ~\E a \in late : CreateArrives(a)
  BY <1>3 DEF DraftByHand, CreateArrives, Others
<1>6. CASE \E a \in Assets, content \in Contents, confirmed \in BOOLEAN : Upload(a, content, confirmed)
  BY <1>0, <1>1, <1>6 DEF Upload, At, PublicationInv, OwnDraft, Filling, Releases
<1>7. CASE \E j \in Ids : \E assets \in {{}, release[j].assets \cup {<<Extra, "staged">>}} :
             EditDraft(j, assets)
  BY <1>0, <1>1, <1>7 DEF EditDraft, Releases
<1>8. CASE CleanUpAndRerun
  BY <1>1, <1>8 DEF CleanUpAndRerun, NoRelease
<1>9. QED
  BY <1>1, <1>2, <1>3, <1>4, <1>5, <1>6, <1>7, <1>8
     DEF Next, Server, Start, EnsureAbsent, CheckSuperseded, CheckWorkflows, Consume, CreateTag,
         Confirm, FirstInventory, SecondInventory, Reread, FinalRead, UploadsDone, VerifyAssets,
         CheckTag, ConfirmSource, Fail, MoveHead, MoveTag, Cancel

\* What becomes public is exactly what was staged, whatever uploads stored and others
\* did to the draft before the job last looked (release_control.py:2008-2016).
THEOREM PublicIsWhole == Spec => PublishedWhole
<1>1. PublicationInv /\ [Next]_vars =>
        [\A i \in Ids : BecomesPublic(i) => release[i].assets = Whole \/ "assets" \in unseen]_vars
  BY OnlyPublishing DEF PublicationInv, SeenWhole
<1>2. QED
  BY <1>1, PublicationInvariant, PTL DEF Spec, PublishedWhole

\* Its tag is at the commit it was built from, and an automatic release is made public
\* only for the default branch's head, as the job last saw them (release_control.py:
\* 2017-2024, release_versioned.py:823-828).
THEOREM PublicIsAtSource == Spec => PublishedAtSource
<1> DEFINE AtSource ==
      \A i \in Ids : BecomesPublic(i) =>
        /\ tag' = Source \/ "tag" \in unseen
        /\ job.kind = "automatic" => head = Source \/ "head" \in unseen
<1>1. PublicationInv /\ [Next]_vars => [AtSource]_vars
  <2> SUFFICES ASSUME PublicationInv, Next, NEW i \in Ids, BecomesPublic(i)
               PROVE  /\ tag' = Source \/ "tag" \in unseen
                      /\ job.kind = "automatic" => head = Source \/ "head" \in unseen
    OBVIOUS
  <2>1. job.at = "publish" /\ (tag = Source => tag' = Source)
    BY OnlyPublishing DEF Publish
  <2>2. QED
    BY <2>1 DEF PublicationInv, SeenTag, SeenHead
<1>2. QED
  BY <1>1, PublicationInvariant, PTL DEF Spec, PublishedAtSource
================================================================================
