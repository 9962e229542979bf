-------------------------- MODULE ReleasePublication ---------------------------
(***************************************************************************)
(* How one tag becomes a public release: _publish_prepared() and the       *)
(* reconciliation of a lost create reply (scripts/release_control.py),     *)
(* with what publish_versioned() and promote() do around them.             *)
(*                                                                         *)
(* VersionLedger takes the way from the tag to the public release as one   *)
(* step.  Here it is taken apart: the ledger, the tag ref, the draft, its  *)
(* assets and the default branch are written and read one after the other, *)
(* while maintainers change any of them, replies get lost, a request takes *)
(* effect long after its client gave up, and the runner dies.              *)
(***************************************************************************)
EXTENDS Integers, FiniteSets

CONSTANTS Assets,        \* names of the staged files
          Extra,         \* a name that is not staged
          ScopeVerified, \* the token may publish any workflow file
          MaxReleases,   \* bound: releases ever created under the tag
          MaxOutside,    \* bound: changes made by others
          MaxAttempts    \* bound: attempts of the run

ASSUME PublicationAssumption ==
  /\ IsFiniteSet(Assets) /\ Assets # {} /\ Extra \notin Assets
  /\ ScopeVerified \in BOOLEAN
  /\ MaxReleases \in Nat \ {0} /\ MaxOutside \in Nat /\ MaxAttempts \in Nat \ {0}

VARIABLES head,     \* commit the default branch points at
          tag,      \* commit the tag points at, or "none"
          release,  \* id -> release under the tag
          late,     \* attempts whose create request may still take effect
          consumed, \* the ledger's floor has reached the plan's number
          job,      \* the publication job of the current attempt
          outside,  \* how many changes others have made
          unseen    \* history: what others changed since the job last looked

vars == <<head, tag, release, late, consumed, job, outside, unseen>>

Source == "source"                           \* the commit being released
Commits == {Source, "newer", "workflows"}    \* the last one changes workflow files
Kinds == {"automatic", "manual", "promotion"}
Ids == 1 .. MaxReleases
Contents == {"staged", "damaged"}
Others == 0                                  \* the creator of a release no attempt created

\* The files of a release, as name and content; a release nobody made has no maker.
NoRelease == [by |-> -1, public |-> FALSE, assets |-> {}]
Empty(maker) == [by |-> maker, public |-> FALSE, assets |-> {}]
Exists(i) == release[i].by # -1
Whole == {<<a, "staged">> : a \in Assets}

NewJob == [at |-> "new", kind |-> "none", attempt |-> 1, running |-> FALSE,
           captured |-> "none", id |-> 0, listed |-> {}, left |-> {}]

Init ==
  /\ head = Source
  /\ tag = "none"
  /\ release = [i \in Ids |-> NoRelease]
  /\ late = {}
  /\ consumed = FALSE
  /\ job = NewJob
  /\ outside = 0
  /\ unseen = {}

At(place) == job.at = place
Go(place) == job' = [job EXCEPT !.at = place]
GoIf(condition, place) == Go(IF condition THEN place ELSE "failed")
Server == <<head, tag, release, late, consumed>>

\* Workflow files of the source and of the default branch's head are the same.
SameWorkflows == head # "workflows"

\* What GitHub refuses a token without the workflow scope.
MayPublish == ScopeVerified \/ SameWorkflows

-----------------------------------------------------------------------------
(* Before the first public write. *)

Start(kind) ==
  /\ At("new")
  /\ job' = [job EXCEPT !.at = "precheck", !.kind = kind, !.running = TRUE]
  /\ UNCHANGED <<Server, outside, unseen>>

\* ensure_absent(): no tag, no release and no hidden draft of it; once before
\* anything is consumed and once before the tag.
EnsureAbsent ==
  /\ At("precheck") \/ At("absent")
  /\ GoIf(tag = "none" /\ \A i \in Ids : ~Exists(i),
          IF At("absent") THEN "workflows" ELSE "superseded")
  /\ UNCHANGED <<Server, outside, unseen>>

\* An automatic run whose source is no longer the head leaves the tag to the run of
\* the newer commit, if there is one.
CheckSuperseded ==
  /\ At("superseded")
  /\ IF job.kind = "automatic" /\ head # Source
     THEN Go("done") \/ Go("failed")
     ELSE Go("preworkflows")
  /\ UNCHANGED <<Server, outside, unseen>>

CheckWorkflows ==
  /\ At("preworkflows") \/ At("workflows")
  /\ GoIf(ScopeVerified \/ SameWorkflows, IF At("workflows") THEN "tag" ELSE "consume")
  /\ UNCHANGED <<Server, outside, unseen>>

\* The head is captured; for an automatic run it must be the source.  A plan's number
\* is consumed once; a promotion may come back to its RC's number.
Consume ==
  LET allowed == /\ job.kind = "automatic" => head = Source
                 /\ job.kind # "promotion" => ~consumed
  IN /\ At("consume")
     /\ consumed' = (consumed \/ allowed)
     /\ job' = IF allowed THEN [job EXCEPT !.at = "absent", !.captured = head]
               ELSE [job EXCEPT !.at = "failed"]
     /\ UNCHANGED <<head, tag, release, late, outside, unseen>>

\* A ref that exists is not overwritten.
CreateTag ==
  /\ At("tag")
  /\ tag' = IF tag = "none" THEN Source ELSE tag
  /\ GoIf(tag = "none", "create")
  /\ UNCHANGED <<head, release, late, consumed, outside, unseen>>

-----------------------------------------------------------------------------
(* create_release_once() and _reconcile_created_release() *)

Free == {i \in Ids : ~Exists(i)}
Put(maker) == \E i \in Free :
                /\ \A j \in Free : i <= j
                /\ release' = [release EXCEPT ![i] = Empty(maker)]

\* A plausible slip: the request is sent again.
MutAfterLostReply(kind) == IF kind = "promotion" THEN "failed" ELSE "create"
\* A promotion gives up; a versioned publication looks what its request has done.
AfterLostReply(kind) == IF kind = "promotion" THEN "failed" ELSE "confirm"

\* The job goes on to fill the draft with this id.
Holding(j, i) == [j EXCEPT !.at = "upload", !.id = i, !.left = Assets]

CreateRelease ==
  /\ At("create")
  /\ \/ /\ MayPublish                               \* created
        /\ Put(job.attempt)
        /\ \/ \E i \in Ids : release'[i] # release[i] /\ job' = Holding(job, i)
           \/ Go(AfterLostReply(job.kind))          \* ... and the reply lost
        /\ UNCHANGED late
     \/ /\ Go(AfterLostReply(job.kind))             \* nothing seen of it yet
        /\ late' = late \cup {job.attempt}
        /\ UNCHANGED release
  /\ UNCHANGED <<head, tag, consumed, outside, unseen>>

\* The request takes effect after its client has given up on it.
CreateArrives(a) ==
  /\ a \in late /\ MayPublish
  /\ Put(a)
  /\ late' = late \ {a}
  /\ UNCHANGED <<head, tag, consumed, job, outside, unseen>>

\* The attempt still runs and the default branch is where it was captured.  (The
\* ledger must be as written, too: nobody else writes it while this run is active.)
Confirmed == job.running /\ head = job.captured

Confirm ==
  /\ At("confirm") \/ At("again")
  /\ GoIf(Confirmed, IF At("confirm") THEN "first" ELSE "final")
  /\ UNCHANGED <<Server, outside, unseen>>

\* A plausible slip: a draft is taken for the request's own by its tag.
MutExactly(r, attempt) == ~r.public /\ r.assets = {}
\* The release is what the request asked for: the nonce in its body is this call's.
Exactly(r, attempt) == r.by = attempt /\ ~r.public /\ r.assets = {}

Inventory == {<<i, release[i]>> : i \in {j \in Ids : Exists(j)}}

FirstInventory ==
  /\ At("first")
  /\ job' = [job EXCEPT !.at = "second", !.listed = Inventory]
  /\ UNCHANGED <<Server, outside, unseen>>

\* Both inventories list the same releases, and one under the tag: the request's.
SecondInventory ==
  /\ At("second")
  /\ \/ \E i \in Ids :
          /\ {entry[1] : entry \in job.listed} = {i} /\ {entry[1] : entry \in Inventory} = {i}
          /\ \A entry \in job.listed \cup Inventory : Exactly(entry[2], job.attempt)
          /\ job' = [job EXCEPT !.at = "reread", !.id = i, !.listed = {}]
     \/ /\ ~\E i \in Ids :
             /\ {entry[1] : entry \in job.listed} = {i} /\ {entry[1] : entry \in Inventory} = {i}
             /\ \A entry \in job.listed \cup Inventory : Exactly(entry[2], job.attempt)
        /\ job' = [job EXCEPT !.at = "failed", !.listed = {}]
  /\ UNCHANGED <<Server, outside, unseen>>

Reread ==
  /\ At("reread")
  /\ GoIf(Exactly(release[job.id], job.attempt) /\ tag = Source, "again")
  /\ UNCHANGED <<Server, outside, unseen>>

FinalRead ==
  /\ At("final")
  /\ job' = IF Exactly(release[job.id], job.attempt) THEN Holding(job, job.id)
            ELSE [job EXCEPT !.at = "failed"]
  /\ UNCHANGED <<Server, outside, unseen>>

-----------------------------------------------------------------------------
(* Filling the draft and making it public. *)

\* One request per file; what arrives may not be what was sent, and a reply that
\* does not confirm the upload ends the job, whatever has been stored.
Upload(a, content, confirmed) ==
  /\ At("upload") /\ a \in job.left
  /\ Exists(job.id)
  /\ release' = [release EXCEPT ![job.id].assets = @ \cup {<<a, content>>}]
  /\ job' = IF confirmed THEN [job EXCEPT !.left = @ \ {a}] ELSE [job EXCEPT !.at = "failed"]
  /\ UNCHANGED <<head, tag, late, consumed, outside, unseen>>

UploadsDone ==
  /\ At("upload") /\ job.left = {}
  /\ Go("verify")
  /\ UNCHANGED <<Server, outside, unseen>>

\* A plausible slip: names are compared, the bytes are not fetched back.
MutComplete(assets) == {entry[1] : entry \in assets} = Assets
\* The inventory is the staged one, and every byte read back is the staged byte.
Complete(assets) == assets = Whole

\* An asset's bytes never change, so what the inventory lists fixes what is read back.
VerifyAssets ==
  /\ At("verify")
  /\ GoIf(Complete(release[job.id].assets), "tagcheck")
  /\ unseen' = unseen \ {"assets"}
  /\ UNCHANGED <<Server, outside>>

\* A plausible slip: any tag will do.
MutTagHolds(commit) == commit # "none"
TagHolds(commit) == commit = Source

CheckTag ==
  /\ At("tagcheck")
  /\ GoIf(TagHolds(tag), "source")
  /\ unseen' = unseen \ {"tag"}
  /\ UNCHANGED <<Server, outside>>

\* An automatic publication is for the default branch as it was captured.
StillCurrent(j) == j.kind = "automatic" => head = j.captured

ConfirmSource ==
  /\ At("source")
  /\ GoIf(StillCurrent(job), "publish")
  /\ unseen' = unseen \ {"head"}
  /\ UNCHANGED <<Server, outside>>

\* Publishing creates a tag that is missing, from the draft's target commit.
Publish(told) ==
  /\ At("publish")
  /\ Exists(job.id) /\ MayPublish
  /\ release' = [release EXCEPT ![job.id].public = TRUE]
  /\ tag' = IF tag = "none" THEN Source ELSE tag
  /\ Go(IF told THEN "done" ELSE "failed")
  /\ UNCHANGED <<head, late, consumed, outside, unseen>>

\* A request is refused or fails, a check raises, a deadline passes, the runner dies.
Fail ==
  /\ job.at \notin {"new", "done", "failed"}
  /\ job' = [job EXCEPT !.at = "failed", !.listed = {}]
  /\ UNCHANGED <<Server, outside, unseen>>

-----------------------------------------------------------------------------
(* Maintainers and GitHub, while the job runs. *)

Outside(changed) ==
  /\ outside < MaxOutside
  /\ outside' = outside + 1
  /\ unseen' = unseen \cup changed

MoveHead(commit) ==
  /\ commit # head
  /\ head' = commit
  /\ Outside({"head"})
  /\ UNCHANGED <<tag, release, late, consumed, job>>

MoveTag(commit) ==
  /\ commit # tag
  /\ tag' = commit
  /\ Outside({"tag"})
  /\ UNCHANGED <<head, release, late, consumed, job>>

\* Someone drafts a release of the same name by hand.
DraftByHand ==
  /\ Put(Others)
  /\ Outside({})
  /\ UNCHANGED <<head, tag, late, consumed, job>>

\* A file is added to a draft by hand, or all of them are removed.
EditDraft(i, assets) ==
  /\ Exists(i) /\ ~release[i].public
  /\ assets # release[i].assets
  /\ release' = [release EXCEPT ![i].assets = assets]
  /\ Outside(IF i = job.id THEN {"assets"} ELSE {})
  /\ UNCHANGED <<head, tag, late, consumed, job>>

\* The attempt is cancelled; its process may take a while to notice.
Cancel ==
  /\ job.running
  /\ job' = [job EXCEPT !.running = FALSE]
  /\ Outside({})
  /\ UNCHANGED Server

\* What a failed attempt left behind is removed by hand, and the job is run again.
CleanUpAndRerun ==
  /\ At("failed") /\ job.attempt < MaxAttempts
  /\ \A i \in Ids : ~release[i].public
  /\ release' = [i \in Ids |-> NoRelease]
  /\ tag' = "none"
  /\ job' = [NewJob EXCEPT !.at = "precheck", !.kind = job.kind, !.running = TRUE,
                           !.attempt = job.attempt + 1]
  /\ unseen' = {}
  /\ UNCHANGED <<head, late, consumed, outside>>

Next ==
  \/ \E kind \in Kinds : Start(kind)
  \/ EnsureAbsent
  \/ CheckSuperseded
  \/ CheckWorkflows
  \/ Consume
  \/ CreateTag
  \/ CreateRelease
  \/ \E a \in late : CreateArrives(a)
  \/ Confirm
  \/ FirstInventory
  \/ SecondInventory
  \/ Reread
  \/ FinalRead
  \/ \E a \in Assets, content \in Contents, confirmed \in BOOLEAN : Upload(a, content, confirmed)
  \/ UploadsDone
  \/ VerifyAssets
  \/ CheckTag
  \/ ConfirmSource
  \/ \E told \in BOOLEAN : Publish(told)
  \/ Fail
  \/ \E commit \in Commits : MoveHead(commit)
  \/ \E commit \in {"none", "newer"} : MoveTag(commit)
  \/ DraftByHand
  \/ \E i \in Ids : \E assets \in {{}, release[i].assets \cup {<<Extra, "staged">>}} : EditDraft(i, assets)
  \/ Cancel
  \/ CleanUpAndRerun

Spec == Init /\ [][Next]_vars

-----------------------------------------------------------------------------
(* Properties *)

\* However its reply was lost or delayed, the create request of an attempt leaves at
\* most one release (create_release_once, release_control.py:418-456).
OneReleasePerAttempt ==
  \A i, j \in Ids : release[i].by = release[j].by /\ release[i].by > Others => i = j

\* A job neither fills nor publishes a release that another call or a person made,
\* although GitHub lets several drafts carry one tag (1920-1970).
OthersDraftsUntouched ==
  [][\A i \in Ids : release[i].by \in 0 .. MaxAttempts \ {job.attempt} =>
       /\ release'[i].public => release[i].public
       /\ \A entry \in release'[i].assets \ release[i].assets : entry[1] = Extra]_vars

BecomesPublic(i) == ~release[i].public /\ release'[i].public

\* What becomes public is exactly what was staged, byte for byte, whatever uploads
\* stored and whatever others did to the draft before the job last looked (2008-2016).
PublishedWhole ==
  [][\A i \in Ids : BecomesPublic(i) => release[i].assets = Whole \/ "assets" \in unseen]_vars

\* Its tag points at the commit it was built from, unless it was moved after the job
\* last looked (2017-2024); and an automatic release becomes public only for a commit
\* that was the default branch's head when the job last looked, after all uploads
\* (release_versioned.py:823-828).
PublishedAtSource ==
  [][\A i \in Ids : BecomesPublic(i) =>
       /\ tag' = Source \/ "tag" \in unseen
       /\ job.kind = "automatic" => head = Source \/ "head" \in unseen]_vars
================================================================================
