--------------------------- MODULE CandidatePromotion ---------------------------
(***************************************************************************)
(* What a release candidate must pass to become a stable release:          *)
(* promote() (scripts/release_control.py), which publishes its bytes, and  *)
(* verified_rc() (scripts/release_versioned.py), on which a final build is *)
(* based.                                                                  *)
(*                                                                         *)
(* Everything looked at can change while it is looked at: a snapshot of    *)
(* the candidate is three reads, its files are downloaded one by one, and  *)
(* people move tags, replace files, repeat the candidate's run, clean up   *)
(* and publish again.                                                      *)
(*                                                                         *)
(* A scheduled nightly asks much the same of a release of its own source,  *)
(* scheduled_reuse() (release_versioned.py): if it is proved good, nothing *)
(* new is published.  It trusts the checksums GitHub lists and downloads   *)
(* no package.                                                             *)
(***************************************************************************)
EXTENDS Naturals, FiniteSets, Functions

CONSTANTS Files,       \* package files of the candidate
          MANIFEST,    \* the file that lists them
          MaxOutside   \* bound: changes made by others

ASSUME PromotionAssumption == MANIFEST \notin Files /\ MaxOutside \in Nat

VARIABLES tag,        \* commit the candidate's tag names, or "none"
          release,    \* its release: which one, and is it a published prerelease
          assets,     \* name -> file of that release
          run,        \* the candidate's run: latest attempt and its state
          evidence,   \* manifests in its unexpired release-evidence artifacts
          repo,       \* what else is asked: name -> does it hold
          held,       \* history: what was right at some moment since the downloads
          outside,    \* changes made by others so far
          job         \* the promoting or verifying process

github == <<tag, release, assets, run, evidence, repo>>
vars == <<github, held, outside, job>>

\* Builds are not reproducible: each attempt has bytes of its own.
Made(attempt) == [source |-> "source", attempt |-> attempt,
                  files |-> [f \in Files |-> IF attempt = 1 THEN "first" ELSE "second"]]
\* Well-formed, with the right names, but never made by the run.
Foreign == [Made(1) EXCEPT !.files = [f \in Files |-> "foreign"]]
Contents(name) == IF name = MANIFEST THEN {Made(1), Made(2), Foreign}
                  ELSE {"first", "second", "foreign"}

\* An asset's id is unique and never used again; `whole` is the state "uploaded".
Asset(id, content) == [id |-> id, content |-> content, whole |-> TRUE]
FilesOf(attempt, id) ==
  [name \in Files \cup {MANIFEST} |->
     Asset(id, IF name = MANIFEST THEN Made(attempt) ELSE Made(attempt).files[name])]

\* reviewers: the environment has some; ancestry: the source is on the default branch;
\* workflows: they are as at its head; current: no newer build has been consumed;
\* absent: there is no stable tag yet; head: the default branch is still at the source.
Questions == {"reviewers", "ancestry", "workflows", "current", "absent", "head"}

NoSnapshot == [tag |-> "none", release |-> [id |-> 0, public |-> FALSE], assets |-> <<>>]
NoJob == [at |-> "none", kind |-> "none", round |-> 0, raw |-> Made(1),
          initial |-> NoSnapshot, again |-> NoSnapshot, stage |-> <<>>]

Init ==
  /\ tag = "source"
  /\ release = [id |-> 1, public |-> TRUE]
  /\ assets = FilesOf(1, 1)
  /\ run = [attempt |-> 1, state |-> "success"]
  /\ evidence = {Made(1)}
  /\ repo = [q \in Questions |-> TRUE]
  /\ held = {}
  /\ outside = 0
  /\ job = NoJob

\* What the second round is about, and whether it is right at present.
Things == {"tag", "release", "assets", "run", "reviewers", "workflows", "current", "head"}
Right(thing) ==
  CASE thing = "tag" -> tag = job.raw.source
    [] thing = "release" -> release = job.initial.release
    [] thing = "assets" ->
         /\ DOMAIN assets = Files \cup {MANIFEST}
         /\ assets[MANIFEST].content = job.raw
         /\ \A f \in Files : assets[f].content = job.raw.files[f]
    [] thing = "run" -> run = [attempt |-> job.raw.attempt, state |-> "success"]
    [] OTHER -> repo[thing]

At(place) == job.at = place
Go(place) == job' = [job EXCEPT !.at = place]
Fails == job' = [NoJob EXCEPT !.at = "failed"]
Ended == job.at \in {"failed", "verified", "promoted", "reused"}

\* A read with its requirement, and where the job goes on.
Requires(condition, next) ==
  /\ IF condition THEN Go(next) ELSE Fails
  /\ UNCHANGED <<github, held, outside>>

-----------------------------------------------------------------------------
(* The first round: everything is read and verified *)

\* A promotion, a final build of the candidate's source, or a nightly that may reuse.
Kinds == {"promote", "final", "reuse"}

\* A final build does not ask for reviewers here: prepare() has.
Start(kind) ==
  /\ At("none")
  /\ job' = [job EXCEPT !.kind = kind, !.round = 1,
                        !.at = CASE kind = "promote" -> "reviewers"
                                 [] kind = "final" -> "ref"
                                 [] kind = "reuse" -> "head"]
  /\ UNCHANGED <<github, held, outside>>

\* scheduled_reuse() asks for the branch before it looks, and again when it has found.
CheckHead ==
  At("head") /\ Requires(repo["head"], IF job.round = 1 THEN "ref" ELSE "reused")

RequireReviewers ==
  /\ At("reviewers")
  /\ Requires(repo["reviewers"], IF job.round = 1 THEN "ref" ELSE "workflows")

\* release_snapshot() is read twice: at first, and again after the downloads.
Snap(field, value) ==
  IF job.round = 1 THEN [job EXCEPT !.initial[field] = value]
                   ELSE [job EXCEPT !.again[field] = value]
Snapped == IF job.round = 1 THEN job.initial ELSE job.again

ReadRef ==
  /\ At("ref")
  /\ IF tag # "none" THEN job' = [Snap("tag", tag) EXCEPT !.at = "release"] ELSE Fails
  /\ UNCHANGED <<github, held, outside>>

ReadRelease ==
  /\ At("release")
  /\ IF release.public THEN job' = [Snap("release", release) EXCEPT !.at = "assets"] ELSE Fails
  /\ UNCHANGED <<github, held, outside>>

\* The list is asked for by the id of the release, which may be gone by now.
ListAssets ==
  /\ At("assets")
  /\ IF /\ release.id = Snapped.release.id
        /\ \A name \in DOMAIN assets : assets[name].whole
        /\ MANIFEST \in DOMAIN assets
     THEN job' = [Snap("assets", assets) EXCEPT
                    !.at = IF job.round = 1 THEN "manifest" ELSE "compare"]
     ELSE Fails
  /\ UNCHANGED <<github, held, outside>>

\* A file is downloaded by its id: one that was replaced since is not found.
Stored(name) == name \in DOMAIN assets /\ assets[name].id = job.initial.assets[name].id

\* validate_manifest() and the comparison of its policy with that at its source commit
\* find no fault with the manifests here: all are well-formed.
ReadManifest ==
  /\ At("manifest")
  /\ IF Stored(MANIFEST)
     THEN job' = [job EXCEPT !.raw = assets[MANIFEST].content,
                             !.at = CASE job.kind = "promote" -> "order"
                                      [] job.kind = "final" -> "run"
                                      [] job.kind = "reuse" -> "inventory"]
     ELSE Fails
  /\ UNCHANGED <<github, held, outside>>

\* verify_promotion_order()
CheckOrder == At("order") /\ Requires(repo["current"], "run")

\* validate_validation_run() and validate_run(): the run's latest attempt is the one
\* that made the manifest, has completed with success and passed its gate and profile.
Qualifies(manifest) == run = [attempt |-> manifest.attempt, state |-> "success"]

\* The tag read at first must name the manifest's source.
ReadRun ==
  /\ At("run")
  /\ Requires(job.initial.tag = job.raw.source /\ Qualifies(job.raw),
              IF job.round = 2 THEN "reviewers"
              ELSE IF job.kind = "reuse" THEN "evidence" ELSE "ancestry")

CheckAncestry == At("ancestry") /\ Requires(repo["ancestry"], "evidence")

\* verify_evidence(): exactly one unexpired artifact, with this very manifest.
Proves(manifest) == evidence = {manifest}

VerifyEvidence ==
  /\ At("evidence")
  /\ Requires(Proves(job.raw), CASE job.kind = "promote" -> "absent"
                                [] job.kind = "final" -> "inventory"
                                [] job.kind = "reuse" -> "download")

EnsureAbsent == At("absent") /\ Requires(repo["absent"], "inventory")

\* A plausible slip: the listed size is compared, the checksum is not.
MutMatches(name, content) == TRUE
\* Size and SHA-256 are those the manifest declares.
Matches(name, content) == content = job.raw.files[name]

\* Every file is listed, and no other.
Inventoried == DOMAIN job.initial.assets = DOMAIN job.raw.files \cup {MANIFEST}

CheckInventory ==
  /\ At("inventory") /\ job.kind # "reuse"
  /\ Requires(Inventoried, IF job.kind = "final" THEN "download" ELSE "workflows")

\* A reuse takes the listed checksums for the files.
CheckListed ==
  /\ At("inventory") /\ job.kind = "reuse"
  /\ IF /\ Inventoried
        /\ \A name \in Files : Matches(name, job.initial.assets[name].content)
     THEN job' = [job EXCEPT !.at = "run",
                             !.stage = [f \in Files |-> job.initial.assets[f].content]]
     ELSE Fails
  /\ UNCHANGED <<github, held, outside>>

\* check_workflow_publication(), before the downloads and before the first write.
CheckWorkflows ==
  /\ At("workflows")
  /\ Requires(repo["workflows"], IF job.round = 1 THEN "download" ELSE "begin")

Download(name) ==
  /\ At("download") /\ name \in DOMAIN job.raw.files \ DOMAIN job.stage
  /\ IF Stored(name) /\ Matches(name, assets[name].content)
     THEN job' = [job EXCEPT !.stage = [n \in DOMAIN job.stage \cup {name} |->
                    IF n = name THEN assets[name].content ELSE job.stage[n]]]
     ELSE Fails
  /\ UNCHANGED <<github, held, outside>>

Downloaded ==
  /\ At("download") /\ DOMAIN job.stage = DOMAIN job.raw.files
  /\ job' = [job EXCEPT !.at = "ref", !.round = 2]
  /\ held' = {thing \in Things : Right(thing)}
  /\ UNCHANGED <<github, outside>>

-----------------------------------------------------------------------------
(* The second round: what may have changed is looked at again *)

\* A plausible slip: where the tag points is not compared.
MutSame(one, two) == one.release = two.release /\ one.assets = two.assets
\* snapshot_identity() of both is the same.
Same(one, two) == one = two

AfterComparison ==
  CASE job.kind = "promote" -> "run"
    [] job.kind = "final" -> "verified"
    [] job.kind = "reuse" -> "head"

\* Then the signatures on the staged files are verified.
CompareSnapshots ==
  /\ At("compare")
  /\ Requires(Same(job.initial, job.again), AfterComparison)

\* verify_promotion_order() and begin_publication(), the first write; then the staged
\* files are published under the stable tag.
Begin == At("begin") /\ Requires(repo["current"], "promoted")

\* Any read fails for good, a signature is missing, a response is malformed.
ReadFails ==
  /\ ~At("none") /\ ~Ended
  /\ Fails
  /\ UNCHANGED <<github, held, outside>>

-----------------------------------------------------------------------------
(* Others *)

\* One more change, while the job runs (one before it is as good as one at its start),
\* with what it leaves alone; held' comes last, it looks at the rest.
Outside(others) ==
  /\ ~At("none") /\ ~Ended /\ outside < MaxOutside /\ outside' = outside + 1
  /\ UNCHANGED <<others, job>>
  /\ held' = IF job.round = 2 THEN held \cup {thing \in Things : Right(thing)'} ELSE held

MoveTag(commit) ==
  /\ commit # tag /\ tag' = commit
  /\ Outside(<<release, assets, run, evidence, repo>>)

\* The release is made a draft, or public again.
EditRelease ==
  /\ release' = [release EXCEPT !.public = ~@]
  /\ Outside(<<tag, assets, run, evidence, repo>>)

\* A file is removed, or uploaded in place of the old one, perhaps not yet to its end.
RemoveAsset(name) ==
  /\ name \in DOMAIN assets
  /\ assets' = Restrict(assets, DOMAIN assets \ {name})
  /\ Outside(<<tag, release, run, evidence, repo>>)

\* An id above all others: every change takes the next one.
ReplaceAsset(name, content, whole) ==
  /\ assets' = [n \in DOMAIN assets \cup {name} |->
                  IF n = name THEN [Asset(outside + 2, content) EXCEPT !.whole = whole]
                  ELSE assets[n]]
  /\ Outside(<<tag, release, run, evidence, repo>>)

\* The candidate's run is started again and ends; its evidence is stored after it has
\* published, so a failed attempt may have left some.
RunAgain ==
  /\ run.attempt = 1 /\ run' = [attempt |-> 2, state |-> "running"]
  /\ Outside(<<tag, release, assets, evidence, repo>>)
RunEnds(state, stored) ==
  /\ run.state = "running" /\ run' = [run EXCEPT !.state = state]
  /\ state = "success" => stored
  /\ evidence' = IF stored THEN evidence \cup {Made(run.attempt)} ELSE evidence
  /\ Outside(<<tag, release, assets, repo>>)

EvidenceExpires(manifest) ==
  /\ manifest \in evidence /\ evidence' = evidence \ {manifest}
  /\ Outside(<<tag, release, assets, run, repo>>)

\* The release is removed by hand, and the second attempt publishes it anew.
PublishAnew ==
  /\ run.state = "running"
  /\ release' = [id |-> outside + 2, public |-> TRUE]
  /\ assets' = FilesOf(2, outside + 2)
  /\ Outside(<<tag, run, evidence, repo>>)

\* Reviewers are removed, the branch is rewritten, workflows change, a newer build is
\* consumed, the stable tag appears, the branch moves on; or, where it can be and is asked
\* for again, the opposite.  What the job does not ask for makes no difference to it.
Asked ==
  CASE job.kind = "reuse" -> {"head"}
    [] job.kind = "final" -> {"ancestry"}
    [] job.kind = "promote" /\ job.round = 2 -> {"reviewers", "workflows", "current"}
    [] OTHER -> Questions \ {"head"}
Change(question) ==
  /\ question \in Asked
  /\ question \in {"current", "ancestry", "absent"} => repo[question]
  /\ repo' = [repo EXCEPT ![question] = ~@]
  /\ Outside(<<tag, release, assets, run, evidence>>)

-----------------------------------------------------------------------------
\* What only a reuse does: it asks for the branch, and goes by the listed checksums.
ReuseSteps == CheckHead \/ CheckListed

Steps ==
  \/ RequireReviewers \/ ReadRef \/ ReadRelease \/ ListAssets \/ ReadManifest
  \/ CheckOrder \/ ReadRun \/ CheckAncestry \/ VerifyEvidence \/ EnsureAbsent
  \/ CheckInventory \/ CheckWorkflows \/ Downloaded \/ CompareSnapshots \/ Begin
  \/ ReuseSteps \/ ReadFails
  \/ \E name \in Files : Download(name)

Others ==
  \/ \E commit \in {"source", "elsewhere", "none"} : MoveTag(commit)
  \/ EditRelease
  \/ \E name \in Files \cup {MANIFEST} :
       \/ RemoveAsset(name)
       \/ \E content \in Contents(name) : ReplaceAsset(name, content, TRUE)
       \/ ReplaceAsset(name, CHOOSE content \in Contents(name) : TRUE, FALSE)
  \/ RunAgain
  \/ \E state \in {"success", "failure"}, stored \in BOOLEAN : RunEnds(state, stored)
  \/ \E manifest \in {Made(1), Made(2)} : EvidenceExpires(manifest)
  \/ PublishAnew
  \/ \E question \in Questions : Change(question)

Next == (\E kind \in Kinds : Start(kind)) \/ Steps \/ Others

Spec == Init /\ [][Next]_vars

-----------------------------------------------------------------------------
(* Properties *)

Passed == job.at \in {"verified", "promoted", "reused"}

\* What is promoted, or built upon, or taken in place of a new nightly, is what one
\* attempt of the candidate's run made, file by file, and that attempt left evidence of
\* it: whatever was uploaded to the release, before or in between (2519-2548;
\* verified_rc 245-268; reuse 433-466).
AcceptedBytes ==
  Passed => \E attempt \in 1 .. run.attempt :
              /\ job.raw = Made(attempt)
              /\ job.stage = Made(attempt).files

\* Nothing rests on what was known before or during the downloads.  After the last one,
\* tag, release and files were those of the verified candidate (2549-2553; verified_rc
\* 269-273); and a promotion, which goes on to write, had a candidate whose run had not
\* been repeated, reviewers, the default branch's workflows, and no newer build
\* (2555-2591); a nightly skipped for it was of the branch's head (512-520).
KnownAfresh ==
  /\ Passed => {"tag", "release", "assets"} \subseteq held
  /\ At("promoted") => {"run", "reviewers", "workflows", "current"} \subseteq held
  /\ At("reused") => "head" \in held
================================================================================
