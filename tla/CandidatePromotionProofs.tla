------------------------ MODULE CandidatePromotionProofs ------------------------
(***************************************************************************)
(* What is promoted, built upon or reused is what one attempt of the       *)
(* candidate's run made, and nothing of it rests on what was known before  *)
(* or during the downloads; for any files and any number of changes made   *)
(* by others.                                                              *)
(***************************************************************************)
EXTENDS CandidatePromotion, TLAPS

Manifests == {Made(1), Made(2), Foreign}
Names == Files \cup {MANIFEST}

\* The job's places: before its first read of the manifest, and by what a first round
\* has read when it comes there.
Before == {"reviewers", "head", "ref", "release", "assets", "manifest"}
AfterManifest == {"order", "run", "ancestry", "evidence", "absent", "inventory",
                  "workflows", "download"}
Second == {"ref", "release", "assets", "compare", "run", "reviewers", "workflows", "begin",
           "head", "promoted", "verified", "reused"}
PlacesOfReuse == {"head", "ref", "release", "assets", "manifest", "inventory", "run", "evidence",
                  "download"}
LateSecond == {"run", "reviewers", "workflows", "begin", "head", "promoted", "verified", "reused"}

\* The first round has got past a check, or is over.
Past(places, ofReuse) ==
  \/ job.round = 2
  \/ job.round = 1 /\ job.at \in (IF job.kind = "reuse" THEN ofReuse ELSE places)

IsSnapshot(s) == s = [tag |-> s.tag, release |-> s.release, assets |-> s.assets]

\* Where the job can be.
Shape ==
  /\ job.round \in {0, 1, 2}
  /\ job.round = 0 => job.at \in {"none", "failed"}
  /\ job.round = 1 => job.at \in Before \cup AfterManifest
  /\ job.round = 2 => job.at \in Second
  /\ job.round # 0 => job.kind \in Kinds
  /\ job.round = 1 /\ job.kind = "reuse" => job.at \in PlacesOfReuse
  /\ job.raw \in Manifests
  /\ job = [at |-> job.at, kind |-> job.kind, round |-> job.round, raw |-> job.raw,
            initial |-> job.initial, again |-> job.again, stage |-> job.stage]
  /\ IsSnapshot(job.initial) /\ IsSnapshot(job.again)

\* GitHub's side: evidence only of attempts there were.
Attempts ==
  /\ run.attempt \in {1, 2}
  /\ evidence \subseteq {Made(a) : a \in 1 .. run.attempt}

\* An id names one upload, and those to come have higher ones.
Ids ==
  /\ outside \in Nat
  /\ \A n \in DOMAIN assets : assets[n].id \in Nat /\ assets[n].id <= outside + 1
  /\ MANIFEST \in DOMAIN assets => assets[MANIFEST].content \in Manifests
  /\ \A n \in DOMAIN job.initial.assets :
       /\ job.initial.assets[n].id \in Nat /\ job.initial.assets[n].id <= outside + 1
       /\ n \in DOMAIN assets /\ assets[n].id = job.initial.assets[n].id =>
            assets[n].content = job.initial.assets[n].content

\* What the first round has established of the first snapshot.
FirstRound ==
  /\ job.round = 1 /\ job.at = "manifest" => MANIFEST \in DOMAIN job.initial.assets
  /\ Past(AfterManifest, AfterManifest) =>
       MANIFEST \in DOMAIN job.initial.assets /\ job.initial.assets[MANIFEST].content = job.raw
  /\ Past({"ancestry", "evidence", "absent", "inventory", "workflows", "download"},
          {"evidence", "download"}) => job.initial.tag = job.raw.source
  /\ Past({"absent", "inventory", "workflows", "download"}, {"download"}) =>
       \E a \in 1 .. run.attempt : job.raw = Made(a)
  /\ Past({"workflows", "download"}, {"run", "evidence", "download"}) =>
       DOMAIN job.initial.assets = Names

\* The staged files are those of the first snapshot and of the manifest.
Staged ==
  /\ job.stage = [f \in DOMAIN job.stage |-> job.raw.files[f]]
  /\ DOMAIN job.stage \subseteq Files
  /\ job.round = 0 \/ (job.round = 1 /\ job.at \in Before) => DOMAIN job.stage = {}
  /\ \A f \in DOMAIN job.stage : /\ f \in DOMAIN job.initial.assets
                                 /\ job.initial.assets[f].content = job.raw.files[f]
  /\ job.round = 2 => DOMAIN job.stage = Files

\* What the second round has looked at was right at some moment since the downloads.
SecondRound ==
  job.round = 2 =>
    /\ \A thing \in Things : Right(thing) => thing \in held
    /\ job.at \in Second \ {"ref"} /\ job.again.tag = job.raw.source => "tag" \in held
    /\ job.at \in Second \ {"ref", "release"} /\ job.again.release = job.initial.release =>
         "release" \in held
    /\ job.at \in Second \ {"ref", "release", "assets"} /\ job.again.assets = job.initial.assets =>
         "assets" \in held
    /\ job.at \in LateSecond => {"tag", "release", "assets"} \subseteq held
    /\ job.at \in {"reviewers", "workflows", "begin", "promoted"} => "run" \in held
    /\ job.at \in {"workflows", "begin", "promoted"} => "reviewers" \in held
    /\ job.at \in {"begin", "promoted"} => "workflows" \in held
    /\ job.at = "promoted" => "current" \in held
    /\ job.at = "reused" => "head" \in held

PromotionInv ==
  Shape /\ Attempts /\ Ids /\ FirstRound /\ Staged /\ SecondRound

-----------------------------------------------------------------------------
LEMMA FilesOfManifests ==
  ASSUME NEW m \in Manifests
  PROVE  DOMAIN m.files = Files /\ m.source = "source"
  BY DEF Manifests, Made, Foreign

LEMMA RightOf ==
  /\ Right("tag") <=> tag = job.raw.source
  /\ Right("release") <=> release = job.initial.release
  /\ Right("assets") <=> /\ DOMAIN assets = Names
                         /\ assets[MANIFEST].content = job.raw
                         /\ \A f \in Files : assets[f].content = job.raw.files[f]
  /\ Right("run") <=> run = [attempt |-> job.raw.attempt, state |-> "success"]
  /\ \A thing \in {"reviewers", "workflows", "current", "head"} : Right(thing) <=> repo[thing]
  BY DEF Right, Names

\* The invariant gives the properties.
LEMMA PromotionSafe ==
  ASSUME PromotionInv
  PROVE  AcceptedBytes /\ KnownAfresh
<1>1. CASE ~Passed
  BY <1>1 DEF AcceptedBytes, KnownAfresh, Passed, At
<1>2. CASE Passed
  <2>1. job.round = 2 /\ job.at \in LateSecond
    BY <1>2 DEF PromotionInv, Shape, Passed, Before, AfterManifest, LateSecond
  <2>2. PICK a \in 1 .. run.attempt : job.raw = Made(a)
    BY <2>1 DEF PromotionInv, FirstRound, Past
  <2>3. job.stage = [f \in Files |-> job.raw.files[f]]
    BY <2>1 DEF PromotionInv, Staged
  <2>4. job.stage = Made(a).files
    BY <2>2, <2>3 DEF Made
  <2>5. AcceptedBytes
    BY <2>2, <2>4 DEF AcceptedBytes
  <2>6. KnownAfresh
    BY <2>1 DEF PromotionInv, SecondRound, KnownAfresh, At
  <2> QED BY <2>5, <2>6
<1> QED BY <1>1, <1>2

LEMMA PromotionInit ==
  ASSUME PromotionAssumption, Init
  PROVE  PromotionInv
<1>1. job = NoJob /\ job.round = 0 /\ job.at = "none" /\ job.raw = Made(1)
      /\ job.initial.assets = <<>> /\ job.stage = <<>>
  BY DEF Init, NoJob, NoSnapshot
<1>2. DOMAIN job.stage = {} /\ DOMAIN job.initial.assets = {}
  BY <1>1
<1>3. job.stage = [f \in DOMAIN job.stage |-> job.raw.files[f]]
  BY <1>1, <1>2
<1>4. Shape /\ Staged
  BY <1>1, <1>2, <1>3 DEF Shape, Staged, Manifests, NoJob, IsSnapshot, NoSnapshot
<1>5. Attempts
  BY DEF Init, Attempts
<1>6. Ids
  BY <1>2 DEF Init, Ids, FilesOf, Asset, Manifests
<1> QED BY <1>1, <1>4, <1>5, <1>6 DEF PromotionInv, FirstRound, Past, SecondRound

-----------------------------------------------------------------------------
(* Others *)

\* Whatever others change, as long as ids are new and evidence is of attempts there were.
LEMMA OutsideStep ==
  ASSUME PromotionInv, Outside(<<>>), Attempts', run.attempt <= run'.attempt,
         \A n \in DOMAIN assets' :
           \/ n \in DOMAIN assets /\ assets'[n] = assets[n]
           \/ /\ assets'[n].id = outside + 2
              /\ n = MANIFEST => assets'[n].content \in Manifests
  PROVE  PromotionInv'
<1>1. /\ job' = job /\ outside' = outside + 1 /\ outside \in Nat
      /\ held' = IF job.round = 2 THEN held \cup {thing \in Things : Right(thing)'} ELSE held
  BY DEF Outside, PromotionInv, Ids
<1>2. Shape'
  BY <1>1 DEF PromotionInv, Shape
<1>3. Ids'
  <2>1. ASSUME NEW n \in DOMAIN assets'
        PROVE  assets'[n].id \in Nat /\ assets'[n].id <= outside' + 1
    BY <1>1, <2>1 DEF PromotionInv, Ids
  <2>2. ASSUME NEW n \in DOMAIN job.initial.assets
        PROVE  /\ job.initial.assets[n].id \in Nat /\ job.initial.assets[n].id <= outside' + 1
               /\ n \in DOMAIN assets' /\ assets'[n].id = job.initial.assets[n].id =>
                    assets'[n].content = job.initial.assets[n].content
    BY <1>1, <2>2 DEF PromotionInv, Ids
  <2>3. MANIFEST \in DOMAIN assets' => assets'[MANIFEST].content \in Manifests
    BY DEF PromotionInv, Ids
  <2> QED BY <1>1, <2>1, <2>2, <2>3 DEF Ids
<1>4. FirstRound'
  <2>1. 1 .. run.attempt \subseteq 1 .. run'.attempt
    BY DEF PromotionInv, Attempts
  <2> QED BY <1>1, <2>1 DEF PromotionInv, FirstRound, Past
<1>5. Staged'
  BY <1>1 DEF PromotionInv, Staged
<1>6. SecondRound'
  <2> SUFFICES ASSUME job.round = 2 PROVE SecondRound'
    BY <1>1 DEF SecondRound
  <2>1. held \subseteq held' /\ \A thing \in Things : Right(thing)' => thing \in held'
    BY <1>1
  <2> QED BY <1>1, <2>1 DEF PromotionInv, SecondRound
<1> QED BY <1>2, <1>3, <1>4, <1>5, <1>6 DEF PromotionInv

LEMMA OthersStep ==
  ASSUME PromotionInv, Others
  PROVE  PromotionInv'
<1>1. Attempts /\ outside \in Nat
  BY DEF PromotionInv, Ids
<1>2. ASSUME NEW commit, MoveTag(commit) PROVE PromotionInv'
  BY <1>1, <1>2, OutsideStep DEF MoveTag, Outside, Attempts
<1>3. CASE EditRelease
  BY <1>1, <1>3, OutsideStep DEF EditRelease, Outside, Attempts
<1>4. ASSUME NEW name \in Names, RemoveAsset(name) PROVE PromotionInv'
  <2>1. \A n \in DOMAIN assets' : n \in DOMAIN assets /\ assets'[n] = assets[n]
    BY <1>4 DEF RemoveAsset, Restrict
  <2>2. Outside(<<>>) /\ UNCHANGED <<run, evidence>>
    BY <1>4 DEF RemoveAsset, Outside
  <2>3. Attempts' /\ run.attempt <= run'.attempt
    BY <1>1, <2>2 DEF Attempts
  <2> QED BY <2>1, <2>2, <2>3, OutsideStep
<1>5. ASSUME NEW name \in Names, NEW content \in Contents(name), NEW whole,
             ReplaceAsset(name, content, whole)
      PROVE  PromotionInv'
  <2>1. \A n \in DOMAIN assets' : \/ n \in DOMAIN assets /\ assets'[n] = assets[n]
                                  \/ /\ assets'[n].id = outside + 2
                                     /\ n = MANIFEST => assets'[n].content \in Manifests
    BY <1>5 DEF ReplaceAsset, Asset, Contents, Manifests
  <2>2. Outside(<<>>) /\ UNCHANGED <<run, evidence>>
    BY <1>5 DEF ReplaceAsset, Outside
  <2>3. Attempts' /\ run.attempt <= run'.attempt
    BY <1>1, <2>2 DEF Attempts
  <2> QED BY <2>1, <2>2, <2>3, OutsideStep
<1>6. CASE RunAgain
  <2>1. run.attempt = 1 /\ run'.attempt = 2 /\ evidence' = evidence
    BY <1>6 DEF RunAgain, Outside
  <2>2. Attempts'
    BY <1>1, <2>1 DEF Attempts
  <2> QED BY <1>6, <2>1, <2>2, OutsideStep DEF RunAgain, Outside
<1>7. ASSUME NEW state, NEW stored, RunEnds(state, stored) PROVE PromotionInv'
  <2>1. run'.attempt = run.attempt /\ evidence' \subseteq evidence \cup {Made(run.attempt)}
    BY <1>1, <1>7 DEF RunEnds, Attempts
  <2>2. Attempts'
    BY <1>1, <2>1 DEF Attempts
  <2> QED BY <1>1, <1>7, <2>1, <2>2, OutsideStep DEF RunEnds, Outside, Attempts
<1>8. ASSUME NEW manifest, EvidenceExpires(manifest) PROVE PromotionInv'
  BY <1>1, <1>8, OutsideStep DEF EvidenceExpires, Outside, Attempts
<1>9. CASE PublishAnew
  <2>1. \A n \in DOMAIN assets' : /\ assets'[n].id = outside + 2
                                  /\ n = MANIFEST => assets'[n].content \in Manifests
    BY <1>9 DEF PublishAnew, FilesOf, Asset, Manifests
  <2> QED BY <1>1, <1>9, <2>1, OutsideStep DEF PublishAnew, Outside, Attempts
<1>10. ASSUME NEW question, Change(question) PROVE PromotionInv'
  BY <1>1, <1>10, OutsideStep DEF Change, Outside, Attempts
<1>11. \A name : (CHOOSE content \in Contents(name) : TRUE) \in Contents(name)
  BY DEF Contents
<1> QED BY <1>2, <1>3, <1>4, <1>5, <1>6, <1>7, <1>8, <1>9, <1>10, <1>11 DEF Others, Names

-----------------------------------------------------------------------------
(* The job *)

\* Nobody else moves in a step of the job.
Alone == UNCHANGED <<github, held, outside>>

LEMMA AloneKeeps ==
  ASSUME PromotionInv, Alone, job'.raw = job.raw, job'.initial = job.initial
  PROVE  /\ Attempts' /\ Ids' /\ run' = run /\ held' = held
         /\ \A thing \in Things : Right(thing)' <=> Right(thing)
<1>1. UNCHANGED <<tag, release, assets, run, evidence, repo, held, outside>>
  BY DEF Alone, github
<1>2. Attempts' /\ Ids'
  BY <1>1 DEF PromotionInv, Attempts, Ids
<1>3. \A thing \in Things : Right(thing)' <=> Right(thing)
  BY <1>1 DEF Right, Things
<1> QED BY <1>1, <1>2, <1>3

\* The job fails: it keeps nothing.
LEMMA FailsStep ==
  ASSUME PromotionInv, Alone, Fails
  PROVE  PromotionInv'
<1>1. UNCHANGED <<tag, release, assets, run, evidence, repo, held, outside>>
  BY DEF Alone, github
<1>2. /\ job' = [at |-> "failed", kind |-> "none", round |-> 0, raw |-> Made(1),
                 initial |-> NoSnapshot, again |-> NoSnapshot, stage |-> <<>>]
  BY DEF Fails, NoJob
<1>3. /\ DOMAIN job'.stage = {} /\ DOMAIN job'.initial.assets = {}
      /\ job'.stage = [f \in DOMAIN job'.stage |-> job'.raw.files[f]]
  <2>1. job'.stage = <<>> /\ job'.initial.assets = <<>>
    BY <1>2 DEF NoSnapshot
  <2>2. DOMAIN job'.stage = {} /\ DOMAIN job'.initial.assets = {}
    BY <2>1
  <2> QED BY <2>1, <2>2
<1>4. Shape' /\ Staged'
  BY <1>2, <1>3 DEF Shape, Staged, Manifests, IsSnapshot, NoSnapshot
<1>5. Attempts' /\ Ids'
  BY <1>1, <1>3 DEF PromotionInv, Attempts, Ids
<1> QED BY <1>2, <1>4, <1>5 DEF PromotionInv, FirstRound, Past, SecondRound

\* The job goes on, with what its new place asks for.
LEMMA GoStep ==
  ASSUME PromotionInv, Alone, NEW next, Go(next), job.round \in {1, 2},
         job.round = 1 => next \in Before \cup AfterManifest
                          /\ (next \in Before => job.at \in Before)
                          /\ (job.kind = "reuse" => next \in PlacesOfReuse),
         job.round = 2 => next \in Second,
         FirstRound', SecondRound'
  PROVE  PromotionInv'
<1>1. /\ job'.at = next /\ job'.kind = job.kind /\ job'.round = job.round /\ job'.raw = job.raw
      /\ job'.initial = job.initial /\ job'.again = job.again /\ job'.stage = job.stage
      /\ job' = [at |-> job'.at, kind |-> job'.kind, round |-> job'.round, raw |-> job'.raw,
                 initial |-> job'.initial, again |-> job'.again, stage |-> job'.stage]
  BY DEF Go, PromotionInv, Shape
<1>2. Attempts' /\ Ids'
  BY <1>1, AloneKeeps
<1>3. Shape'
  BY <1>1 DEF PromotionInv, Shape, IsSnapshot
<1>4. Staged'
  BY <1>1 DEF PromotionInv, Staged
<1> QED BY <1>2, <1>3, <1>4 DEF PromotionInv

\* The second round knows nothing new, the first no more than was so already.
LEMMA SamePast ==
  ASSUME PromotionInv, Alone, NEW next, Go(next)
  PROVE  /\ job'.at = next /\ job'.kind = job.kind /\ job'.round = job.round
         /\ job'.raw = job.raw /\ job'.initial = job.initial /\ job'.again = job.again
         /\ run' = run /\ held' = held
         /\ \A thing \in Things : Right(thing)' <=> Right(thing)
<1>1. /\ job'.at = next /\ job'.kind = job.kind /\ job'.round = job.round /\ job'.raw = job.raw
      /\ job'.initial = job.initial /\ job'.again = job.again
  BY DEF Go, PromotionInv, Shape
<1> QED BY <1>1, AloneKeeps

(* Reads that only let the job go on *)

(* Reads that only let the job go on *)

(* Reads that only let the job go on *)

LEMMA HeadStep ==
  ASSUME PromotionInv, CheckHead
  PROVE  PromotionInv'
<1> DEFINE next == IF job.round = 1 THEN "ref" ELSE "reused"
<1>1. job.at = "head" /\ Requires(repo["head"], next) /\ job.round \in {1, 2}
  BY DEF CheckHead, At, PromotionInv, Shape
<1>2. ASSUME repo["head"], Go(next), Alone PROVE FirstRound' /\ SecondRound'
  <2>1. FirstRound'
    BY <1>1, <1>2, SamePast DEF PromotionInv, FirstRound, Past, AfterManifest, Shape, PlacesOfReuse, Kinds, Second, AfterComparison
  <2>2. SecondRound'
    BY <1>1, <1>2, SamePast, RightOf DEF PromotionInv, SecondRound, Second, LateSecond, Things, Shape, Kinds, AfterComparison
  <2> QED BY <2>1, <2>2
<1>3. CASE repo["head"]
  BY <1>1, <1>2, <1>3, GoStep DEF Requires, Alone, Before, AfterManifest, Second, PlacesOfReuse, PromotionInv, Shape, Kinds, AfterComparison
<1>4. CASE ~(repo["head"])
  BY <1>1, <1>4, FailsStep DEF Requires, Alone
<1> QED BY <1>3, <1>4

LEMMA ReviewersStep ==
  ASSUME PromotionInv, RequireReviewers
  PROVE  PromotionInv'
<1> DEFINE next == IF job.round = 1 THEN "ref" ELSE "workflows"
<1>1. job.at = "reviewers" /\ Requires(repo["reviewers"], next) /\ job.round \in {1, 2}
  BY DEF RequireReviewers, At, PromotionInv, Shape
<1>2. ASSUME repo["reviewers"], Go(next), Alone PROVE FirstRound' /\ SecondRound'
  <2>1. FirstRound'
    BY <1>1, <1>2, SamePast DEF PromotionInv, FirstRound, Past, AfterManifest, Shape, PlacesOfReuse, Kinds, Second, AfterComparison
  <2>2. SecondRound'
    BY <1>1, <1>2, SamePast, RightOf DEF PromotionInv, SecondRound, Second, LateSecond, Things, Shape, Kinds, AfterComparison
  <2> QED BY <2>1, <2>2
<1>3. CASE repo["reviewers"]
  BY <1>1, <1>2, <1>3, GoStep DEF Requires, Alone, Before, AfterManifest, Second, PlacesOfReuse, PromotionInv, Shape, Kinds, AfterComparison
<1>4. CASE ~(repo["reviewers"])
  BY <1>1, <1>4, FailsStep DEF Requires, Alone
<1> QED BY <1>3, <1>4

LEMMA OrderStep ==
  ASSUME PromotionInv, CheckOrder
  PROVE  PromotionInv'
<1> DEFINE next == "run"
<1>1. job.at = "order" /\ Requires(repo["current"], next) /\ job.round \in {1, 2}
  BY DEF CheckOrder, At, PromotionInv, Shape
<1>2. ASSUME repo["current"], Go(next), Alone PROVE FirstRound' /\ SecondRound'
  <2>1. FirstRound'
    BY <1>1, <1>2, SamePast DEF PromotionInv, FirstRound, Past, AfterManifest, Shape, PlacesOfReuse, Kinds, Second, AfterComparison
  <2>2. SecondRound'
    BY <1>1, <1>2, SamePast, RightOf DEF PromotionInv, SecondRound, Second, LateSecond, Things, Shape, Kinds, AfterComparison
  <2> QED BY <2>1, <2>2
<1>3. CASE repo["current"]
  BY <1>1, <1>2, <1>3, GoStep DEF Requires, Alone, Before, AfterManifest, Second, PlacesOfReuse, PromotionInv, Shape, Kinds, AfterComparison
<1>4. CASE ~(repo["current"])
  BY <1>1, <1>4, FailsStep DEF Requires, Alone
<1> QED BY <1>3, <1>4

LEMMA RunStep ==
  ASSUME PromotionInv, ReadRun
  PROVE  PromotionInv'
<1> DEFINE next == IF job.round = 2 THEN "reviewers" ELSE IF job.kind = "reuse" THEN "evidence" ELSE "ancestry"
<1>1. job.at = "run" /\ Requires(job.initial.tag = job.raw.source /\ Qualifies(job.raw), next) /\ job.round \in {1, 2}
  BY DEF ReadRun, At, PromotionInv, Shape
<1>2. ASSUME job.initial.tag = job.raw.source /\ Qualifies(job.raw), Go(next), Alone PROVE FirstRound' /\ SecondRound'
  <2>1. FirstRound'
    BY <1>1, <1>2, SamePast DEF PromotionInv, FirstRound, Past, AfterManifest, Shape, PlacesOfReuse, Kinds, Second, AfterComparison
  <2>2. SecondRound'
    BY <1>1, <1>2, SamePast, RightOf DEF PromotionInv, SecondRound, Second, LateSecond, Things, Shape, Kinds, AfterComparison, Qualifies
  <2> QED BY <2>1, <2>2
<1>3. CASE job.initial.tag = job.raw.source /\ Qualifies(job.raw)
  BY <1>1, <1>2, <1>3, GoStep DEF Requires, Alone, Before, AfterManifest, Second, PlacesOfReuse, PromotionInv, Shape, Kinds, AfterComparison
<1>4. CASE ~(job.initial.tag = job.raw.source /\ Qualifies(job.raw))
  BY <1>1, <1>4, FailsStep DEF Requires, Alone
<1> QED BY <1>3, <1>4

LEMMA AncestryStep ==
  ASSUME PromotionInv, CheckAncestry
  PROVE  PromotionInv'
<1> DEFINE next == "evidence"
<1>1. job.at = "ancestry" /\ Requires(repo["ancestry"], next) /\ job.round \in {1, 2}
  BY DEF CheckAncestry, At, PromotionInv, Shape
<1>2. ASSUME repo["ancestry"], Go(next), Alone PROVE FirstRound' /\ SecondRound'
  <2>1. FirstRound'
    BY <1>1, <1>2, SamePast DEF PromotionInv, FirstRound, Past, AfterManifest, Shape, PlacesOfReuse, Kinds, Second, AfterComparison
  <2>2. SecondRound'
    BY <1>1, <1>2, SamePast, RightOf DEF PromotionInv, SecondRound, Second, LateSecond, Things, Shape, Kinds, AfterComparison
  <2> QED BY <2>1, <2>2
<1>3. CASE repo["ancestry"]
  BY <1>1, <1>2, <1>3, GoStep DEF Requires, Alone, Before, AfterManifest, Second, PlacesOfReuse, PromotionInv, Shape, Kinds, AfterComparison
<1>4. CASE ~(repo["ancestry"])
  BY <1>1, <1>4, FailsStep DEF Requires, Alone
<1> QED BY <1>3, <1>4

LEMMA EvidenceStep ==
  ASSUME PromotionInv, VerifyEvidence
  PROVE  PromotionInv'
<1> DEFINE next == CASE job.kind = "promote" -> "absent" [] job.kind = "final" -> "inventory" [] job.kind = "reuse" -> "download"
<1>1. job.at = "evidence" /\ Requires(Proves(job.raw), next) /\ job.round \in {1, 2}
  BY DEF VerifyEvidence, At, PromotionInv, Shape
<1>2. ASSUME Proves(job.raw), Go(next), Alone PROVE FirstRound' /\ SecondRound'
  <2>1. FirstRound'
    BY <1>1, <1>2, SamePast DEF PromotionInv, FirstRound, Past, AfterManifest, Shape, PlacesOfReuse, Kinds, Second, AfterComparison, Attempts, Proves
  <2>2. SecondRound'
    BY <1>1, <1>2, SamePast, RightOf DEF PromotionInv, SecondRound, Second, LateSecond, Things, Shape, Kinds, AfterComparison
  <2> QED BY <2>1, <2>2
<1>3. CASE Proves(job.raw)
  BY <1>1, <1>2, <1>3, GoStep DEF Requires, Alone, Before, AfterManifest, Second, PlacesOfReuse, PromotionInv, Shape, Kinds, AfterComparison
<1>4. CASE ~(Proves(job.raw))
  BY <1>1, <1>4, FailsStep DEF Requires, Alone
<1> QED BY <1>3, <1>4

LEMMA AbsentStep ==
  ASSUME PromotionInv, EnsureAbsent
  PROVE  PromotionInv'
<1> DEFINE next == "inventory"
<1>1. job.at = "absent" /\ Requires(repo["absent"], next) /\ job.round \in {1, 2}
  BY DEF EnsureAbsent, At, PromotionInv, Shape
<1>2. ASSUME repo["absent"], Go(next), Alone PROVE FirstRound' /\ SecondRound'
  <2>1. FirstRound'
    BY <1>1, <1>2, SamePast DEF PromotionInv, FirstRound, Past, AfterManifest, Shape, PlacesOfReuse, Kinds, Second, AfterComparison
  <2>2. SecondRound'
    BY <1>1, <1>2, SamePast, RightOf DEF PromotionInv, SecondRound, Second, LateSecond, Things, Shape, Kinds, AfterComparison
  <2> QED BY <2>1, <2>2
<1>3. CASE repo["absent"]
  BY <1>1, <1>2, <1>3, GoStep DEF Requires, Alone, Before, AfterManifest, Second, PlacesOfReuse, PromotionInv, Shape, Kinds, AfterComparison
<1>4. CASE ~(repo["absent"])
  BY <1>1, <1>4, FailsStep DEF Requires, Alone
<1> QED BY <1>3, <1>4

LEMMA InventoryStep ==
  ASSUME PromotionInv, CheckInventory
  PROVE  PromotionInv'
<1> DEFINE next == IF job.kind = "final" THEN "download" ELSE "workflows"
<1>1. job.at = "inventory" /\ Requires(Inventoried, next) /\ job.round \in {1, 2} /\ job.kind # "reuse"
  BY DEF CheckInventory, At, PromotionInv, Shape
<1>2. ASSUME Inventoried, Go(next), Alone PROVE FirstRound' /\ SecondRound'
  <2>1. FirstRound'
    BY <1>1, <1>2, SamePast, FilesOfManifests DEF PromotionInv, FirstRound, Past, AfterManifest, Shape, PlacesOfReuse, Kinds, Second, AfterComparison, Inventoried, Names
  <2>2. SecondRound'
    BY <1>1, <1>2, SamePast, RightOf DEF PromotionInv, SecondRound, Second, LateSecond, Things, Shape, Kinds, AfterComparison
  <2> QED BY <2>1, <2>2
<1>3. CASE Inventoried
  BY <1>1, <1>2, <1>3, GoStep DEF Requires, Alone, Before, AfterManifest, Second, PlacesOfReuse, PromotionInv, Shape, Kinds, AfterComparison
<1>4. CASE ~(Inventoried)
  BY <1>1, <1>4, FailsStep DEF Requires, Alone
<1> QED BY <1>3, <1>4

LEMMA WorkflowsStep ==
  ASSUME PromotionInv, CheckWorkflows
  PROVE  PromotionInv'
<1> DEFINE next == IF job.round = 1 THEN "download" ELSE "begin"
<1>1. job.at = "workflows" /\ Requires(repo["workflows"], next) /\ job.round \in {1, 2}
  BY DEF CheckWorkflows, At, PromotionInv, Shape
<1>2. ASSUME repo["workflows"], Go(next), Alone PROVE FirstRound' /\ SecondRound'
  <2>1. FirstRound'
    BY <1>1, <1>2, SamePast DEF PromotionInv, FirstRound, Past, AfterManifest, Shape, PlacesOfReuse, Kinds, Second, AfterComparison
  <2>2. SecondRound'
    BY <1>1, <1>2, SamePast, RightOf DEF PromotionInv, SecondRound, Second, LateSecond, Things, Shape, Kinds, AfterComparison
  <2> QED BY <2>1, <2>2
<1>3. CASE repo["workflows"]
  BY <1>1, <1>2, <1>3, GoStep DEF Requires, Alone, Before, AfterManifest, Second, PlacesOfReuse, PromotionInv, Shape, Kinds, AfterComparison
<1>4. CASE ~(repo["workflows"])
  BY <1>1, <1>4, FailsStep DEF Requires, Alone
<1> QED BY <1>3, <1>4

LEMMA CompareStep ==
  ASSUME PromotionInv, CompareSnapshots
  PROVE  PromotionInv'
<1> DEFINE next == AfterComparison
<1>1. /\ job.at = "compare" /\ Requires(Same(job.initial, job.again), next)
      /\ job.round = 2 /\ job.kind \in Kinds
  BY DEF CompareSnapshots, At, PromotionInv, Shape, Before, AfterManifest
<1>2. next \in {"run", "verified", "head"}
  BY <1>1 DEF Kinds, AfterComparison
<1>3. ASSUME Same(job.initial, job.again), Go(next), Alone PROVE FirstRound' /\ SecondRound'
  <2>1. FirstRound'
    BY <1>1, <1>3, SamePast DEF PromotionInv, FirstRound, Past
  <2>2. job.initial.tag = job.raw.source /\ job.again = job.initial
    BY <1>1, <1>3 DEF PromotionInv, FirstRound, Past, Same
  <2>3. {"tag", "release", "assets"} \subseteq held
    BY <1>1, <2>2 DEF PromotionInv, SecondRound, Second
  <2>4. SecondRound'
    BY <1>1, <1>2, <1>3, <2>3, SamePast DEF PromotionInv, SecondRound, Second
  <2> QED BY <2>1, <2>4
<1>4. CASE Same(job.initial, job.again)
  BY <1>1, <1>2, <1>3, <1>4, GoStep DEF Requires, Alone, Second
<1>5. CASE ~Same(job.initial, job.again)
  BY <1>1, <1>5, FailsStep DEF Requires, Alone
<1> QED BY <1>4, <1>5

LEMMA BeginStep ==
  ASSUME PromotionInv, Begin
  PROVE  PromotionInv'
<1> DEFINE next == "promoted"
<1>1. job.at = "begin" /\ Requires(repo["current"], next) /\ job.round \in {1, 2}
  BY DEF Begin, At, PromotionInv, Shape
<1>2. ASSUME repo["current"], Go(next), Alone PROVE FirstRound' /\ SecondRound'
  <2>1. FirstRound'
    BY <1>1, <1>2, SamePast DEF PromotionInv, FirstRound, Past, AfterManifest, Shape, PlacesOfReuse, Kinds, Second, AfterComparison
  <2>2. SecondRound'
    BY <1>1, <1>2, SamePast, RightOf DEF PromotionInv, SecondRound, Second, LateSecond, Things, Shape, Kinds, AfterComparison
  <2> QED BY <2>1, <2>2
<1>3. CASE repo["current"]
  BY <1>1, <1>2, <1>3, GoStep DEF Requires, Alone, Before, AfterManifest, Second, PlacesOfReuse, PromotionInv, Shape, Kinds, AfterComparison
<1>4. CASE ~(repo["current"])
  BY <1>1, <1>4, FailsStep DEF Requires, Alone
<1> QED BY <1>3, <1>4

-----------------------------------------------------------------------------
(* Reads that the job keeps something of *)

LEMMA StartStep ==
  ASSUME PromotionInv, NEW kind \in Kinds, Start(kind)
  PROVE  PromotionInv'
<1>1. job.at = "none" /\ job.round = 0 /\ Alone
  BY DEF Start, At, Alone, PromotionInv, Shape, Before, AfterManifest, Second
<1>2. /\ job' = [at |-> job'.at, kind |-> kind, round |-> 1, raw |-> job.raw,
                 initial |-> job.initial, again |-> job.again, stage |-> job.stage]
      /\ job'.at \in {"reviewers", "ref", "head"} /\ (kind = "reuse" => job'.at = "head")
  BY DEF Start, PromotionInv, Shape, Kinds
<1>3. Attempts' /\ Ids'
  BY <1>1, <1>2, AloneKeeps
<1>4. Shape'
  BY <1>2 DEF PromotionInv, Shape, Before, PlacesOfReuse
<1>5. Staged'
  BY <1>1, <1>2 DEF PromotionInv, Staged
<1>6. FirstRound' /\ SecondRound'
  BY <1>2 DEF FirstRound, SecondRound, Past, AfterManifest
<1> QED BY <1>3, <1>4, <1>5, <1>6 DEF PromotionInv

\* A field of a snapshot is read.
LEMMA SnapFields ==
  ASSUME PromotionInv, job.round \in {1, 2},
         NEW field \in {"tag", "release", "assets"}, NEW value, NEW next,
         job' = [Snap(field, value) EXCEPT !.at = next]
  PROVE  /\ job'.at = next /\ job'.kind = job.kind /\ job'.round = job.round
         /\ job'.raw = job.raw /\ job'.stage = job.stage
         /\ job'.initial = IF job.round = 1 THEN [job.initial EXCEPT ![field] = value] ELSE job.initial
         /\ job'.again = IF job.round = 2 THEN [job.again EXCEPT ![field] = value] ELSE job.again
         /\ job' = [at |-> job'.at, kind |-> job'.kind, round |-> job'.round, raw |-> job'.raw,
                    initial |-> job'.initial, again |-> job'.again, stage |-> job'.stage]
         /\ IsSnapshot(job'.initial) /\ IsSnapshot(job'.again)
<1>1. /\ job = [at |-> job.at, kind |-> job.kind, round |-> job.round, raw |-> job.raw,
                initial |-> job.initial, again |-> job.again, stage |-> job.stage]
      /\ IsSnapshot(job.initial) /\ IsSnapshot(job.again)
  BY DEF PromotionInv, Shape
<1>2. CASE job.round = 1
  <2> DEFINE new == [job.initial EXCEPT ![field] = value]
  <2>1. job' = [job EXCEPT !.initial = new, !.at = next]
    BY <1>2 DEF Snap
  <2>2. IsSnapshot(new)
    BY <1>1 DEF IsSnapshot
  <2> HIDE DEF new
  <2>3. /\ job'.at = next /\ job'.kind = job.kind /\ job'.round = job.round
        /\ job'.raw = job.raw /\ job'.stage = job.stage
        /\ job'.initial = new /\ job'.again = job.again
        /\ job' = [at |-> job'.at, kind |-> job'.kind, round |-> job'.round, raw |-> job'.raw,
                   initial |-> job'.initial, again |-> job'.again, stage |-> job'.stage]
    BY <1>1, <2>1
  <2> QED BY <1>1, <1>2, <2>2, <2>3 DEF new
<1>3. CASE job.round = 2
  <2> DEFINE new == [job.again EXCEPT ![field] = value]
  <2>1. job' = [job EXCEPT !.again = new, !.at = next]
    BY <1>3 DEF Snap
  <2>2. IsSnapshot(new)
    BY <1>1 DEF IsSnapshot
  <2> HIDE DEF new
  <2>3. /\ job'.at = next /\ job'.kind = job.kind /\ job'.round = job.round
        /\ job'.raw = job.raw /\ job'.stage = job.stage
        /\ job'.again = new /\ job'.initial = job.initial
        /\ job' = [at |-> job'.at, kind |-> job'.kind, round |-> job'.round, raw |-> job'.raw,
                   initial |-> job'.initial, again |-> job'.again, stage |-> job'.stage]
    BY <1>1, <2>1
  <2> QED BY <1>1, <1>3, <2>2, <2>3 DEF new
<1> QED BY <1>2, <1>3

LEMMA SnapStep ==
  ASSUME PromotionInv, Alone, job.round \in {1, 2}, job.at \in {"ref", "release", "assets"},
         NEW field \in {"tag", "release", "assets"}, NEW value, NEW next,
         job' = [Snap(field, value) EXCEPT !.at = next],
         job.round = 1 => next \in {"release", "assets", "manifest"},
         job.round = 2 => next \in Second,
         field = "assets" => value = assets,
         next = "manifest" => field = "assets" /\ MANIFEST \in DOMAIN assets,
         job.round = 2 /\ job'.again = [job.again EXCEPT ![field] = value] => SecondRound'
  PROVE  PromotionInv'
<1>1. /\ job'.at = next /\ job'.kind = job.kind /\ job'.round = job.round
      /\ job'.raw = job.raw /\ job'.stage = job.stage
      /\ job'.initial = IF job.round = 1 THEN [job.initial EXCEPT ![field] = value] ELSE job.initial
      /\ job'.again = IF job.round = 2 THEN [job.again EXCEPT ![field] = value] ELSE job.again
      /\ job' = [at |-> job'.at, kind |-> job'.kind, round |-> job'.round, raw |-> job'.raw,
                 initial |-> job'.initial, again |-> job'.again, stage |-> job'.stage]
      /\ IsSnapshot(job'.initial) /\ IsSnapshot(job'.again)
  BY SnapFields
<1>2. Shape'
  BY <1>1 DEF PromotionInv, Shape, Before, PlacesOfReuse, IsSnapshot
<1>3. UNCHANGED <<tag, release, assets, run, evidence, repo, held, outside>>
  BY DEF Alone, github
<1>4. Attempts'
  BY <1>3 DEF PromotionInv, Attempts
<1>5. CASE job.round = 1
  <2>1. job'.initial.assets = job.initial.assets \/ job'.initial.assets = assets
    BY <1>1, <1>5 DEF PromotionInv, Shape, IsSnapshot
  <2>2. Ids'
    BY <1>3, <2>1 DEF PromotionInv, Ids
  <2>3. DOMAIN job.stage = {} /\ job'.at \in Before
    BY <1>1, <1>5 DEF PromotionInv, Staged, Before
  <2>4. Staged'
    BY <1>1, <1>5, <2>3 DEF PromotionInv, Staged
  <2>5. next = "manifest" => MANIFEST \in DOMAIN job'.initial.assets
    BY <1>1, <1>5 DEF PromotionInv, Shape, IsSnapshot
  <2>6. FirstRound' /\ SecondRound'
    BY <1>1, <1>5, <2>5 DEF FirstRound, SecondRound, Past, AfterManifest
  <2> QED BY <1>2, <1>4, <2>2, <2>4, <2>6 DEF PromotionInv
<1>6. CASE job.round = 2
  <2>1. Ids'
    BY <1>1, <1>3, <1>6 DEF PromotionInv, Ids
  <2>2. Staged'
    BY <1>1, <1>6 DEF PromotionInv, Staged
  <2>3. FirstRound'
    BY <1>1, <1>3, <1>6 DEF PromotionInv, FirstRound, Past
  <2> QED BY <1>1, <1>2, <1>4, <1>6, <2>1, <2>2, <2>3 DEF PromotionInv
<1> QED BY <1>5, <1>6

LEMMA SnapRightSame ==
  ASSUME PromotionInv, Alone, job.round = 2,
         NEW field \in {"tag", "release", "assets"}, NEW value, NEW next,
         job' = [Snap(field, value) EXCEPT !.at = next]
  PROVE  /\ job'.at = next /\ job'.round = 2 /\ job'.raw = job.raw /\ job'.initial = job.initial
         /\ held' = held /\ \A thing \in Things : Right(thing)' <=> Right(thing)
<1>1. /\ job'.at = next /\ job'.kind = job.kind /\ job'.round = job.round
      /\ job'.raw = job.raw /\ job'.stage = job.stage
      /\ job'.initial = IF job.round = 1 THEN [job.initial EXCEPT ![field] = value] ELSE job.initial
      /\ job'.again = IF job.round = 2 THEN [job.again EXCEPT ![field] = value] ELSE job.again
  BY SnapFields
<1>2. job'.at = next /\ job'.round = 2 /\ job'.raw = job.raw /\ job'.initial = job.initial
  BY <1>1
<1> QED BY <1>2, AloneKeeps

LEMMA RefStep ==
  ASSUME PromotionInv, ReadRef
  PROVE  PromotionInv'
<1>1. job.at = "ref" /\ Alone /\ job.round \in {1, 2}
  BY DEF ReadRef, At, Alone, PromotionInv, Shape
<1>2. CASE Fails
  BY <1>1, <1>2, FailsStep
<1>3. CASE job' = [Snap("tag", tag) EXCEPT !.at = "release"]
  <2>1. ASSUME job.round = 2, job'.again = [job.again EXCEPT !["tag"] = tag] PROVE SecondRound'
    <3>1. job'.again.tag = tag
      BY <2>1 DEF PromotionInv, Shape, IsSnapshot
    <3> QED BY <1>1, <1>3, <2>1, <3>1, SnapRightSame, RightOf
         DEF PromotionInv, SecondRound, Second, LateSecond, Things
  <2> QED BY <1>1, <1>3, <2>1, SnapStep DEF Second
<1> QED BY <1>2, <1>3 DEF ReadRef

LEMMA ReleaseStep ==
  ASSUME PromotionInv, ReadRelease
  PROVE  PromotionInv'
<1>1. job.at = "release" /\ Alone /\ job.round \in {1, 2}
  BY DEF ReadRelease, At, Alone, PromotionInv, Shape
<1>2. CASE Fails
  BY <1>1, <1>2, FailsStep
<1>3. CASE job' = [Snap("release", release) EXCEPT !.at = "assets"]
  <2>1. ASSUME job.round = 2, job'.again = [job.again EXCEPT !["release"] = release]
        PROVE  SecondRound'
    <3>1. job'.again.release = release /\ job'.again.tag = job.again.tag
      BY <2>1 DEF PromotionInv, Shape, IsSnapshot
    <3> QED BY <1>1, <1>3, <2>1, <3>1, SnapRightSame, RightOf
         DEF PromotionInv, SecondRound, Second, LateSecond, Things
  <2> QED BY <1>1, <1>3, <2>1, SnapStep DEF Second
<1> QED BY <1>2, <1>3 DEF ReadRelease

LEMMA AssetsStep ==
  ASSUME PromotionInv, ListAssets
  PROVE  PromotionInv'
<1> DEFINE next == IF job.round = 1 THEN "manifest" ELSE "compare"
<1>1. job.at = "assets" /\ Alone /\ job.round \in {1, 2}
  BY DEF ListAssets, At, Alone, PromotionInv, Shape
<1>2. CASE Fails
  BY <1>1, <1>2, FailsStep
<1>3. CASE job' = [Snap("assets", assets) EXCEPT !.at = next]
  <2>1. ASSUME job.round = 2, job'.again = [job.again EXCEPT !["assets"] = assets]
        PROVE  SecondRound'
    <3>1. /\ job'.again.assets = assets /\ job'.again.tag = job.again.tag
          /\ job'.again.release = job.again.release
      BY <2>1 DEF PromotionInv, Shape, IsSnapshot
    <3>2. assets = job.initial.assets => Right("assets")
      <4>1. /\ DOMAIN job.initial.assets = Names /\ job.initial.assets[MANIFEST].content = job.raw
            /\ \A f \in Files : job.initial.assets[f].content = job.raw.files[f]
        BY <2>1 DEF PromotionInv, FirstRound, Past, Staged
      <4> QED BY <4>1, RightOf
    <3>3. assets = job.initial.assets => "assets" \in held
      BY <2>1, <3>2 DEF PromotionInv, SecondRound, Things
    <3>4. /\ job'.at = "compare" /\ job'.round = 2 /\ job'.raw = job.raw
          /\ job'.initial = job.initial /\ held' = held
          /\ \A thing \in Things : Right(thing)' <=> Right(thing)
      <4>1. job' = [Snap("assets", assets) EXCEPT !.at = "compare"]
        BY <1>3, <2>1
      <4> QED BY <1>1, <2>1, <4>1, SnapRightSame
    <3> QED BY <1>1, <2>1, <3>1, <3>3, <3>4 DEF PromotionInv, SecondRound, Second, LateSecond
  <2>2. MANIFEST \in DOMAIN assets \/ Fails
    BY DEF ListAssets
  <2>3. CASE MANIFEST \in DOMAIN assets
    BY <1>1, <1>3, <2>1, <2>3, SnapStep DEF Second
  <2> QED BY <1>2, <2>2, <2>3
<1> QED BY <1>2, <1>3 DEF ListAssets

LEMMA ManifestStep ==
  ASSUME PromotionInv, ReadManifest
  PROVE  PromotionInv'
<1>1. job.at = "manifest" /\ job.round = 1 /\ Alone /\ job.kind \in Kinds
  BY DEF ReadManifest, At, Alone, PromotionInv, Shape, Second
<1>2. CASE Fails
  BY <1>1, <1>2, FailsStep
<1> DEFINE next == CASE job.kind = "promote" -> "order"
                     [] job.kind = "final" -> "run"
                     [] job.kind = "reuse" -> "inventory"
<1>3. ASSUME Stored(MANIFEST),
             job' = [job EXCEPT !.raw = assets[MANIFEST].content, !.at = next]
      PROVE  PromotionInv'
  <2>1. /\ job' = [at |-> next, kind |-> job.kind, round |-> 1,
                   raw |-> assets[MANIFEST].content,
                   initial |-> job.initial, again |-> job.again, stage |-> job.stage]
        /\ next \in {"order", "run", "inventory"} /\ (job.kind = "reuse" <=> next = "inventory")
    BY <1>1, <1>3 DEF PromotionInv, Shape, Kinds
  <2>2. MANIFEST \in DOMAIN job.initial.assets /\ MANIFEST \in DOMAIN assets
        /\ job.initial.assets[MANIFEST].content = assets[MANIFEST].content
        /\ assets[MANIFEST].content \in Manifests
    BY <1>1, <1>3 DEF PromotionInv, FirstRound, Stored, Ids
  <2>3. UNCHANGED <<tag, release, assets, run, evidence, repo, held, outside>>
    BY <1>1 DEF Alone, github
  <2> HIDE DEF next
  <2>4. Shape'
    <3>1. /\ job'.at = next /\ job'.kind = job.kind /\ job'.round = 1 /\ job'.raw \in Manifests
          /\ job'.initial = job.initial /\ job'.again = job.again
          /\ job' = [at |-> job'.at, kind |-> job'.kind, round |-> job'.round, raw |-> job'.raw,
                     initial |-> job'.initial, again |-> job'.again, stage |-> job'.stage]
      BY <2>1, <2>2
    <3> QED BY <1>1, <2>1, <3>1 DEF PromotionInv, Shape, AfterManifest, PlacesOfReuse
  <2>5. Attempts' /\ Ids'
    BY <2>1, <2>3 DEF PromotionInv, Attempts, Ids
  <2>6. job.stage = [f \in {} |-> job.raw.files[f]] /\ DOMAIN job.stage = {}
    BY <1>1 DEF PromotionInv, Staged, Before
  <2>7. job.stage = [f \in DOMAIN job.stage |-> job'.raw.files[f]]
    BY <2>6
  <2>8. Staged'
    BY <2>1, <2>6, <2>7 DEF Staged
  <2>9. FirstRound' /\ SecondRound'
    BY <1>1, <2>1, <2>2 DEF FirstRound, SecondRound, Past, AfterManifest
  <2> QED BY <2>4, <2>5, <2>8, <2>9 DEF PromotionInv
<1> QED BY <1>2, <1>3 DEF ReadManifest

LEMMA ListedStep ==
  ASSUME PromotionInv, CheckListed
  PROVE  PromotionInv'
<1>1. job.at = "inventory" /\ job.round = 1 /\ Alone /\ job.kind = "reuse"
  BY DEF CheckListed, At, Alone, PromotionInv, Shape, Second
<1>2. CASE Fails
  BY <1>1, <1>2, FailsStep
<1>3. ASSUME Inventoried, \A name \in Files : Matches(name, job.initial.assets[name].content),
             job' = [job EXCEPT !.at = "run",
                                !.stage = [f \in Files |-> job.initial.assets[f].content]]
      PROVE  PromotionInv'
  <2>1. job' = [at |-> "run", kind |-> job.kind, round |-> 1, raw |-> job.raw,
                initial |-> job.initial, again |-> job.again,
                stage |-> [f \in Files |-> job.initial.assets[f].content]]
    BY <1>1, <1>3 DEF PromotionInv, Shape
  <2>2. DOMAIN job.initial.assets = Names
    BY <1>3, FilesOfManifests DEF Inventoried, PromotionInv, Shape, Names
  <2>3. \A f \in Files : job.initial.assets[f].content = job.raw.files[f]
    BY <1>3 DEF Matches
  <2>4. job'.stage = [f \in Files |-> job.raw.files[f]] /\ DOMAIN job'.stage = Files
    BY <2>1, <2>3
  <2>5. Shape'
    BY <1>1, <2>1 DEF PromotionInv, Shape, AfterManifest, PlacesOfReuse
  <2>6. Attempts' /\ Ids'
    BY <1>1, <2>1, AloneKeeps
  <2>7. Staged'
    BY <2>1, <2>2, <2>3, <2>4 DEF Staged, Names, Before
  <2>8. FirstRound' /\ SecondRound'
    BY <1>1, <2>1, <2>2 DEF PromotionInv, FirstRound, SecondRound, Past, AfterManifest
  <2> QED BY <2>5, <2>6, <2>7, <2>8 DEF PromotionInv
<1> QED BY <1>1, <1>2, <1>3 DEF CheckListed

LEMMA DownloadStep ==
  ASSUME PromotionInv, NEW name \in Files, Download(name)
  PROVE  PromotionInv'
<1>1. job.at = "download" /\ job.round = 1 /\ Alone
  BY DEF Download, At, Alone, PromotionInv, Shape, Second
<1>2. CASE Fails
  BY <1>1, <1>2, FailsStep
<1> DEFINE stage == [n \in DOMAIN job.stage \cup {name} |->
                       IF n = name THEN assets[name].content ELSE job.stage[n]]
<1>3. ASSUME Stored(name), Matches(name, assets[name].content),
             job' = [job EXCEPT !.stage = stage]
      PROVE  PromotionInv'
  <2>1. DOMAIN job.initial.assets = Names
    BY <1>1 DEF PromotionInv, FirstRound, Past
  <2>2. /\ job.initial.assets[name].content = job.raw.files[name]
        /\ assets[name].content = job.raw.files[name]
    BY <1>3, <2>1 DEF PromotionInv, Ids, Stored, Matches, Names
  <2>3. \A n \in DOMAIN job.stage : job.stage[n] = job.raw.files[n]
    BY DEF PromotionInv, Staged
  <2>4. /\ stage = [n \in DOMAIN job.stage \cup {name} |-> job.raw.files[n]]
        /\ DOMAIN stage = DOMAIN job.stage \cup {name}
    BY <2>2, <2>3
  <2> HIDE DEF stage
  <2>5. job' = [at |-> job.at, kind |-> job.kind, round |-> 1, raw |-> job.raw,
                initial |-> job.initial, again |-> job.again, stage |-> stage]
    BY <1>1, <1>3 DEF PromotionInv, Shape
  <2>6. Shape'
    BY <1>1, <2>5 DEF PromotionInv, Shape
  <2>7. Attempts' /\ Ids'
    BY <1>1, <2>5, AloneKeeps
  <2>8. Staged'
    BY <1>1, <2>1, <2>2, <2>4, <2>5 DEF PromotionInv, Staged, Names, Before
  <2>9. run' = run
    BY <1>1 DEF Alone, github
  <2>10. FirstRound' /\ SecondRound'
    BY <1>1, <2>5, <2>9 DEF PromotionInv, FirstRound, SecondRound, Past
  <2> QED BY <2>6, <2>7, <2>8, <2>10 DEF PromotionInv
<1> QED BY <1>1, <1>2, <1>3 DEF Download

LEMMA DownloadedStep ==
  ASSUME PromotionInv, Downloaded
  PROVE  PromotionInv'
<1>1. /\ job.at = "download" /\ job.round = 1 /\ job.kind \in Kinds
      /\ UNCHANGED <<tag, release, assets, run, evidence, repo, outside>>
      /\ held' = {thing \in Things : Right(thing)}
      /\ DOMAIN job.stage = Files
  BY FilesOfManifests DEF Downloaded, At, github, PromotionInv, Shape, Second
<1>2. job' = [at |-> "ref", kind |-> job.kind, round |-> 2, raw |-> job.raw,
              initial |-> job.initial, again |-> job.again, stage |-> job.stage]
  BY DEF Downloaded, PromotionInv, Shape
<1>3. Shape'
  BY <1>1, <1>2 DEF PromotionInv, Shape, Second
<1>4. Attempts' /\ Ids'
  BY <1>1, <1>2 DEF PromotionInv, Attempts, Ids
<1>5. Staged'
  BY <1>1, <1>2 DEF PromotionInv, Staged
<1>6. FirstRound'
  BY <1>1, <1>2 DEF PromotionInv, FirstRound, Past, AfterManifest, Kinds
<1>7. \A thing \in Things : Right(thing)' <=> Right(thing)
  BY <1>1, <1>2 DEF Right, Things
<1>8. SecondRound'
  BY <1>1, <1>2, <1>7 DEF SecondRound, Second, LateSecond
<1> QED BY <1>3, <1>4, <1>5, <1>6, <1>8 DEF PromotionInv

-----------------------------------------------------------------------------
(* The theorems *)

LEMMA PromotionStep ==
  ASSUME PromotionInv, [Next]_vars
  PROVE  PromotionInv'
<1>1. CASE UNCHANGED vars
  <2>1. /\ UNCHANGED <<tag, release, assets, run, evidence, repo, held, outside, job>>
        /\ \A thing \in Things : Right(thing)' <=> Right(thing)
    BY <1>1 DEF vars, github, Right, Things
  <2>2. Shape' /\ Attempts' /\ Ids'
    BY <2>1 DEF PromotionInv, Shape, Attempts, Ids
  <2>3. FirstRound' /\ Staged'
    BY <2>1 DEF PromotionInv, FirstRound, Past, Staged
  <2>4. SecondRound'
    BY <2>1 DEF PromotionInv, SecondRound
  <2> QED BY <2>2, <2>3, <2>4 DEF PromotionInv
<1>2. ASSUME NEW kind \in Kinds, Start(kind) PROVE PromotionInv'
  BY <1>2, StartStep
<1>3. CASE ReadFails
  BY <1>3, FailsStep DEF ReadFails, Alone
<1>4. CASE Steps /\ ~ReadFails
  BY <1>4, HeadStep, ReviewersStep, RefStep, ReleaseStep, AssetsStep, ManifestStep, OrderStep,
     RunStep, AncestryStep, EvidenceStep, AbsentStep, InventoryStep, ListedStep, WorkflowsStep,
     DownloadStep, DownloadedStep, CompareStep, BeginStep
     DEF Steps, ReuseSteps
<1>5. CASE Others
  BY <1>5, OthersStep
<1> QED BY <1>1, <1>2, <1>3, <1>4, <1>5 DEF Next, Steps

LEMMA PromotionInvariant == Spec => []PromotionInv
<1>1. Init => PromotionInv
  BY PromotionAssumption, PromotionInit
<1>2. PromotionInv /\ [Next]_vars => PromotionInv'
  BY PromotionStep
<1> QED BY <1>1, <1>2, PTL DEF Spec

\* Whatever is uploaded or replaced, what is promoted, built upon or reused is what one
\* attempt of the candidate's run made.
THEOREM PromotedAsMade == Spec => []AcceptedBytes
<1>1. PromotionInv => AcceptedBytes
  BY PromotionSafe
<1> QED BY <1>1, PromotionInvariant, PTL

\* Whatever changes during the downloads, nothing that has passed rests on what was
\* known before.
THEOREM PromotedAfresh == Spec => []KnownAfresh
<1>1. PromotionInv => KnownAfresh
  BY PromotionSafe
<1> QED BY <1>1, PromotionInvariant, PTL
===============================================================================
