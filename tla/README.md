# TLA+ models of ottplay-swop

ottplay-swop hands one piece of text from a phone to a TV player. The player asks
the Cloudflare Worker for a short code, a person opens the form with the code (or
the QR link) and submits a text, and the player polls until it is handed the text,
once. The repository also carries the tools that version, build and publish its
releases. This directory holds TLA+ models of both, the TLC configurations that check
them on small instances, and TLAPS proofs about the session objects, the Worker's
requests, the relay, the version ledger, the release gate, builds, version pull
requests and promotions.

Source paths below are relative to the repository root.

## 1. Inventory

### The service

**Session object** (`src/session.ts`). A Durable Object per short code.
*State*: one stored record (`waiting`, `ready` or `consumed`, owner, installation,
three hashed capabilities, a count of wrong manual codes, the value, a deadline) and
the time of one alarm. *Operations*: `/create`, `/form`, `/submit`, `/consume`, each
in one storage transaction, and `alarm()`. *Called by* the front Worker only.
*Hard*: players, phones and stale requests of an earlier tenant of the code race;
deadlines are honoured lazily (a record past its deadline is still stored); an alarm
can be queued for a record that has been replaced or extended since. *Correct when*
a value is handed over at most once, to its owner; the first submission wins; a code
is not reused before its session's deadline; the lockout of the manual code neither
leaks nor closes the QR path; records live exactly as long as they should.

**Front Worker, sessions** (`src/index.ts` 353-448, dispatcher 552-633). *State*: the
locals of each request. *Operations*: create a session (a loop over random codes),
show the form, submit, read. *Calls* the session object, a rate limiter, the
installation check and the allowlist. *Hard*: the call to the object and its answer
are separate events; an answer may be lost after the object has acted; a code may be
occupied. *Correct when* a request makes at most one session, the codes it issues
agree with each other and with the session, the phone told that it succeeded is the
one whose value the player gets, and every request ends.

**Front Worker, allowlist** (`src/index.ts` 450-550). *State*: `allow:` keys in
Workers KV. *Operations*: add, delete and list clients. *Hard*: KV is eventually
consistent, a delete reads before it deletes, a listing is a sequence of pages read
in batches while the keys change. *Correct when* an answer that was not disputed by an
overlapping request can be relied on and a listing neither repeats nor hides a client.

**VPortal relay** (`src/vportal.ts`). *State*: one counter per isolate, a timer and an
upstream call per request. *Operations*: admit, relay, time out, release. *Hard*: a
request waits three times and others run in between; the deadline races the upstream.
*Correct when* the counter is exactly the number of relays on every way out, nobody
without credentials takes a place, `timeout` is told when it is true, places return.

**Installation authentication** (`src/installation-auth.ts`). No state. Decides from
configuration, token, Origin, Referer and Sec-Fetch-Site whether a request speaks for
an installation. **Wire contract** (`src/wire-contracts.ts`): generated constants and
validators.

### The release tools

Several of these scripts are headed "Vendored release toolkit": they are kept
in the repository, changed there (`docs/release-read-safety.md` describes a partial
backport) and tested by `.github/release-tests`. They are modelled as part of this program.

**Version plans** (`scripts/version_plan.py`, `scripts/release_version_adapter.py`).
*State*: the version files of a checkout and the evidence the `sync` command leaves.
*Operations*: validate a plan and a policy, project the plan onto each declared field,
verify the checkout, edit, replace, record. *Hard*: files are replaced one by one, may be
edited by others at any moment, and the command may be killed half way. *Correct when* no
edit that could be seen is written over, and a killed command can be repeated.

**Version pull request** (`scripts/prepare_version.py`). *State*: `main`, one branch per
version, pull requests and tags, all on GitHub. *Operations*: fetch, choose a version, look
for an earlier proposal, rebuild, push, open. *Hard*: each is a request of its own while
people edit and merge, runs overlap, and any may stop. *Correct when* no push and no merge
undoes work or lowers a version, and what one run leaves the next can take up.

**Build receipts** (`scripts/check-release-version.py`, `stage_release_assets.py`,
`version_receipt.py`, `release-build.yml`). *State*: checkout, package, receipt, uploads.
*Operations*: check, build, stage, inspect, write the receipt, upload, accept. *Hard*: the
checkout may change between any two steps, and the publisher is given a directory in which
package and receipt may be of different builds or attempts. *Correct when* what is accepted
was built from the commit and the plan, in the attempt that publishes it.

**Archive merge** (`scripts/merge_oci_archives.py`). *State*: native exports on disk and the
output name. *Operations*: open, walk and verify each, copy all, seal, link. *Hard*: inputs
are read twice and not locked. *Correct when* the merged archive holds exactly what was
verified, and the other reader of such archives (`version_plan.py`) judges it alike, but for
the differences that section 3 names.

**Version ledger** (`scripts/release_state.py`, callers in `release_versioned.py` and
`release_control.py`). *State*: a JSON file on a branch of its own: build counter,
publication floor, one plan per workflow run. *Operations*: `read_state`, `write_state`
(compare-and-swap on the blob SHA), `reserve_plan`, `begin_publication`. *Hard*: runs
that overlap, die between two requests, are told a write failed that succeeded, or are
run again much later; tags, releases and the ledger are read at different moments.
*Correct when* no two plans share a number, no two share a tag (final builds of one base
excepted, of which only one can be tagged), nothing recorded is lost, a number is
consumed once, and what is public never goes back.

**Publication transaction** (`_publish_prepared`, `_reconcile_created_release` in
`scripts/release_control.py`, `publish_versioned` in `release_versioned.py`).
*State*: the tag, the releases under it, their assets, the default branch; all on
GitHub, and all changed by others too. *Operations*: check that nothing is there,
consume the number, create the tag, create a draft (and find out what became of the
request if the reply is lost), upload, read back, check tag and branch, publish.
*Hard*: no request may be sent twice, no answer is certain, and others interfere.
*Correct when* one attempt makes one release, nobody else's draft is touched, and what
becomes public is what was staged, at the commit it was built from, for a branch head
that was current when last looked at.

**Run and gate checks** (`wait_for_executing_run`, `release_gate_ready` in
`scripts/release_control.py`). *State*: a deadline and what the last poll said.
*Operations*: read the run, its jobs and its attempt, compare, pause, give up.
*Hard*: Actions reports late, lists copies of jobs of an earlier attempt, and the run is
cancelled or run again while its publisher is alive. *Correct when* only checks that ran
and passed in this attempt authorise a publication, late news is waited for, and the
wait ends.

**Evidence and manifests** (`promote` in `scripts/release_control.py`, `verified_rc` and
`scheduled_reuse` in `release_versioned.py`). *State*: a snapshot of a release and its
staged files. *Operations*: snapshot, validate manifest, run and evidence, download,
compare, look again. A scheduled nightly does the same with the last release of its source,
by the checksums GitHub lists, and publishes nothing if it is good. *Hard*: each is a
request of its own and the candidate may be edited, deleted, rebuilt or overtaken between
any two. *Correct when* the bytes that are promoted or reused are those one attempt of
the candidate's run made, and nothing rests on what was known before the downloads.

**Not modelled**: the transport that retries GitHub requests, the release CLI, provenance
and fuzz evidence, change scope, runner preflight, metadata writers, Terraform, the review
workflows. Section 6 and `PROJECT.json` give the reasons.

### How they interact

    phone, player --> front Worker --> session object (one per code) <-- alarms, clock
                           |-- rate limiter, installation check, allowlist (KV) <-- admin
                           `-- VPortal relay --> upstream

    prepare_version --> branch, pull request --> main (base version)
                                                   |
    release workflow --> reserve_plan ----------> sync --> build, merge --> receipt
                             |                                                 |
                          ledger                                               v
                             |                        publish_versioned / promote / reuse
                             |                           |-- run and gate of this attempt
                             |                           |-- candidate, evidence
                             `-------------------------- |-- begin_publication
                                                         `-- tag, draft, assets, publish

## 2. Modules

| module | models | builds on |
| --- | --- | --- |
| `SwopHandoff` | what the session store promises, without clock, credentials or storage | |
| `SwopSession` | `src/session.ts`, all of it | implements `SwopHandoff`, as proved |
| `SwopWorker` | session requests of `src/index.ts` | extends `SwopSession`, whose actions are its calls |
| `AllowedClients` | allowlist administration of `src/index.ts` | |
| `VPortalRelay` | `src/vportal.ts` | |
| `VersionPlan` | a plan and what it makes of each declared field | |
| `VersionSync` | the `sync` command of `version_plan.py` | extends `VersionPlan` |
| `OciArchives` | the rules of both readers of OCI archives | |
| `OciMerge` | `merge_oci_archives.py` | extends `OciArchives` |
| `ReleaseBuild` | from a plan to an accepted package | extends `VersionSync` and `OciMerge` |
| `VersionPreparation` | `prepare_version.py` with a pull request | |
| `VersionLedger` | the ledger and the runs that use it | |
| `ReleaseGate` | how a publisher makes sure of its run and gate | takes apart a check that `VersionLedger` has in `Precheck` |
| `CandidatePromotion` | what a candidate must pass to become stable, a base of it, or the nightly | takes apart another check of `Precheck` |
| `ReleasePublication` | publication of one tag, step by step | takes apart `VersionLedger`'s steps from tag to release |
| `SwopWorkerProofs` | theorems about the session objects, then about the Worker over them | extends `SwopWorker` |
| `FrontWorkerProofs` | theorems about the relay, then about the allowlist | extends `VPortalRelay` and `AllowedClients` |
| other `...Proofs` | theorems about the module of that name | extends it |
| `MCSwopWorker`, `MCAllowedClients` | several small instances, or scenes, in one run | extend the module |
| `MCVersionPreparation` | symmetry sets for TLC | extends the module |
| `MCReleaseBuild` | a policy, plans and native exports for TLC, in two scenes | extends the module |

### State and actions against the code

*SwopSession.* Each Durable Object operation is one `transaction`, so it is one action.
`record[c]` is the stored record; `Current(c)` is what the operation sees after the
expiry check at its head (lines 28-34), and it writes back at least that. `Create`,
`CreateOccupied`, `Form`, `Submit`, `AlreadyReady`, `EntryRefused`, `QrRefused`,
`Gone`, `Consume`, `ConsumeWaiting`, `ConsumeRefused` are the ways out of `fetch`, in
the order of its early returns; `RunAlarm` is `alarm()`. A hashed random token of
session `s` is the number `s` and 0 is an absent token: fresh 256-bit values never
collide, and hashes are compared for equality only. `book` and `latest` are history.
Captions and drafts influence nothing and are left out. `alarm` and `firing` are the
platform: it clears the alarm, then calls the handler at least once.

*SwopWorker.* A call and its answer are two steps. `Verdict` is the dispatcher's chain
of early returns; `Refusable` and `Admissible` are what it makes of every answer the
rate limiter and the allowlist may give, since an eventually consistent edge may give
any. `Allocate` is one pass of the loop up to the object's action; the answer is handled
by `TryAnother`, `Issue` or, if the call throws, by `CallFails`. `told` is history of
what the caller received. HTML, CORS headers, character limits and the random generator
are left out.

*AllowedClients.* `allow` is what KV has accepted, `seen` what the edge reads;
`Propagate` brings them together in any order. `LookUp` and `Delete` are the two calls
of a delete. `List`, `ReadBatch`, `AnswerPage` are one page of a listing. A cursor is a place
in the order of keys and a `turn`: KV may have several cursors for one place, so that a page
can be short, or empty, and still have a continuation, which must not be the cursor that was
sent. Record contents are left out: a damaged or vanished record is listed by its name.

*VPortalRelay.* Steps are what runs between two awaits. `Arrive` to the limiter,
`Limited` to the body, or `LimiterFails` if it throws, `BadBody`, `RefuseBusy` or `StartRelay` after the body,
`UpstreamAnswers` and `BodyEnds` for the two awaits of the call, `DeadlinePasses` for
the timer that wins the race, `Release` for the two `finally` blocks.

*VersionPlan, VersionSync.* A version or number in a file is a record `[base, kind, seq]`,
equal exactly if the texts are; base versions are numbers, in the order of versions.
`Value` is the projection of a plan onto one declaration, `Projectable` its refusals. A
file is its version fields and the rest of its text; the syntaxes differ only in how
a field is found, so an edit is an edit of the fields a selector owns, applied in the order
of the policy, and `Consistent` is the check that no selector undid another's. `ReadFile`,
`Stage`, `CheckFile`, `ReplaceFile` are the four passes over the files; `OthersEdit`,
`PutBack` and `KillSync` are everyone else.

*OciArchives, OciMerge.* A document is its own digest, so content addressing holds by
construction and "the bytes are not what the digest says" is the set `damaged`. The two
readers have rules of their own: `InputAccepted` is the merge's (one platform, one image,
attestations of that image only), `ArtifactAccepted` that of builds and publishers (any
number of platforms). Both walk the graph depth first and refuse it beyond `MaxDepth`; the
model has it level by level (`Levels`), which visits the same descriptors. `IsList` is
`isinstance(manifests, list)`: what an index holds may be anything. Both charge every
document they read to a budget of the archive (`Metadata`, `WithinBudget`), the merge the
statements of attestations as well (`Statements`); `Size` is what a document costs, and
`Legible` whether the JSON parser of `version_plan.py` reads what that of the merge reads: it
wants UTF-8 without a byte order mark, and nesting that Python can recurse into. The field
that a policy declares for an OCI artifact is taken to be the version label, which the merge
checks. A file's `stamp` is size, mtime and ctime: a write changes it.

*ReleaseBuild.* What a build takes from the checkout is a `Tree`, which stays in the package
with the attempt that built it; this is how the properties know what a package was made of.
A builder is not ours: it may export any archive of `Exports`, as long as what is in its
layers is from the checkout. The directory the publisher is given may hold any uploaded
package or a foreign one, and any receipt. The repository's own policy declares a plain
`tar-json` artifact; `oci` is what the toolkit supports besides. A receipt's hashes and its
record of the toolchain are abstracted.

*VersionPreparation.* A commit is a tree and its ancestors, a tree a version and a set of
edits; merges are three-way from one of the best common ancestors. `Fetch` to
`OpenPullRequest` are the requests of `prepare()` in its order; `ReadTopic` is the question
whether a branch that exists is what some run would have made. `Push` goes through if the
branch's present head is an ancestor, as GitHub has it. A local preparation stops before
its first remote write and is no more than `VersionSync`.

*VersionLedger.* A run reads (`ReadLedger`), picks a tag from a later reading of tags
and releases (`Pick`), makes the branch if there is none (`EnsureBranch`) and writes
(`WriteReservation`) if the file is still the one read (`Unchanged`: GitHub compares
the blob SHA, and equal content is equal SHA). `Precheck` stands for the checks of
`publish_versioned` before the ledger is read again (`ReadForPublication`,
`CheckOrder`, `WriteFloor` are `begin_publication`). `told = FALSE` is a write that
took effect although its reply was lost. A failed promotion may be run again from its
publication job, with its plan; any other run starts over, because `ReleaseGate` refuses
a publisher whose gate did not run in its attempt.

*ReleaseGate.* `ReadRun`, `ReadJobs`, `ReadAttempt` are the three reads of a poll,
`Accept` the last look at the clock, `PauseOrGiveUp` and `Wake` the sleep. What a read
returns is chosen from `Statuses` and `Listings`: an active run may be reported with any
earlier status, and a job of the attempt may be missing or shown as still running, but
copies of earlier successes are shown at once. The name, repository, branch, commit and
provenance of the run are constants of it and are left out, as is a gate listed twice,
which is refused.

*CandidatePromotion.* One action per request or group of local checks, in the code's
order; `kind` tells `promote`, `verified_rc` (`final`) and `scheduled_reuse` (`reuse`)
apart and `round` the first look from the second. `Made(attempt)` is what an attempt of the
candidate's run built: manifest and files. `Foreign` is well-formed and made by nobody.
`Questions` are facts about the repository that are asked and forgotten. `held` is history:
which of the facts in `Things` were true at some moment after the last download.

*ReleasePublication.* One action per request or check. `late` holds create requests
that may still take effect. `MoveHead`, `MoveTag`, `DraftByHand`, `EditDraft`,
`Cancel` are other people. `unseen` is history: what they changed after the job last
looked at it, the window which GitHub's API leaves open and the code says so
(`release_control.py` 1113-1114, 1159-1161).

## 3. Runs

| run | instance | states | question |
| --- | --- | --- | --- |
| `session` | one code, two owners, one installation and legacy callers, two values, lifetimes 1 and 2, two sessions, time 0-4, lockout after 2 | 143,085 | do races, expiry, lockout, takeover and stale alarms keep every promise, is every record erased or replaced in the end, and is `SwopHandoff` implemented? |
| `worker` | two requests at a time, two tries, two sessions, two values, one installation and legacy callers, time 0-2, in three scenes | 372,269 | does allocation survive occupied codes and lost answers, does what racing phones are told agree with what the player gets, and do requests end? |
| `relay` | three requests, two places | 130,688 | is every place accounted for, and returned? |
| `clients` | three clients, two requests, pages of up to three read two at a time, two cursors for a place, in two scenes | 858,124 | can answers and listings be relied on? |
| `ledger` | two overlapping runs, all channels, two attempts, floor 1, three numbers | 65,489 | does the compare-and-swap alone protect the ledger? |
| `ledger_serial` | three runs, one at a time, candidates, nightlies and stables | 1,764,067 | do published versions only go forward? |
| `publication` | two attempts, two files, three releases, three interferences | 148,700 | is what becomes public what was meant? |
| `gate` | one check and the gate, two attempts, wait 3, pause 2, time 0-5 | 36,282 | does only this attempt's gate authorise, is lag tolerated, does the wait end? |
| `promotion` | one file and its manifest, two attempts, four changes by others, promotion, final build and reuse | 2,614,790 | are the promoted bytes the candidate's, and is everything looked at again? |
| `build` | two version files, three plans, plain and OCI packages, two platforms, two attempts, two faults, in two scenes | 80,659 | is what is accepted made of the commit and the plan alone, by this attempt, and does the verification refuse of what the merge links only what it should? |
| `preparation` | two runs, two versions, two edits, six commits, four steps of others | 3,000,396 | does no push or merge undo anything, and is what a run leaves taken up? |
| `ledger_first` | one run, one channel, two attempts | 21 until found | expected violation, see section 7 |

### Why the bounds are enough

- *session*: two sessions on one code are the shortest history with an earlier
  tenant whose requests, tokens and alarm may come late, and the time bound lets
  the second be created after the first has expired and run out itself. Two values and
  two owners tell a wrong value or reader from a right one. Codes do not
  interact in `SwopSession`, so one is enough (the proofs cover any number; the
  invariant `OneCodeEach` says why). A lockout after
  two has a count below, at and (in a faulty program) beyond the limit.
- *worker*: two tries are a first and a last one; two codes are an occupied and a free
  one. A behaviour is of one of three scenes. In `phones` everything happens around one
  session at one code: two phones race with different values while a player polls, or one
  phone sends again what it was not answered. In `codes` two players allocate over occupied
  codes. In `reuse` a legacy code gets a second session after the first has expired, while
  a submission of the time of the first is under way. A scene only leaves calls out; a request
  that is served can always go on. Everything at once does not fit in the time a run
  has; the proofs of all three safety properties hold for any number of requests, codes and
  values.
- *relay*: more requests than places, by one.
- *clients*: three keys in pages of up to three give pages that are full, short, empty, last
  and not last, and batches of two that divide a page and that do not; with two cursors for
  each place (`Turns`) an empty page can go on with another empty page. In the scene `writes`
  two administrators write and overlap; in `listing` one lists while another writes, whose
  answers are not looked at. The proofs know of no scenes.
- *ledger*: two runs are enough for each lost update, and two attempts for each retry of
  what may have happened. `ledger_serial` takes three because a candidate, a newer build
  and the promotion of the candidate are three runs.
- *publication*: two drafts under one tag plus a late one; one interference before and
  one after each of two looks.
- *gate*: the second attempt is the one that copies; a wait of three with pauses of two
  has a poll at its start, one in between, a pause cut short by the deadline, and two ticks
  more let a second publisher start later than the first.
- *promotion*: the longest way to a wrong file takes four changes: the candidate's run is
  repeated, publishes anew, ends, and the old evidence expires.
- *build*: two faults are an edit and its consequence, a kill and an edit in the
  mixture it left, or two exports written over; a manifest with a version and a project with
  a counter are the two kinds of field. That is the scene `faults`, over two exports with
  attestations of the two forms, one flat, one nested to the limit `MaxDepth`, here 2; a
  repeated attempt, or a checkout that was edited, exports as simply as can be. In the scene
  `readers`, one attempt without faults, one platform exports one of each kind a merge has to
  refuse, nested one beyond the limit among them, and one of each kind that the merge accepts
  and the verification refuses: too many descriptors, documents or bytes of them once it is
  merged with the other platform's, a typed subject, a document the verification cannot parse.
- *preparation*: two runs overlap on one version, the only one above the first that the bound
  leaves; that no push and no merge takes a version back is therefore seen of one branch
  only, and of several in the proof (`NothingUndone`). Histories that cross, so that
  there are several merge bases, take five of the six commits. Four steps of others are an
  edit of `main`, an edit or update of a branch, a merge, and one more.

Every bound is a CONSTANT named in its module's declaration (`MaxSessions`, `MaxTime`,
`MaxTries`, `MaxId`, `MaxBuild`, `MaxAttempts`, `MaxReleases`, `MaxOutside`, `MaxFaults`,
`MaxDepth`, `MaxVisited`, `MaxMetadata`, `MaxDocument`, `MaxMembers`, `MaxVersion`,
`MaxEdits`, `MaxCommits`, `MaxOthers`, `Turns`; the five of archives are limits of the code
as well).
Symmetry is used in `clients` and `preparation` only, over clients, requests and runs,
which the specifications compare for equality and nothing else.
Deadlock is not checked for runs of the release tools that come to an end (ledger,
publication, gate, promotion, build); in the others the system never stops.

### Properties

*session*: `OnceInOnceOut`, `KeysOpenOnlyTheirSession`, `LockoutHolds`,
`AlarmCoversRecord`, `NotEndedEarly`, `NothingAfterDeadline`, `EventuallyErased`, and the
refinement `ImplementsHandoff`. *worker*: `OneSessionPerRequest`, `IssuedCodesMatch`,
`ToldWinnerWins`, `EveryRequestEnds`. *relay*: `PlacesAccounted`, `DecisionsHold`,
`PlacesComeBack`. *clients*: `AnswersHold`, `ListingComplete`. *ledger*: `PlansAreDurable`,
`ReservationsDistinct`, `LedgerMovesForward`, `NumberConsumedOnce`; *ledger_serial*:
`NoDowngrade`, `NothingAfterStable`. *publication*: `OneReleasePerAttempt`,
`OthersDraftsUntouched`, `PublishedWhole`, `PublishedAtSource`. *gate*:
`GateOfThisAttempt`, `PatientWithLag`, `WaitEnds`. *promotion*: `AcceptedBytes`,
`KnownAfresh`. *build*: `MergedWhole`, `MergedVerifies`, `ShippedFromCommit`,
`ShippedFromThisAttempt`, `EditsSurvive`, `KilledSyncCompletes`. *preparation*:
`NothingUndone`, `OwnTopicAccepted`. Each is stated in words above its definition with the
lines it is about. For each, `PROJECT.json` names a plausible slip in the code (operators
`Mut...`) that makes TLC find it violated. Type invariants are not run; those of the
session, the worker, the relay, the ledger, the gate, the sync and the version pull request
are conjuncts of the proved invariants of section 5.

Four properties have exceptions that the code leaves open, each written into the property:

- `ShippedFromCommit`: an edit made between the look at the checkout and the reading of the
  files counts as original, and one that is undone before the package is staged leaves no
  trace (history variables `slipped` and `undone`).
- `EditsSurvive`: an edit after the last look at a file, before it is replaced (`late`).
- `MergedVerifies`: the verification refuses, of what the merge accepted and linked, an archive
  that is beyond its limits as a whole although each input was within them (`version_plan.py`
  1348, 1363-1370, 1410; the merge counts for each input, 181, 209-221, 275, and not for what it
  writes, 582-609); one in which an attestation's subject has an `artifactType` (1497-1502; the
  merge, 444-463, does not look); and one with a document that only the merge's parser
  reads (1394, 544; 84-105). The property says that `OnlyVerified` lists all of them: nothing
  else that the merge lets pass is refused. In each case the build stops before it writes a
  receipt (`InspectStaged`), so the differences cost a build and let nothing through; no
  document of the repository promises that there are none.
- `OwnTopicAccepted`: a branch is refused if somebody edited it by hand, if `main` moved on
  after the run had fetched it and was merged into the branch, or if histories cross and git
  names another of several merge bases than the one the branch was made from. All three are
  refusals: the run stops before it writes anything.

## 4. Fairness

- *SwopSession*: time passes (`Tick`), and an alarm that is due goes off and its
  handler completes: the platform guarantees at-least-once execution and retries a
  handler that throws. Nothing is assumed of phones and players, so `EventuallyErased`
  rests on the alarms alone.
- *SwopWorker*: a request that is being served goes on; its promise settles or rejects
  (weak fairness of `Serve`, in which a rejection is as good as an answer). New
  requests need never come.
- *VPortalRelay*: timers fire and a settled promise's `finally` runs. Nothing is assumed of
  the upstream or of a caller who is still sending a body: `PlacesComeBack` holds
  because of the deadline.
- *ReleaseGate*: time passes, and the publisher's process goes on: every read returns
  within its own timeout and a sleep ends. Actions need never answer with news.
- *ReleaseBuild*: a sync that is under way goes on, and one that was killed is started
  again, which is what `KilledSyncCompletes` is about: that starting it again is enough.
- The other models are checked for safety only.

## 5. What is proved

The first part of `SwopWorkerProofs` proves, for every set of codes, owners, installations,
values and lifetimes and every lockout limit and bound, that `Spec` implies all safety
properties of the run `session`, its refinement included, and the type invariant. The
assumptions are `SessionAssumption`: lifetimes are positive, limits are natural numbers, and
the null values are not among the real ones.

The properties are not inductive: that a value is handed over once depends on what the
record says, and that the record can be trusted depends on what has happened since its
session was created. The invariant `SessionInv` ties the two together. For the session
last created at a code, `Matched` says what its record must be given its history: its
deadline, its owner and capabilities, its count of wrong codes, no value handed over
while the record is live, and one accepted exactly if it is ready; and that a record can
be absent only after the deadline. `OneCodeEach` keeps two codes from writing to one
session's history, `UnbornBlank` gives a new session an empty page, `LatestBorn`
makes sure a record has a history, and `Sound` is what is wanted of every page.
The proof goes: `SessionTypeOK` and `LatestBorn` are preserved (`TypedStep`);
`SessionInv` is preserved, one step per action (`InvStep`), mostly through `StepAt`,
which reduces a step at one code to that code's record and page; the invariants
follow. The action properties follow from `SessionInv` in the state before a step,
through lemmas that say which actions can touch what (`OnlyCreateReuses`,
`PageChanges`, `OnlyExpiredErased`). `AlarmCoversRecord` has an invariant argument
of its own (`AlarmStep`), which needs only types.

That the object implements `SwopHandoff` (`SessionImplementsHandoff`) follows from
`SessionInv` before and after a step. A session stands while its code's record is live
(`LiveIs`, `StageIs`), so what changes neither that nor the history of values is nothing
`SwopHandoff` sees: refusals, counted failures, clean-up and stale alarms (`NothingSeen`). A
creation is `Open`, an accepted submission `Offer`, a read that finds the value `Hand`
(`OpenStep`, `OfferStep`, `HandStep`), and a tick of the clock is `RunOut` of the codes whose
deadline it reaches (`TickStep`, where `OneCodeEach` is needed: no session has another code
to stand at).

Its second part proves, for any number of requests at a time and of codes tried, that
the Worker does nothing to the session objects that `SwopSession` does not allow
(`WorkerImplementsSession`), so that every theorem above holds of the whole. Its own
invariant `WorkerInv` adds what a request may still do: one that can create has created
nothing (`SlotOK`), and a phone that is about to be told of success is the only one of
its session and its value is the stored one (`WinnersOK`, `ToldOK`). From it follow
`OneSessionPerRequest` and `ToldWinnerWins`. `IssuedCodesMatch` needs more: between the
object's action and the answer the code may change hands, but only after the session's
deadline (`Home`); `IssueInv` says so of requests about to issue and of what was issued
(`WorkerCodesMatch`). It assumes a positive number of tries.

`FrontWorkerProofs`, of the relay, for any finite set of requests and a positive number of
places: the counter equals the number of relays, no relay runs for a caller whose
credentials were not accepted, and a timeout is told only when it is true. The first rests
on lemmas that say how a step changes the set of relays, and on the facts about
cardinalities of the library; the last needs the timer to be armed for as long as nothing is
settled (`TimersAgree`).

Of the allowlist, for any set of administrators' requests, any clients, and any positive
sizes of page and batch: `AnswersHold` and `ListingComplete`. The first is not inductive:
two writers of one client may overlap, and the answer of one is then worth nothing.
`WritesKnown` says that no two of them both think themselves alone, that nothing stands said
of a client while somebody writes to it (so a call takes back what was said), and that a
lone writer's change is in the store when he confirms it; then what he says is true, and
stays so until the next call. For the second, `ListingKnown` follows the cursor: what has
been named is in ascending order and lies at or before the cursor, every client that stood
all along and lies at or before it has been named (`NamedSoFar`), and a page in hand holds
all that is left between its cursor and its last key (`PageRead`), which batches then work
off from the front. A page that KV cuts short, or leaves empty, only moves the cursor less far
or not at all.

`VersionLedgerProofs`, for any runs, bases, floors and bounds, with or without the
workflow's concurrency group: the four properties of the run `ledger`, and that every ledger
left behind passes the checks of `read_state` (`LedgerStaysReadable`). `LedgerInv` says what
each run's reading has to do with the present file: the file extends it (`Extends`: counter
and floor no lower, every plan still there); a plan not yet written is new with respect
to the reading (`Picked`), and a number not yet consumed is above the floor read
(`Cleared`). The compare-and-swap lets a write through only when the two are equal, and
then what was true of the reading is true of the file. `SequencesBounded` is there because
a sequence is one above a maximum, which has to exist.

`NoDowngrade` and `NothingAfterStable` are about the repository's public side, which the
compare-and-swap does not guard: they need the concurrency group (`Serialized`), and are
proved under it. `SerialInv` says that one run is active at most, that everything ever
published has a number not above the ledger's floor, and what the active run can count on
(`Follows`): its plan is for the base and channel it was started for, also when a rerun got it
back from the ledger; the base it found open still is; and once it has consumed its number,
all that was published is older. Of a run that has not begun, has failed or is done only
its place in the ledger matters, which another run's step leaves alone (`OneMoves`).

`ReleasePublicationProofs`, for any staged files, any number of releases, changes by others
and attempts: the four safety properties of the run. That an attempt leaves one release at
most rests on counting its requests (`RequestsCounted`): the request is still to be sent,
is with GitHub without effect yet (`late`), or has left its release, and never two of these;
a clean-up starts a new attempt, whose number no release bears. The reconciliation
can then find one draft only, and the draft that a job works on is its own (`OwnDraft`),
whence `OthersDraftsUntouched`. What becomes public is what the last checks saw: `SeenWhole`,
`SeenTag` and `SeenHead` keep each check's result true until the request that publishes,
unless somebody else changed just that since the look (`unseen`), which the code
cannot exclude.

`ReleaseGateProofs`, for any checks, attempts, wait and pause: `GateOfThisAttempt` and
`PatientWithLag`. A gate passes after its checks (`Ordered`), so a gated publisher looks
at an attempt in which nothing can change any more, and a copied success is never
missing from a listing; the comparison of start times therefore sees every copy
(`PublisherOK`).

`ReleaseBuildProofs`, for any policy, files, fields, platforms, builders, and any number of
edits and attempts: `EditsSurvive`, `ShippedFromCommit`, `ShippedFromThisAttempt`,
`MergedWhole` and `MergedVerifies`. The assumptions are those of the modules
(`SyncAssumption`: declarations name declared files and fields; `MergeAssumption`: there are
platforms; `ArchiveAssumption`: limits of both readers are numbers, of depth and length
positive; of `Size` and `Legible` nothing). In the first three
the difficulty is that a file may be edited at any moment and a check see it only much
later. Edits of text are numbered (`Numbered`) and no plan writes what a hand writes, so an
edit of a file that the command is through with shows in it for good (`Spoilt`), unless
somebody puts the file back. `SyncInv` says that each such file is as planned or spoilt
(`Through`), that files were read as committed or as planned unless an edit slipped in
(`SeenKnown`), and that evidence tells what was made (`EvidenceTrue`). `BuildInv` carries
this into packages: a tree in any export, part, copy or output of the attempt is `Good`
(planned, or bearing an edit that still shows in the checkout); `InputsUnchanged` holds when
the package is staged, so nothing shows, and what is staged is `Pure`. `UploadsTrue` and
`ShippedTrue` keep that across attempts, through the receipt, whatever the publisher finds
in its directory.

The other two are about the merge, for any archives a builder may export. `MergeInv` keeps that
every part was accepted for its platform (`PartsAccepted`), and that a copy is what was
accepted unless the stamp of its input has moved since it was opened (`CopiesKnown`); stamps
only grow (`StampsGrow`), so an input that is found unmoved when the merge is sealed had not
moved when it was copied (`SealedWhole`). The rest is about what nested indexes flatten to,
which is recursion over data: for a sequence of given length, or an archive of given depth, the
function that the recursion describes exists and is unique, by the least number at which it
would not (`FlattenIs`, `LevelsAre`). From it follow what a flattened sequence of lists
contains (`FlattenGathers`), that all levels of an accepted archive are lists
(`AcceptedListed`), and that a merged archive has three levels: its index, the leaves of the
parts, and nothing (`MergedLevels`). `MergedIsAccepted` then compares the two readers rule by
rule: what the verification alone asks is `OnlyVerified`, and all else it asks the merge has
seen to; that it does ask it is `AcceptedIsAsked`.

`VersionPreparationProofs`, for any runs, versions, edits and commits: the type invariant,
`NothingUndone` and `OwnTopicAccepted`. For the second: a tree has all that its ancestors'
trees have (`HistoryGrows`), which a three-way merge keeps (`MergedHasBoth`); a run's
reading of main, of the branch and of their trees stays true because commits never change
(`Knows`); and GitHub takes the push only on top of the branch's present head. It assumes at
least one version and one commit.

`OwnTopicAccepted` is an argument about merge bases. The head of a branch that was not
committed by hand comes first after some commit `m` of main - the commit a run projected, or
the main that *Update branch* merged in - with nothing in between (`FirstOn`), and whatever
work it holds beyond `m`'s was done by hand below it (`MadeFrom`). `TopicInv` keeps this of each
branch's head, with how far its version may be beyond the one it is named for
(`TopicMade`) and what each run knows of main (`KnowsMain`). If a run then finds one
merge base with its head of main, no commit by hand that its head lacks and nothing shared with
main that its head lacks, the merge base is `m`, or the branch itself, the branch is a
projection of it, and the run takes it up (`RefusedIsExcused`).

`CandidatePromotionProofs`, for any files and any number of changes by others:
`AcceptedBytes` and `KnownAfresh`. An asset's id names one upload (`Ids`), so the two
snapshots, which compare ids, agree on contents; what passed in the first round is kept
together with the manifest (`FirstRound`, `Staged`); and `held` contains whatever the second
round has looked at (`SecondRound`).

Only model-checked: liveness (`EventuallyErased`, `EveryRequestEnds`, `PlacesComeBack`,
`WaitEnds`, `KilledSyncCompletes`), which is out of the prover's reach. Every other property of
a passing run is a theorem. `VersionPlan`'s projections are checked only through what is built
from them.

## 6. What is not modelled, and why

Text: captions, HTML, headers, character sets, JSON, TOML and plist syntax, tar and zip
containers, limits in bytes of single texts. Cryptography: tokens are distinct values that cannot be
guessed (a *guess* is any other token), and a digest names one content. Cloudflare's rate
limiter, KV and Durable Objects, GitHub's API, Actions and git are external: they are
modelled as `src/` uses them, with the latitude their documentation leaves.

- *Installation authentication*: its verdict and its place in a request are modelled; how
  configuration, Origin and Referer make the verdict is a comparison of strings.
- *GitHub transport* (`release_control.py` 519-767): reads tried three times, writes never
  sent again. The models take its effect: a read succeeds or fails, a write has an effect at
  most once and its reply may be lost.
- *Provenance and fuzz evidence, change scope, preflight, workflow contracts*: long
  conjunctions over downloaded files, globs and workflow files, without state; where a
  publication depends on one, its verdict is a step that may fail.
- *Release CLI*: dispatches a workflow and follows it. The closed cycle of automatic runs
  that proves a run's successor is one read in `ReleasePublication`.
- *Metadata scripts, wire contract, Terraform, fuzz harnesses, review workflows*: small files,
  constants, declarations and test code.

Two limits are the code's and accepted here. A session of a caller without an installation
carries no tokens: a phone that kept such a link may submit into a later session on the same
code, and `KeysOpenOnlyTheirSession` is stated for installation sessions only. An edge may
serve a client whose removal from the allowlist it has not seen yet: `AnswersHold` speaks of
answers to administrators, and the Worker's model lets the allowlist say anything.

One setting is left out: a `SESSION_TTL_SECONDS` above 0 and below 1 is rounded down to a
lifetime of 0 (`index.ts` 64-67), with which sessions are over when they are made.
`SessionAssumption` takes lifetimes to be positive.

## 7. Finding

*A first allocation that dies half way blocks all later ones.* `reserve_plan` creates
the state branch (`release_state.py` 210-211) and then writes the ledger (213). If it
fails in between, `read_state` refuses the branch without a file for ever and tells the
operator to restore it from the branch's history (104-107), where there is none. Run
`ledger_first` shows it (`RefusalHasHistory`). Nothing unsafe follows; the operator has
to delete the branch or give it an empty ledger.

## 8. Plan

Order, most important first; 1-9 are done.

1. `SwopHandoff`, `SwopSession` and its proofs: the promise to users.
2. `SwopWorker`, which composes the session objects with the requests, and its proofs.
3. `VPortalRelay` and `AllowedClients` and their proofs.
4. `VersionLedger` and its proofs: the promise to those who install releases.
5. `ReleasePublication` and its proofs.
6. `ReleaseGate` and its proofs.
7. `CandidatePromotion`, with the reuse of a scheduled build, and its proofs.
8. `VersionPlan`, `VersionSync`, `OciArchives`, `OciMerge`, `ReleaseBuild` and its proofs:
   from a plan to an accepted package.
9. `VersionPreparation` and its proofs.
10. `GitHubReads`: the transport under all release tools. Properties: no request with an
    effect is repeated, one deadline bounds all tries.
11. `InstallationAuth`: the decision over configurations and headers as an operator,
    checked against a declarative definition.
12. The closed cycle of automatic runs that proves a successor; the release CLI.
13. Proofs about `VersionPlan` by itself: which fields of two plans differ, and in what order.
