----------------------------- MODULE VersionLedger -----------------------------
(***************************************************************************)
(* Release runs and the ledger that hands out their build numbers          *)
(* (scripts/release_state.py, with the callers in release_versioned.py and *)
(* release_control.py).                                                    *)
(*                                                                         *)
(* The ledger is one JSON file on a branch of its own.  A run reads it,    *)
(* computes, and writes the whole file back; GitHub accepts the write only *)
(* while the file still is what the run had read.  A run also reads tags   *)
(* and releases, at other moments than the ledger.  Every read and every   *)
(* write is a step of its own; any step may fail, and a write may take     *)
(* effect although the run is told it failed.  A failed run can be run     *)
(* again.                                                                  *)
(*                                                                         *)
(* Drafts and assets are left out here; they are in ReleasePublication.    *)
(***************************************************************************)
EXTENDS Naturals

CONSTANTS Runs,        \* workflow run ids
          Bases,       \* base versions X.Y.Z
          Dispatched,  \* channels that runs are started for, out of Channels
          PolicyFloor, \* versioning.build_number_floor of the policy
          MaxBuild,    \* bound: build numbers ever reserved
          MaxAttempts, \* bound: attempts of one run
          Serialized   \* the workflow's concurrency group is in force

ASSUME LedgerAssumption ==
  /\ Runs \subseteq Nat \ {0}
  /\ PolicyFloor \in Nat
  /\ MaxBuild \in Nat
  /\ MaxAttempts \in Nat \ {0}
  /\ Serialized \in BOOLEAN
  /\ Dispatched \subseteq {"beta", "rc", "nightly", "stable"}

VARIABLES branch,    \* the state branch exists
          file,      \* the ledger file on it, or NoFile
          job,       \* run -> where it is, what it holds and what it has read
          tags,      \* git tags
          published, \* tags with a published release
          shipped    \* history: every <<tag, build>> ever published

vars == <<branch, file, job, tags, published, shipped>>

Channels == {"beta", "rc", "nightly", "stable"}
Modes == {"promote-bytes", "final-build"} \* how an RC's policy lets it become stable

NoTag == <<"none", "none", 0>>
Tag(base, channel, sequence) == <<base, channel, sequence>>
StableTag(base) == Tag(base, "stable", 0)

NoPlan == [run |-> 0, base |-> "none", channel |-> "none", tag |-> NoTag,
           build |-> 0, mode |-> "none", parent |-> NoTag]

\* An absent file; on an absent branch it is read as an empty ledger.
NoFile == [exists |-> FALSE, counter |-> 0, floor |-> 0, plans |-> [r \in Runs |-> NoPlan]]

Reserved(ledger) == {ledger.plans[r] : r \in Runs} \ {NoPlan}

Places == {"new", "reserve", "pick", "branch", "write", "built", "checked",
           "order", "floor", "tag", "release", "done", "failed"}

NewJob == [at |-> "new", base |-> "none", channel |-> "none", mode |-> "none",
           parent |-> NoTag, plan |-> NoPlan, promotes |-> FALSE,
           seen |-> NoFile, attempt |-> 1]

Tags == (Bases \cup {"none"}) \X (Channels \cup {"none"}) \X Nat
Plans == [run : Runs \cup {0}, base : Bases \cup {"none"}, channel : Channels \cup {"none"},
          tag : Tags, build : Nat, mode : Modes \cup {"none"}, parent : Tags]
Ledgers == [exists : BOOLEAN, counter : Nat, floor : Nat, plans : [Runs -> Plans]]
Jobs == [at : Places, base : Bases \cup {"none"}, channel : Channels \cup {"none"},
         mode : Modes \cup {"none"}, parent : Tags, plan : Plans, promotes : BOOLEAN,
         seen : Ledgers, attempt : Nat]

LedgerTypeOK ==
  /\ branch \in BOOLEAN
  /\ file \in Ledgers
  /\ job \in [Runs -> Jobs]
  /\ tags \subseteq Tags /\ published \subseteq Tags

Init ==
  /\ branch = FALSE
  /\ file = NoFile
  /\ job = [r \in Runs |-> NewJob]
  /\ tags = {}
  /\ published = {}
  /\ shipped = {}

Go(r, place) == job' = [job EXCEPT ![r].at = place]
Become(r, j) == job' = [job EXCEPT ![r] = j]
Fails(r) == Go(r, "failed")
Public == <<tags, published, shipped>>

Active(r) == job[r].at \notin {"new", "done", "failed"}

\* GitHub runs one release workflow of the repository at a time.
MayRun(r) == Serialized => \A q \in Runs \ {r} : ~Active(q)

-----------------------------------------------------------------------------
(* prepare(): checks before a plan is reserved. *)

\* The plan of a published release candidate, as its manifest carries it.
Candidates(base) == {p \in Reserved(file) :
                       p.channel = "rc" /\ p.base = base /\ p.tag \in published}

\* A plausible slip: only a second stable of a base is refused.
MutBaseOpen(base, channel) == channel = "stable" => StableTag(base) \notin tags
\* A beta, RC or stable of a base that is already stable is refused.
BaseOpen(base, channel) == channel # "nightly" => StableTag(base) \notin tags

Start(r, base, channel, mode) ==
  /\ job[r].at = "new" /\ MayRun(r)
  /\ Become(r, [job[r] EXCEPT !.at = IF BaseOpen(base, channel) THEN "reserve" ELSE "failed",
                              !.base = base, !.channel = channel,
                              !.mode = IF channel = "rc" THEN mode ELSE "none"])
  /\ UNCHANGED <<branch, file, Public>>

\* A stable run names an accepted RC.  Its bytes are promoted under its own plan,
\* or a final build gets a plan with that RC as parent.
StartStable(r, base, candidate) ==
  /\ job[r].at = "new" /\ MayRun(r)
  /\ candidate \in Candidates(base)
  /\ BaseOpen(base, "stable")
  /\ Become(r, [job[r] EXCEPT
       !.at = IF candidate.mode = "promote-bytes" THEN "built" ELSE "reserve",
       !.base = base, !.channel = "stable", !.parent = candidate.tag,
       !.promotes = (candidate.mode = "promote-bytes"),
       !.plan = IF candidate.mode = "promote-bytes" THEN candidate ELSE NoPlan])
  /\ UNCHANGED <<branch, file, Public>>

-----------------------------------------------------------------------------
(* reserve_plan() *)

\* A branch without the file is refused: the counter must not start again.
Unreadable == branch /\ file = NoFile

ReadLedger(r) ==
  /\ job[r].at = "reserve"
  /\ \/ /\ Unreadable
        /\ Fails(r)
     \/ /\ ~Unreadable /\ file.plans[r] # NoPlan  \* a rerun gets its plan back
        /\ Become(r, [job[r] EXCEPT !.at = "built", !.plan = file.plans[r]])
     \/ /\ ~Unreadable /\ file.plans[r] = NoPlan
        /\ Become(r, [job[r] EXCEPT !.at = "pick", !.seen = file])
  /\ UNCHANGED <<branch, file, Public>>

MaxOf(S) == CHOOSE n \in S \cup {0} : \A m \in S : m <= n

\* Sequence numbers in use for a base and channel.
Sequences(T, base, channel) == {t[3] : t \in {u \in T : u[1] = base /\ u[2] = channel}}

\* Above every public tag and every reservation; a nightly's comes from its run id.
NextSequence(r, ledger, base, channel) ==
  IF channel = "nightly" THEN r
  ELSE IF channel = "stable" THEN 0
  ELSE MaxOf(Sequences(tags \cup published \cup {p.tag : p \in Reserved(ledger)},
                       base, channel)) + 1

\* A plausible slip: the policy's floor replaces the counter instead of raising it.
MutNextBuild(ledger) == IF PolicyFloor > 0 THEN PolicyFloor + 1 ELSE ledger.counter + 1
NextBuild(ledger) == MaxOf({ledger.counter, PolicyFloor}) + 1

Pick(r) ==
  LET ledger == job[r].seen
      base == job[r].base
      channel == job[r].channel
      tag == Tag(base, channel, NextSequence(r, ledger, base, channel))
  IN /\ job[r].at = "pick"
     /\ \/ /\ tag \notin tags \cup published
           /\ NextBuild(ledger) <= MaxBuild
           /\ Become(r, [job[r] EXCEPT !.at = "branch",
                !.plan = [run |-> r, base |-> base, channel |-> channel, tag |-> tag,
                          build |-> NextBuild(ledger), mode |-> job[r].mode,
                          parent |-> job[r].parent]])
        \/ tag \in tags \cup published /\ Fails(r)
     /\ UNCHANGED <<branch, file, Public>>

\* The first allocation of all creates the branch, before it writes the file.
EnsureBranch(r) ==
  /\ job[r].at = "branch"
  /\ branch' = TRUE
  /\ Go(r, "write")
  /\ UNCHANGED <<file, Public>>

\* A plausible slip: the blob SHA is taken from the file as it is when written.
MutUnchanged(r) == TRUE
\* GitHub compares the blob SHA the run has read with the file's.
Unchanged(r) == file = job[r].seen

\* The plan is recorded and its number becomes the counter.
WithPlan(ledger, r, plan) ==
  [ledger EXCEPT !.exists = TRUE, !.counter = plan.build, !.plans[r] = plan]

WriteReservation(r, told) ==
  /\ job[r].at = "write"
  /\ \/ /\ Unchanged(r)
        /\ file' = WithPlan(job[r].seen, r, job[r].plan)
        /\ Become(r, [job[r] EXCEPT !.at = IF told THEN "built" ELSE "failed",
                                    !.plan = IF told THEN @ ELSE NoPlan,
                                    !.seen = NoFile])
     \/ /\ ~Unchanged(r)
        /\ Become(r, [job[r] EXCEPT !.at = "failed", !.plan = NoPlan, !.seen = NoFile])
        /\ UNCHANGED file
  /\ UNCHANGED <<branch, Public>>

-----------------------------------------------------------------------------
(* The publication job: publish_versioned() and promote(). *)

\* Checks on the state of the repository, long before the first public write.
Precheck(r) ==
  /\ job[r].at = "built"
  /\ \/ /\ job[r].plan.tag \notin tags \cup published \/ job[r].promotes
        /\ BaseOpen(job[r].base, job[r].channel)
        /\ Go(r, "checked")
     \/ /\ \/ job[r].plan.tag \in tags \cup published /\ ~job[r].promotes
           \/ ~BaseOpen(job[r].base, job[r].channel)
        /\ Fails(r)
  /\ UNCHANGED <<branch, file, Public>>

\* begin_publication() reads the ledger afresh ...
ReadForPublication(r) ==
  /\ job[r].at = "checked"
  /\ Become(r, IF Unreadable THEN [job[r] EXCEPT !.at = "failed"]
               ELSE [job[r] EXCEPT !.at = "order", !.seen = file])
  /\ UNCHANGED <<branch, file, Public>>

\* Reservations in the ledger read whose release is public now.
PublicPlans(ledger) == {p \in Reserved(ledger) : p.tag \in published}

\* A plausible slip: a number that was already consumed may be consumed again.
MutInOrder(ledger, plan) == plan.build >= ledger.floor
\* A plan goes out only above the floor and above all that is public.
InOrder(ledger, plan) ==
  /\ plan.build > ledger.floor
  /\ \A p \in PublicPlans(ledger) : p.build < plan.build

\* A plausible slip: nothing keeps an RC from being promoted past newer builds.
MutPromotionInOrder(ledger, plan) == plan.tag \in published
\* An RC's bytes go out under its old number if nothing newer has been started.
PromotionInOrder(ledger, plan) ==
  /\ plan.mode = "promote-bytes" /\ plan \in Reserved(ledger)
  /\ plan.build >= ledger.floor
  /\ plan.tag \in published
  /\ \A p \in PublicPlans(ledger) : p.build <= plan.build

Accepted(r) ==
  LET ledger == job[r].seen
      plan == job[r].plan
  IN IF job[r].promotes THEN PromotionInOrder(ledger, plan)
     ELSE ledger.plans[r] = plan /\ InOrder(ledger, plan)

\* ... compares it with the releases, read a moment later ...
CheckOrder(r) ==
  /\ job[r].at = "order"
  /\ Go(r, IF Accepted(r) THEN "floor" ELSE "failed")
  /\ UNCHANGED <<branch, file, Public>>

\* ... and consumes the number if the ledger has not changed meanwhile.
WriteFloor(r, told) ==
  /\ job[r].at = "floor"
  /\ \/ /\ Unchanged(r)
        /\ file' = [job[r].seen EXCEPT !.floor = job[r].plan.build]
        /\ Become(r, [job[r] EXCEPT !.at = IF told THEN "tag" ELSE "failed", !.seen = NoFile])
     \/ /\ ~Unchanged(r)
        /\ Become(r, [job[r] EXCEPT !.at = "failed", !.seen = NoFile])
        /\ UNCHANGED file
  /\ UNCHANGED <<branch, Public>>

PublicTag(r) == IF job[r].promotes THEN StableTag(job[r].base) ELSE job[r].plan.tag

\* _publish_prepared(): the tag first, refused if it exists in any form ...
CreateTag(r) ==
  /\ job[r].at = "tag"
  /\ \/ /\ PublicTag(r) \notin tags \cup published
        /\ tags' = tags \cup {PublicTag(r)}
        /\ Go(r, "release")
     \/ /\ PublicTag(r) \in tags \cup published
        /\ Fails(r)
        /\ UNCHANGED tags
  /\ UNCHANGED <<branch, file, published, shipped>>

\* ... and in the end the release.
Publish(r) ==
  /\ job[r].at = "release"
  /\ published' = published \cup {PublicTag(r)}
  /\ shipped' = shipped \cup {<<PublicTag(r), job[r].plan.build>>}
  /\ Become(r, [NewJob EXCEPT !.at = "done"])
  /\ UNCHANGED <<branch, file, tags>>

-----------------------------------------------------------------------------
(* Failures, reruns and the operator. *)

\* Any request or check fails, the runner dies, or the run is cancelled.
Fail(r) ==
  /\ Active(r)
  /\ Become(r, [job[r] EXCEPT !.at = "failed", !.seen = NoFile,
                  !.plan = IF job[r].at \in {"branch", "write"} THEN NoPlan ELSE @])
  /\ UNCHANGED <<branch, file, Public>>

\* Re-running the failed job alone gets nowhere but for a promotion: any other
\* publisher finds that the gate did not run in this attempt.  Re-running all jobs
\* starts over.
Rerun(r) ==
  /\ job[r].at = "failed" /\ job[r].base # "none" /\ MayRun(r)
  /\ job[r].attempt < MaxAttempts
  /\ \/ job[r].promotes
        /\ Become(r, [job[r] EXCEPT !.at = "built", !.attempt = @ + 1])
     \/ /\ ~job[r].promotes /\ BaseOpen(job[r].base, job[r].channel)
        /\ job[r].channel = "stable" => job[r].parent \in published
        /\ Become(r, [job[r] EXCEPT !.at = "reserve", !.plan = NoPlan, !.attempt = @ + 1])
  /\ UNCHANGED <<branch, file, Public>>

\* A release can be deleted by hand; its tag and its reservation remain.
DeleteRelease(t) ==
  /\ t \in published
  /\ published' = published \ {t}
  /\ UNCHANGED <<branch, file, job, tags, shipped>>

Next ==
  \/ \E r \in Runs :
       \/ \E base \in Bases, channel \in Dispatched \ {"stable"}, mode \in Modes : Start(r, base, channel, mode)
       \/ \E base \in Bases : "stable" \in Dispatched /\ \E candidate \in Candidates(base) : StartStable(r, base, candidate)
       \/ ReadLedger(r)
       \/ Pick(r)
       \/ EnsureBranch(r)
       \/ \E told \in BOOLEAN : WriteReservation(r, told)
       \/ Precheck(r)
       \/ ReadForPublication(r)
       \/ CheckOrder(r)
       \/ \E told \in BOOLEAN : WriteFloor(r, told)
       \/ CreateTag(r)
       \/ Publish(r)
       \/ Fail(r)
       \/ Rerun(r)
  \/ \E t \in published : DeleteRelease(t)

Spec == Init /\ [][Next]_vars

-----------------------------------------------------------------------------
(* Properties *)

\* Everything read_state checks holds of every file a run ever writes: no run can
\* leave behind a ledger that all later runs refuse (release_state.py 121-144).
LedgerReadable ==
  /\ file.floor <= file.counter
  /\ \A r \in Runs : file.plans[r].build <= file.counter

\* A run that has been given a plan holds what the ledger says it reserved: no
\* interleaving of other runs' reads and writes loses it (152-161, 208-214).
PlansAreDurable ==
  \A r \in Runs : job[r].plan # NoPlan /\ job[r].at \notin {"branch", "write"} =>
    job[r].plan \in Reserved(file)

\* No two reservations share a build number, however the runs that made them
\* overlapped, failed or were told their write failed; and none but those of final
\* builds of one base, of which only one can be tagged, share a tag (193-213).
ReservationsDistinct ==
  \A p, q \in Reserved(file) : p.run # q.run =>
    /\ p.build # q.build
    /\ p.tag = q.tag => p.channel = "stable"

\* The ledger only moves forward: counter and floor never fall, and a recorded plan
\* is never changed or dropped (7-11, 305-328).
LedgerMovesForward ==
  [][/\ file'.counter >= file.counter /\ file'.floor >= file.floor
     /\ \A r \in Runs : file.plans[r] # NoPlan => file'.plans[r] = file.plans[r]]_vars

\* A number is consumed once: a run that was told its publication could begin has
\* raised the floor by doing so, even if an earlier attempt of the same run had
\* consumed the number without being told (242-245, 305-316).
NumberConsumedOnce ==
  [][\A r \in Runs : job[r].at = "floor" /\ job'[r].at = "tag" /\ ~job[r].promotes =>
       file'.floor > file.floor]_vars

\* With one run at a time, what becomes public never goes back in build number, also
\* by promotion, rerun of an old run, or after a release was deleted (262-302).
NoDowngrade ==
  [][Serialized => \A new \in shipped' \ shipped : \A old \in shipped :
       \/ new[2] > old[2]
       \/ new[2] = old[2] /\ new[1][2] = "stable"]_vars

\* With one run at a time, no beta, RC or second stable of a base is tagged after its
\* stable tag exists, also by a run whose plan was reserved before (730-732).
NothingAfterStable ==
  [][Serialized => \A t \in tags' \ tags :
       t[2] # "nightly" => StableTag(t[1]) \notin tags]_vars

\* What the refusal tells the operator, to restore the file from the branch's history,
\* presumes that a branch without the file is one that lost it: barring the moment in
\* which the first allocation is writing it, an existing branch has it (104-107).
RefusalHasHistory == Unreadable => \E r \in Runs : job[r].at = "write"
================================================================================
