-------------------------- MODULE VersionLedgerProofs --------------------------
(***************************************************************************)
(* Proofs about VersionLedger, for any number of runs, bases and build     *)
(* numbers, with or without the workflow's concurrency group.              *)
(***************************************************************************)
EXTENDS VersionLedger, WellFoundedInduction, TLAPS

USE LedgerAssumption

-----------------------------------------------------------------------------
(* Numbers *)

LEMMA LeastOf ==
  ASSUME NEW T, T \subseteq Nat, T # {}
  PROVE  \E x \in T : \A y \in T : x <= y
<1> DEFINE R == {ss \in Nat \X Nat : ss[1] < ss[2]}
<1>1. IsWellFoundedOn(R, Nat)
  BY NatLessThanWellFounded DEF OpToRel
<1>2. PICK x \in T : \A y \in T : ~ (<<y, x>> \in R)
  <2> HIDE DEF R
  <2>1. QED
    BY <1>1, WFMin
<1>3. ASSUME NEW y \in T PROVE x <= y
  <2>1. <<y, x>> \notin R /\ x \in Nat /\ y \in Nat
    BY <1>2
  <2>2. ~ (y < x)
    BY <2>1, Zenon
  <2>3. QED
    BY <2>1, <2>2
<1>4. QED
  BY <1>3

LEMMA Larger ==
  ASSUME NEW n \in Nat, NEW k \in Nat
  PROVE  \E m \in Nat : n <= m /\ k <= m
<1>1. CASE n <= k
  BY <1>1
<1>2. CASE ~ (n <= k)
  BY <1>2
<1>3. QED
  BY <1>1, <1>2

\* The largest of a bounded set of numbers is one, and above all of them; of the empty
\* set it is 0 (max(..., default=0), release_state.py 201, release_control.py 1571).
LEMMA MaxOfBounds ==
  ASSUME NEW S, S \subseteq Nat, NEW n \in Nat, \A m \in S : m <= n
  PROVE  MaxOf(S) \in Nat /\ \A m \in S : m <= MaxOf(S)
<1> DEFINE U == {u \in Nat : \A m \in S : m <= u}
           M == MaxOf(S)
<1>1. PICK u \in U : \A v \in U : u <= v
  <2>1. n \in U
    OBVIOUS
  <2> HIDE DEF U
  <2>2. U \subseteq Nat
    BY DEF U
  <2>3. QED
    BY <2>1, <2>2, LeastOf
<1>2. u \in S \cup {0}
  <2> SUFFICES ASSUME u \notin S, u # 0 PROVE FALSE
    OBVIOUS
  <2>1. u - 1 \in U
    OBVIOUS
  <2>2. QED
    BY <1>1, <2>1
<1>3. \E m \in S \cup {0} : \A k \in S : k <= m
  BY <1>2
<1> HIDE DEF U
<1>4. M \in S \cup {0} /\ \A k \in S : k <= M
  BY <1>3 DEF MaxOf
<1> HIDE DEF M
<1>5. M \in Nat /\ \A k \in S : k <= M
  BY <1>4
<1>6. QED
  BY <1>5 DEF M

\* The next build number is above the ledger's counter (205).
LEMMA NextBuildAbove ==
  ASSUME NEW ledger \in Ledgers
  PROVE  NextBuild(ledger) \in Nat /\ NextBuild(ledger) > ledger.counter
<1> DEFINE S == {ledger.counter, PolicyFloor}
<1>1. ledger.counter \in Nat /\ PolicyFloor \in Nat
  BY DEF Ledgers
<1>2. \E n \in Nat : \A m \in S : m <= n
  BY <1>1
<1>3. MaxOf(S) \in Nat /\ \A m \in S : m <= MaxOf(S)
  BY <1>1, <1>2, MaxOfBounds
<1>4. QED
  BY <1>1, <1>3 DEF NextBuild

-----------------------------------------------------------------------------
(* The invariant *)

\* What one ledger has recorded, a later one still has.
Extends(one, two) ==
  /\ one.counter <= two.counter /\ one.floor <= two.floor
  /\ \A q \in Runs : one.plans[q] # NoPlan => two.plans[q] = one.plans[q]

\* A plan of run r, with the tag that its base, channel and, for a nightly, its run give.
WellFormed(p, r) ==
  /\ p.run = r /\ p.tag[1] = p.base /\ p.tag[2] = p.channel
  /\ p.channel = "nightly" => p.tag[3] = r

SequencesBounded ==
  \E n \in Nat : /\ \A t \in tags \cup published : t[3] <= n
                 /\ \A p \in Reserved(file) : p.tag[3] <= n

FileInv ==
  /\ LedgerReadable
  /\ \A r \in Runs : file.plans[r] # NoPlan => WellFormed(file.plans[r], r)
  /\ ReservationsDistinct

\* Between its choice and the write, a plan is new with respect to the ledger read.
Picked(r, j) ==
  /\ WellFormed(j.plan, r)
  /\ j.plan.build > j.seen.counter
  /\ j.seen.plans[r] = NoPlan
  /\ \A p \in Reserved(j.seen) : p.tag = j.plan.tag => p.channel = "stable"

\* Between the check of the order and the write, the number is above the floor read.
Cleared(j) ==
  /\ j.plan \in Reserved(j.seen)
  /\ j.plan.build >= j.seen.floor
  /\ ~j.promotes => j.plan.build > j.seen.floor

JobOK(r, j) ==
  /\ Extends(j.seen, file)
  /\ j.at = "pick" => j.seen.plans[r] = NoPlan
  /\ j.at \in {"branch", "write"} => Picked(r, j)
  /\ j.at = "floor" => Cleared(j)
  /\ j.plan # NoPlan /\ j.at \notin {"branch", "write"} => j.plan \in Reserved(file)

LedgerInv ==
  /\ LedgerTypeOK
  /\ SequencesBounded
  /\ FileInv
  /\ \A r \in Runs : JobOK(r, job[r])

-----------------------------------------------------------------------------
(* Facts about plans and ledgers *)

LEMMA NoneTyped ==
  NoPlan \in Plans /\ NoFile \in Ledgers /\ NewJob \in Jobs /\ NoTag \in Tags
  BY DEF NoPlan, NoFile, NewJob, NoTag, Plans, Ledgers, Jobs, Tags, Places

LEMMA ReservedTyped ==
  ASSUME NEW ledger \in Ledgers
  PROVE  Reserved(ledger) \subseteq Plans
  BY DEF Reserved, Ledgers

LEMMA ExtendsReserved ==
  ASSUME NEW one, NEW two, Extends(one, two)
  PROVE  Reserved(one) \subseteq Reserved(two)
  BY DEF Extends, Reserved

LEMMA ExtendsSelf ==
  ASSUME NEW one \in Ledgers
  PROVE  Extends(one, one)
  BY DEF Extends, Ledgers

LEMMA ExtendsTransitive ==
  ASSUME NEW one \in Ledgers, NEW two \in Ledgers, NEW three \in Ledgers,
         Extends(one, two), Extends(two, three)
  PROVE  Extends(one, three)
  BY DEF Extends, Ledgers

\* An absent ledger is read as an empty one, which every ledger extends (108).
LEMMA ExtendsNothing ==
  ASSUME NEW two \in Ledgers
  PROVE  Extends(NoFile, two)
  BY DEF Extends, Ledgers, NoFile

\* The sequence of a new tag is above those of all reservations of its base and channel.
LEMMA SequenceFresh ==
  ASSUME LedgerTypeOK, SequencesBounded, NEW ledger \in Ledgers, Extends(ledger, file),
         NEW r \in Runs, NEW base, NEW channel
  PROVE  /\ NextSequence(r, ledger, base, channel) \in Nat
         /\ channel \notin {"nightly", "stable"} =>
              \A p \in Reserved(ledger) : p.tag[1] = base /\ p.tag[2] = channel =>
                p.tag[3] < NextSequence(r, ledger, base, channel)
<1> DEFINE T == tags \cup published \cup {p.tag : p \in Reserved(ledger)}
           S == Sequences(T, base, channel)
<1>1. PICK n \in Nat : /\ \A t \in tags \cup published : t[3] <= n
                       /\ \A p \in Reserved(file) : p.tag[3] <= n
  BY DEF SequencesBounded
<1>2. T \subseteq Tags
  BY ReservedTyped DEF LedgerTypeOK, Plans
<1>3. \A t \in T : t[3] \in Nat /\ t[3] <= n
  BY <1>1, <1>2, ExtendsReserved DEF Tags
<1>4. \A p \in Reserved(ledger) : p.tag \in T
  OBVIOUS
<1> HIDE DEF T
<1>5. S \subseteq Nat /\ \A m \in S : m <= n
  BY <1>3 DEF Sequences
<1>6. \A t \in T : t[1] = base /\ t[2] = channel => t[3] \in S
  BY DEF Sequences
<1> HIDE DEF S
<1>7. MaxOf(S) \in Nat /\ \A m \in S : m <= MaxOf(S)
  BY <1>5, MaxOfBounds
<1>8. CASE channel = "nightly"
  BY <1>8 DEF NextSequence
<1>9. CASE channel = "stable"
  BY <1>9 DEF NextSequence
<1>10. CASE channel \notin {"nightly", "stable"}
  <2>1. NextSequence(r, ledger, base, channel) = MaxOf(S) + 1
    BY <1>10 DEF NextSequence, S, T
  <2> DEFINE M == MaxOf(S)
  <2> HIDE DEF M
  <2>2. M \in Nat /\ \A m \in S : m <= M
    BY <1>7 DEF M
  <2>3. \A p \in Reserved(ledger) : p.tag[1] = base /\ p.tag[2] = channel =>
          p.tag[3] \in Nat /\ p.tag[3] <= M
    BY <1>3, <1>4, <1>6, <2>2
  <2>4. \A p \in Reserved(ledger) : p.tag[1] = base /\ p.tag[2] = channel => p.tag[3] < M + 1
    BY <2>2, <2>3
  <2>5. QED
    BY <2>1, <2>2, <2>4 DEF M
<1>11. QED
  BY <1>8, <1>9, <1>10

-----------------------------------------------------------------------------
(* Steps that change one run's state and nothing else *)

LEMMA JobStep ==
  ASSUME LedgerInv, NEW r \in Runs, NEW j \in Jobs, JobOK(r, j),
         Become(r, j), UNCHANGED <<branch, file, Public>>
  PROVE  LedgerInv'
<1>1. job' = [job EXCEPT ![r] = j]
  BY DEF Become
<1>2. LedgerTypeOK'
  BY <1>1 DEF LedgerInv, LedgerTypeOK, Public
<1>3. SequencesBounded' /\ FileInv'
  BY DEF LedgerInv, SequencesBounded, FileInv, LedgerReadable, ReservationsDistinct, Reserved,
         Public
<1>4. ASSUME NEW q \in Runs PROVE JobOK(q, job[q])'
  <2>1. job'[q] = IF q = r THEN j ELSE job[q]
    BY <1>1 DEF LedgerInv, LedgerTypeOK
  <2>2. JobOK(q, job'[q])
    BY <2>1 DEF LedgerInv
  <2>3. file' = file
    OBVIOUS
  <2>4. QED
    BY <2>2, <2>3 DEF JobOK, Extends, Cleared, Picked, WellFormed, Reserved
<1>5. QED
  BY <1>2, <1>3, <1>4 DEF LedgerInv

\* Moving on from a state in which only the general conditions hold to another such.
Plain == Places \ {"pick", "branch", "write", "floor"}

LEMMA MoveOn ==
  ASSUME LedgerInv, NEW r \in Runs, NEW place \in Plain,
         job[r].at \notin {"branch", "write"},
         Go(r, place), UNCHANGED <<branch, file, Public>>
  PROVE  LedgerInv'
<1> DEFINE j == [job[r] EXCEPT !.at = place]
<1>1. j \in Jobs
  BY DEF LedgerInv, LedgerTypeOK, Jobs, Plain
<1>2. JobOK(r, job[r]) /\ job[r] \in Jobs
  BY DEF LedgerInv, LedgerTypeOK
<1>3. JobOK(r, j)
  BY <1>2 DEF JobOK, Plain, Jobs
<1>4. Become(r, j)
  BY DEF Go, Become
<1> HIDE DEF j
<1>5. QED
  BY <1>1, <1>3, <1>4, JobStep

LEMMA StepStart ==
  ASSUME LedgerInv, NEW r \in Runs, NEW base \in Bases, NEW channel \in Channels,
         NEW mode \in Modes, Start(r, base, channel, mode)
  PROVE  LedgerInv'
<1> DEFINE j == [job[r] EXCEPT !.at = IF BaseOpen(base, channel) THEN "reserve" ELSE "failed",
                               !.base = base, !.channel = channel,
                               !.mode = IF channel = "rc" THEN mode ELSE "none"]
<1>1. job[r] \in Jobs /\ JobOK(r, job[r]) /\ job[r].at = "new"
  BY DEF LedgerInv, LedgerTypeOK, Start
<1>2. j \in Jobs
  BY <1>1 DEF Jobs, Places
<1>3. JobOK(r, j)
  BY <1>1 DEF JobOK, Jobs
<1>4. QED
  BY <1>2, <1>3, JobStep DEF Start

LEMMA StepStartStable ==
  ASSUME LedgerInv, NEW r \in Runs, NEW base \in Bases, NEW candidate \in Candidates(base),
         StartStable(r, base, candidate)
  PROVE  LedgerInv'
<1> DEFINE promotes == candidate.mode = "promote-bytes"
           j == [job[r] EXCEPT
                   !.at = IF promotes THEN "built" ELSE "reserve",
                   !.base = base, !.channel = "stable", !.parent = candidate.tag,
                   !.promotes = promotes,
                   !.plan = IF promotes THEN candidate ELSE NoPlan]
<1>1. job[r] \in Jobs /\ JobOK(r, job[r]) /\ file \in Ledgers
  BY DEF LedgerInv, LedgerTypeOK
<1>2. candidate \in Reserved(file) /\ candidate \in Plans
  BY <1>1, ReservedTyped DEF Candidates
<1>3. candidate.tag \in Tags /\ promotes \in BOOLEAN
  BY <1>2 DEF Plans
<1>4. j \in Jobs
  <2>1. (IF promotes THEN candidate ELSE NoPlan) \in Plans
    BY <1>2, NoneTyped
  <2> HIDE DEF promotes
  <2>2. QED
    BY <1>1, <1>3, <2>1 DEF Jobs, Places, Channels
<1>5. JobOK(r, j)
  BY <1>1, <1>2 DEF JobOK, Jobs
<1>6. QED
  BY <1>4, <1>5, JobStep DEF StartStable

LEMMA StepReadLedger ==
  ASSUME LedgerInv, NEW r \in Runs, ReadLedger(r)
  PROVE  LedgerInv'
<1>1. job[r] \in Jobs /\ JobOK(r, job[r]) /\ file \in Ledgers /\ job[r].at = "reserve"
  BY DEF LedgerInv, LedgerTypeOK, ReadLedger
<1>2. CASE Fails(r)
  BY <1>1, <1>2, MoveOn DEF Fails, ReadLedger, Plain, Places
<1>3. CASE file.plans[r] # NoPlan /\ Become(r, [job[r] EXCEPT !.at = "built", !.plan = file.plans[r]])
  <2> DEFINE j == [job[r] EXCEPT !.at = "built", !.plan = file.plans[r]]
  <2>1. file.plans[r] \in Plans /\ file.plans[r] \in Reserved(file)
    BY <1>1, <1>3 DEF Ledgers, Reserved
  <2>2. j \in Jobs
    BY <1>1, <2>1 DEF Jobs, Places
  <2>3. JobOK(r, j)
    BY <1>1, <2>1 DEF JobOK, Jobs
  <2>4. QED
    BY <1>3, <2>2, <2>3, JobStep DEF ReadLedger
<1>4. CASE file.plans[r] = NoPlan /\ Become(r, [job[r] EXCEPT !.at = "pick", !.seen = file])
  <2> DEFINE j == [job[r] EXCEPT !.at = "pick", !.seen = file]
  <2>1. j \in Jobs
    BY <1>1 DEF Jobs, Places
  <2>2. Extends(file, file)
    BY <1>1, ExtendsSelf
  <2>3. JobOK(r, j)
    BY <1>1, <1>4, <2>2 DEF JobOK, Jobs
  <2>4. QED
    BY <1>4, <2>1, <2>3, JobStep DEF ReadLedger
<1>5. QED
  BY <1>2, <1>3, <1>4 DEF ReadLedger

LEMMA StepPick ==
  ASSUME LedgerInv, NEW r \in Runs, Pick(r)
  PROVE  LedgerInv'
<1> DEFINE ledger == job[r].seen
           base == job[r].base
           channel == job[r].channel
           sequence == NextSequence(r, ledger, base, channel)
           plan == [run |-> r, base |-> base, channel |-> channel,
                    tag |-> Tag(base, channel, sequence),
                    build |-> NextBuild(ledger), mode |-> job[r].mode, parent |-> job[r].parent]
           j == [job[r] EXCEPT !.at = "branch", !.plan = plan]
<1>1. job[r] \in Jobs /\ JobOK(r, job[r]) /\ job[r].at = "pick"
  BY DEF LedgerInv, LedgerTypeOK, Pick
<1>2. /\ ledger \in Ledgers /\ base \in Bases \cup {"none"} /\ channel \in Channels \cup {"none"}
      /\ job[r].mode \in Modes \cup {"none"} /\ job[r].parent \in Tags
  BY <1>1 DEF Jobs
<1>3. Extends(ledger, file) /\ ledger.plans[r] = NoPlan
  BY <1>1 DEF JobOK
<1>4. /\ sequence \in Nat
      /\ channel \notin {"nightly", "stable"} =>
           \A p \in Reserved(ledger) : p.tag[1] = base /\ p.tag[2] = channel => p.tag[3] < sequence
  BY <1>2, <1>3, SequenceFresh DEF LedgerInv
<1>5. channel = "nightly" => sequence = r
  BY DEF NextSequence
<1>6. NextBuild(ledger) \in Nat /\ NextBuild(ledger) > ledger.counter
  BY <1>2, NextBuildAbove
<1>7. plan.tag \in Tags /\ plan.tag[1] = base /\ plan.tag[2] = channel /\ plan.tag[3] = sequence
  BY <1>2, <1>4 DEF Tags, Tag
<1> HIDE DEF sequence
<1>8. plan \in Plans
  BY <1>2, <1>6, <1>7 DEF Plans
<1>9. ASSUME NEW p \in Reserved(ledger), p.tag = plan.tag PROVE p.channel = "stable"
  <2>1. PICK q \in Runs : p = ledger.plans[q] /\ ledger.plans[q] # NoPlan
    BY DEF Reserved
  <2>2. q # r /\ WellFormed(p, q)
    BY <1>3, <2>1 DEF Extends, LedgerInv, FileInv
  <2>3. p \in Plans
    BY <1>2, ReservedTyped
  <2>4. p.channel = channel /\ p.tag[1] = base /\ p.tag[2] = channel /\ p.tag[3] = sequence
    BY <1>7, <1>9, <2>2 DEF WellFormed
  <2>5. channel # "nightly"
    BY <1>5, <2>2, <2>4 DEF WellFormed
  <2>6. channel \notin {"nightly", "stable"} => sequence < sequence
    BY <1>4, <2>4
  <2>7. QED
    BY <1>4, <2>4, <2>5, <2>6
<1>10. WellFormed(plan, r)
  BY <1>5, <1>7 DEF WellFormed
<1>11. CASE Become(r, j)
  <2>1. Picked(r, j)
    <3>1. j.plan = plan /\ j.seen = ledger
      BY <1>1 DEF Jobs
    <3> HIDE DEF plan, ledger, j
    <3>2. plan.build > ledger.counter
      BY <1>6 DEF plan
    <3>3. QED
      BY <1>3, <1>9, <1>10, <3>1, <3>2 DEF Picked
  <2>2. j \in Jobs
    BY <1>1, <1>8 DEF Jobs, Places
  <2>3. JobOK(r, j)
    <3>1. j.at = "branch" /\ j.seen = ledger
      BY <1>1 DEF Jobs
    <3> HIDE DEF j, ledger
    <3>2. QED
      BY <1>3, <2>1, <3>1 DEF JobOK
  <2>4. QED
    BY <1>11, <2>2, <2>3, JobStep DEF Pick
<1>12. CASE Fails(r)
  BY <1>1, <1>12, MoveOn DEF Fails, Pick, Plain, Places
<1>13. QED
  BY <1>11, <1>12 DEF Pick, sequence

LEMMA StepEnsureBranch ==
  ASSUME LedgerInv, NEW r \in Runs, EnsureBranch(r)
  PROVE  LedgerInv'
<1> DEFINE j == [job[r] EXCEPT !.at = "write"]
<1>1. job[r] \in Jobs /\ JobOK(r, job[r]) /\ job[r].at = "branch"
  BY DEF LedgerInv, LedgerTypeOK, EnsureBranch
<1>2. job' = [job EXCEPT ![r] = j] /\ branch' = TRUE /\ UNCHANGED <<file, Public>>
  BY DEF EnsureBranch, Go
<1>3. j \in Jobs
  BY <1>1 DEF Jobs, Places
<1>4. JobOK(r, j)
  BY <1>1, <1>3 DEF JobOK, Jobs, Picked
<1> HIDE DEF j
<1>5. LedgerTypeOK'
  BY <1>2, <1>3 DEF LedgerInv, LedgerTypeOK, Public
<1>6. SequencesBounded' /\ FileInv'
  BY <1>2 DEF LedgerInv, SequencesBounded, FileInv, LedgerReadable, ReservationsDistinct,
              Reserved, Public
<1>7. ASSUME NEW q \in Runs PROVE JobOK(q, job[q])'
  <2>1. job'[q] = IF q = r THEN j ELSE job[q]
    BY <1>2 DEF LedgerInv, LedgerTypeOK
  <2>2. JobOK(q, job'[q])
    BY <1>4, <2>1 DEF LedgerInv
  <2>3. QED
    BY <1>2, <2>2 DEF JobOK, Extends, Cleared, Picked, WellFormed, Reserved
<1>8. QED
  BY <1>5, <1>6, <1>7 DEF LedgerInv

-----------------------------------------------------------------------------
(* Steps that write the file *)

\* A write that only adds to the file leaves every other run's state as good as it was.
LEMMA FileStep ==
  ASSUME LedgerInv, NEW r \in Runs, NEW j \in Jobs, NEW new \in Ledgers,
         Extends(file, new), file' = new, Become(r, j), UNCHANGED <<branch, Public>>,
         SequencesBounded', FileInv',
         j.seen = NoFile, j.at \in Plain, j.plan # NoPlan => j.plan \in Reserved(new)
  PROVE  LedgerInv'
<1>1. job' = [job EXCEPT ![r] = j] /\ file \in Ledgers
  BY DEF Become, LedgerInv, LedgerTypeOK
<1>2. LedgerTypeOK'
  BY <1>1 DEF LedgerInv, LedgerTypeOK, Public
<1>3. ASSUME NEW q \in Runs PROVE JobOK(q, job[q])'
  <2>1. CASE q = r
    <3>1. job'[q] = j
      BY <1>1, <2>1 DEF LedgerInv, LedgerTypeOK
    <3>2. Extends(NoFile, new)
      BY ExtendsNothing
    <3>3. Extends(j.seen, file)'
      BY <3>2 DEF Extends
    <3>4. j.plan # NoPlan => (j.plan \in Reserved(file))'
      BY DEF Reserved
    <3>5. QED
      BY <3>1, <3>3, <3>4 DEF JobOK, Plain
  <2>2. CASE q # r
    <3>1. job'[q] = job[q] /\ job[q] \in Jobs /\ JobOK(q, job[q])
      BY <1>1, <2>2 DEF LedgerInv, LedgerTypeOK
    <3>2. job[q].seen \in Ledgers
      BY <3>1 DEF Jobs
    <3>3. Extends(job[q].seen, new)
      BY <1>1, <3>1, <3>2, ExtendsTransitive DEF JobOK
    <3>4. Reserved(file) \subseteq Reserved(new)
      BY ExtendsReserved
    <3>5. JobOK(q, job[q]) /\ Extends(job[q].seen, file')
          /\ (job[q].plan \in Reserved(file) => job[q].plan \in Reserved(file'))
      BY <3>1, <3>3, <3>4
    <3>6. QED
      BY <3>1, <3>5 DEF JobOK, Extends, Cleared, Picked, WellFormed, Reserved
  <2>3. QED
    BY <2>1, <2>2
<1>4. QED
  BY <1>2, <1>3 DEF LedgerInv

\* A refused write, like a failure, leaves a run without what it had read.
LEMMA Refused ==
  ASSUME LedgerInv, NEW r \in Runs, NEW j \in Jobs,
         j.at = "failed", j.seen = NoFile, j.plan # NoPlan => j.plan \in Reserved(file),
         Become(r, j), UNCHANGED <<branch, file, Public>>
  PROVE  LedgerInv'
<1>1. file \in Ledgers
  BY DEF LedgerInv, LedgerTypeOK
<1>2. JobOK(r, j)
  BY <1>1, ExtendsNothing DEF JobOK
<1>3. QED
  BY <1>2, JobStep

\* What recording a plan that was chosen on the file as it still is does to the file.
LEMMA Recorded ==
  ASSUME LedgerInv, NEW r \in Runs, job[r].at = "write", Unchanged(r),
         file' = WithPlan(job[r].seen, r, job[r].plan), UNCHANGED Public
  PROVE  /\ file' \in Ledgers /\ Extends(file, file') /\ job[r].plan \in Reserved(file')
         /\ SequencesBounded' /\ FileInv'
<1> DEFINE plan == job[r].plan
<1>1. job[r] \in Jobs /\ Picked(r, job[r]) /\ file \in Ledgers /\ FileInv /\ LedgerTypeOK
  BY DEF LedgerInv, LedgerTypeOK, JobOK
<1>2. plan \in Plans /\ plan # NoPlan /\ WellFormed(plan, r)
  BY <1>1 DEF Jobs, Picked, WellFormed, NoPlan
<1>3. /\ file' = [file EXCEPT !.exists = TRUE, !.counter = plan.build, !.plans[r] = plan]
      /\ plan.build > file.counter /\ file.plans[r] = NoPlan
      /\ \A p \in Reserved(file) : p.tag = plan.tag => p.channel = "stable"
  BY <1>1 DEF Unchanged, WithPlan, Picked
<1>4. plan.build \in Nat /\ plan.tag \in Tags /\ file.counter \in Nat /\ file.floor \in Nat
      /\ file.plans \in [Runs -> Plans]
  BY <1>1, <1>2 DEF Plans, Ledgers
<1> HIDE DEF plan
<1>5. /\ file'.counter = plan.build /\ file'.floor = file.floor
      /\ file'.plans = [file.plans EXCEPT ![r] = plan]
  BY <1>1, <1>3 DEF Ledgers
<1>6. file' \in Ledgers
  <2>1. file'.plans \in [Runs -> Plans]
    BY <1>2, <1>4, <1>5
  <2>2. file' = [file EXCEPT !.exists = TRUE, !.counter = plan.build, !.plans = file'.plans]
    BY <1>1, <1>3, <1>5 DEF Ledgers
  <2>3. QED
    BY <1>1, <1>4, <2>1, <2>2 DEF Ledgers
<1>7. Extends(file, file')
  BY <1>3, <1>4, <1>5 DEF Extends
<1>8. plan \in Reserved(file')
  <2>1. file'.plans[r] = plan
    BY <1>4, <1>5
  <2>2. QED
    BY <1>2, <2>1 DEF Reserved
<1>9. Reserved(file') \subseteq Reserved(file) \cup {plan}
  <2>1. \A q \in Runs : file'.plans[q] = IF q = r THEN plan ELSE file.plans[q]
    BY <1>4, <1>5
  <2>2. QED
    BY <2>1 DEF Reserved
<1>10. SequencesBounded'
  <2>1. PICK n \in Nat : /\ \A t \in tags \cup published : t[3] <= n
                         /\ \A p \in Reserved(file) : p.tag[3] <= n
    BY DEF LedgerInv, SequencesBounded
  <2>2. plan.tag[3] \in Nat
    BY <1>4 DEF Tags
  <2>3. PICK m \in Nat : n <= m /\ plan.tag[3] <= m
    BY <2>2, Larger
  <2>4. \A t \in tags \cup published : t[3] \in Nat
    BY <1>1 DEF LedgerTypeOK, Tags
  <2>5. \A p \in Reserved(file) : p.tag[3] \in Nat
    BY <1>1, ReservedTyped DEF Plans, Tags
  <2>6. \A t \in tags \cup published : t[3] <= m
    BY <2>1, <2>3, <2>4
  <2>7. \A p \in Reserved(file) \cup {plan} : p.tag[3] <= m
    BY <2>1, <2>3, <2>5
  <2>8. (\A t \in tags \cup published : t[3] <= m)'
    BY <2>6 DEF Public
  <2>9. \A p \in Reserved(file') : p.tag[3] <= m
    BY <1>9, <2>7
  <2>10. QED
    BY <2>8, <2>9 DEF SequencesBounded, Reserved
<1>11. LedgerReadable'
  <2>1. file.floor <= plan.build
    BY <1>1, <1>3, <1>4 DEF FileInv, LedgerReadable
  <2>2. \A q \in Runs : file.plans[q].build \in Nat /\ file.plans[q].build <= file.counter
    BY <1>1, <1>4 DEF FileInv, LedgerReadable, Plans
  <2>3. \A q \in Runs : file'.plans[q].build <= plan.build
    BY <1>3, <1>4, <1>5, <2>2
  <2>4. QED
    BY <1>5, <2>1, <2>3 DEF LedgerReadable
<1>12. (\A q \in Runs : file.plans[q] # NoPlan => WellFormed(file.plans[q], q))'
  <2>1. \A q \in Runs : file'.plans[q] # NoPlan => WellFormed(file'.plans[q], q)
    BY <1>1, <1>2, <1>4, <1>5 DEF FileInv
  <2>2. QED
    BY <2>1 DEF WellFormed
<1>13. ReservationsDistinct'
  <2>1. ASSUME NEW p \in Reserved(file) \cup {plan}, NEW q \in Reserved(file) \cup {plan},
               p.run # q.run
        PROVE  p.build # q.build /\ (p.tag = q.tag => p.channel = "stable")
    <3>1. \A o \in Reserved(file) : o.build \in Nat /\ o.build <= file.counter
                                    /\ o.tag[2] = o.channel
      BY <1>1, <1>4 DEF Reserved, FileInv, LedgerReadable, WellFormed, Plans
    <3>2. \A o \in Reserved(file) : o.build # plan.build
      BY <1>3, <1>4, <3>1
    <3>3. \A o \in Reserved(file) : o.tag = plan.tag => o.channel = "stable" /\ plan.channel = "stable"
      BY <1>2, <1>3, <3>1 DEF WellFormed
    <3>4. QED
      BY <1>1, <2>1, <3>2, <3>3 DEF FileInv, ReservationsDistinct
  <2>2. QED
    BY <1>9, <2>1 DEF ReservationsDistinct, Reserved
<1>14. QED
  BY <1>6, <1>7, <1>8, <1>10, <1>11, <1>12, <1>13 DEF FileInv, plan

LEMMA StepWriteReservation ==
  ASSUME LedgerInv, NEW r \in Runs, NEW told \in BOOLEAN, WriteReservation(r, told)
  PROVE  LedgerInv'
<1> DEFINE plan == IF told THEN job[r].plan ELSE NoPlan
           j == [job[r] EXCEPT !.at = IF told THEN "built" ELSE "failed",
                               !.plan = IF told THEN @ ELSE NoPlan, !.seen = NoFile]
<1>1. job[r] \in Jobs /\ job[r].at = "write"
  BY DEF LedgerInv, LedgerTypeOK, WriteReservation
<1>2. CASE Unchanged(r) /\ file' = WithPlan(job[r].seen, r, job[r].plan) /\ Become(r, j)
  <2>1. /\ file' \in Ledgers /\ Extends(file, file') /\ job[r].plan \in Reserved(file')
        /\ SequencesBounded' /\ FileInv'
    BY <1>1, <1>2, Recorded DEF WriteReservation
  <2>2. job[r].plan \in Plans
    BY <1>1 DEF Jobs
  <2>3. j \in Jobs /\ j.seen = NoFile /\ j.at \in Plain /\ j.plan \in {job[r].plan, NoPlan}
    BY <1>1, <2>2, NoneTyped DEF Jobs, Places, Plain
  <2>4. UNCHANGED <<branch, Public>>
    BY DEF WriteReservation
  <2> HIDE DEF j
  <2>5. QED
    BY <1>2, <2>1, <2>3, <2>4, FileStep
<1>3. CASE /\ Become(r, [job[r] EXCEPT !.at = "failed", !.plan = NoPlan, !.seen = NoFile])
           /\ UNCHANGED file
  <2> DEFINE k == [job[r] EXCEPT !.at = "failed", !.plan = NoPlan, !.seen = NoFile]
  <2>1. Become(r, k) /\ UNCHANGED <<branch, file, Public>>
    BY <1>3 DEF WriteReservation
  <2>2. k \in Jobs /\ k.at = "failed" /\ k.seen = NoFile /\ k.plan = NoPlan
    BY <1>1, NoneTyped DEF Jobs, Places
  <2> HIDE DEF k
  <2>3. QED
    BY <2>1, <2>2, Refused
<1>4. QED
  BY <1>2, <1>3 DEF WriteReservation

LEMMA StepWriteFloor ==
  ASSUME LedgerInv, NEW r \in Runs, NEW told \in BOOLEAN, WriteFloor(r, told)
  PROVE  LedgerInv'
<1> DEFINE plan == job[r].plan
           j == [job[r] EXCEPT !.at = IF told THEN "tag" ELSE "failed", !.seen = NoFile]
           k == [job[r] EXCEPT !.at = "failed", !.seen = NoFile]
<1>1. /\ job[r] \in Jobs /\ JobOK(r, job[r]) /\ job[r].at = "floor" /\ Cleared(job[r])
      /\ file \in Ledgers /\ FileInv
  BY DEF LedgerInv, LedgerTypeOK, WriteFloor, JobOK
<1>2. plan \in Plans /\ plan.build \in Nat
  BY <1>1 DEF Jobs, Plans
<1>3. plan # NoPlan => plan \in Reserved(file)
  BY <1>1 DEF JobOK
<1>4. UNCHANGED <<branch, Public>>
  BY DEF WriteFloor
<1>5. CASE Unchanged(r) /\ file' = [job[r].seen EXCEPT !.floor = plan.build] /\ Become(r, j)
  <2>1. file' = [file EXCEPT !.floor = plan.build]
    BY <1>5 DEF Unchanged
  <2>2. plan \in Reserved(file) /\ plan.build >= file.floor
    BY <1>1, <1>5 DEF Cleared, Unchanged
  <2>3. plan.build <= file.counter
    BY <1>1, <2>2 DEF FileInv, LedgerReadable, Reserved
  <2>4. j \in Jobs /\ j.seen = NoFile /\ j.at \in Plain /\ j.plan = plan
    BY <1>1, NoneTyped DEF Jobs, Places, Plain
  <2> HIDE DEF plan, j
  <2>5. file' \in Ledgers /\ file'.plans = file.plans /\ file'.counter = file.counter
        /\ file'.floor = plan.build
    BY <1>1, <1>2, <2>1 DEF Ledgers
  <2>6. Extends(file, file')
    BY <1>1, <2>2, <2>5 DEF Extends, Ledgers
  <2>7. Reserved(file') = Reserved(file)
    BY <2>5 DEF Reserved
  <2>8. FileInv'
    BY <1>1, <2>3, <2>5, <2>7
       DEF FileInv, LedgerReadable, ReservationsDistinct, WellFormed, Reserved
  <2>9. SequencesBounded'
    BY <1>4, <2>7 DEF LedgerInv, SequencesBounded, Public, Reserved
  <2>10. QED
    BY <1>4, <1>5, <2>2, <2>4, <2>5, <2>6, <2>7, <2>8, <2>9, FileStep
<1>6. CASE Become(r, k) /\ UNCHANGED file
  <2>1. k \in Jobs /\ k.at = "failed" /\ k.seen = NoFile /\ k.plan = plan
    BY <1>1, NoneTyped DEF Jobs, Places
  <2> HIDE DEF k, plan
  <2>2. QED
    BY <1>3, <1>4, <1>6, <2>1, Refused
<1>7. QED
  BY <1>5, <1>6 DEF WriteFloor

-----------------------------------------------------------------------------
(* The checks before publication *)

LEMMA StepPrecheck ==
  ASSUME LedgerInv, NEW r \in Runs, Precheck(r)
  PROVE  LedgerInv'
<1>1. job[r].at = "built"
  BY DEF Precheck
<1>2. CASE Go(r, "checked")
  BY <1>1, <1>2, MoveOn DEF Precheck, Plain, Places
<1>3. CASE Fails(r)
  BY <1>1, <1>3, MoveOn DEF Fails, Precheck, Plain, Places
<1>4. QED
  BY <1>2, <1>3 DEF Precheck

LEMMA StepReadForPublication ==
  ASSUME LedgerInv, NEW r \in Runs, ReadForPublication(r)
  PROVE  LedgerInv'
<1> DEFINE j == IF Unreadable THEN [job[r] EXCEPT !.at = "failed"]
                ELSE [job[r] EXCEPT !.at = "order", !.seen = file]
<1>1. job[r] \in Jobs /\ JobOK(r, job[r]) /\ file \in Ledgers /\ job[r].at = "checked"
  BY DEF LedgerInv, LedgerTypeOK, ReadForPublication
<1>2. j \in Jobs
  BY <1>1 DEF Jobs, Places
<1>3. j.at \in {"failed", "order"} /\ j.plan = job[r].plan /\ j.seen \in {file, job[r].seen}
  BY <1>1 DEF Jobs
<1>4. Become(r, j) /\ UNCHANGED <<branch, file, Public>>
  BY DEF ReadForPublication
<1> HIDE DEF j
<1>5. Extends(j.seen, file)
  BY <1>1, <1>3, ExtendsSelf DEF JobOK
<1>6. JobOK(r, j)
  BY <1>1, <1>3, <1>5 DEF JobOK
<1>7. QED
  BY <1>2, <1>4, <1>6, JobStep

\* What passes the check of the order is in the ledger read, above its floor (286-302).
LEMMA AcceptedCleared ==
  ASSUME LedgerInv, NEW r \in Runs, Accepted(r)
  PROVE  Cleared(job[r])
<1> DEFINE plan == job[r].plan
           ledger == job[r].seen
<1>1. plan \in Plans /\ ledger \in Ledgers
  BY DEF LedgerInv, LedgerTypeOK, Jobs
<1>2. plan.build \in Nat /\ ledger.floor \in Nat
  BY <1>1 DEF Plans, Ledgers
<1>3. CASE job[r].promotes
  BY <1>3 DEF Accepted, PromotionInOrder, Cleared
<1>4. CASE ~job[r].promotes
  <2>1. ledger.plans[r] = plan /\ plan.build > ledger.floor
    BY <1>4 DEF Accepted, InOrder
  <2>2. plan # NoPlan
    BY <1>2, <2>1 DEF NoPlan
  <2>3. plan \in Reserved(ledger)
    BY <2>1, <2>2 DEF Reserved
  <2>4. QED
    BY <1>2, <2>1, <2>3 DEF Cleared
<1>5. QED
  BY <1>3, <1>4

LEMMA StepCheckOrder ==
  ASSUME LedgerInv, NEW r \in Runs, CheckOrder(r)
  PROVE  LedgerInv'
<1>1. job[r] \in Jobs /\ JobOK(r, job[r]) /\ job[r].at = "order"
  BY DEF LedgerInv, LedgerTypeOK, CheckOrder
<1>2. CASE Accepted(r)
  <2> DEFINE j == [job[r] EXCEPT !.at = "floor"]
  <2>1. j \in Jobs
    BY <1>1 DEF Jobs, Places
  <2>2. Cleared(job[r])
    BY <1>2, AcceptedCleared
  <2>3. JobOK(r, j)
    BY <1>1, <2>2 DEF JobOK, Cleared, Jobs
  <2>4. Become(r, j) /\ UNCHANGED <<branch, file, Public>>
    BY <1>2 DEF CheckOrder, Go, Become
  <2> HIDE DEF j
  <2>5. QED
    BY <2>1, <2>3, <2>4, JobStep
<1>3. CASE ~Accepted(r)
  BY <1>1, <1>3, MoveOn DEF CheckOrder, Plain, Places
<1>4. QED
  BY <1>2, <1>3

-----------------------------------------------------------------------------
(* The public steps *)

LEMMA PublicTagTyped ==
  ASSUME LedgerInv, NEW r \in Runs
  PROVE  PublicTag(r) \in Tags
<1>1. job[r].plan \in Plans /\ job[r].base \in Bases \cup {"none"}
  BY DEF LedgerInv, LedgerTypeOK, Jobs
<1>2. QED
  BY <1>1 DEF PublicTag, StableTag, Tag, Tags, Plans, Channels

\* One tag more, or fewer, and a run that goes on.
LEMMA PublicStep ==
  ASSUME LedgerInv, NEW t \in Tags, job' \in [Runs -> Jobs],
         \A q \in Runs : JobOK(q, job'[q]), UNCHANGED <<branch, file>>,
         tags' \subseteq tags \cup {t}, published' \subseteq published \cup {t}
  PROVE  LedgerInv'
<1>1. LedgerTypeOK'
  BY DEF LedgerInv, LedgerTypeOK
<1>2. FileInv'
  BY DEF LedgerInv, FileInv, LedgerReadable, ReservationsDistinct, Reserved, WellFormed
<1>3. SequencesBounded'
  <2>1. PICK n \in Nat : /\ \A u \in tags \cup published : u[3] <= n
                         /\ \A p \in Reserved(file) : p.tag[3] <= n
    BY DEF LedgerInv, SequencesBounded
  <2>2. t[3] \in Nat
    BY DEF Tags
  <2>3. PICK m \in Nat : n <= m /\ t[3] <= m
    BY <2>2, Larger
  <2>4. (\A u \in tags \cup published : u[3] \in Nat) /\ (\A p \in Reserved(file) : p.tag[3] \in Nat)
    BY ReservedTyped DEF LedgerInv, LedgerTypeOK, Plans, Tags
  <2>5. \A u \in tags' \cup published' : u[3] <= m
    BY <2>1, <2>3, <2>4
  <2>6. \A p \in Reserved(file) : p.tag[3] <= m
    BY <2>1, <2>3, <2>4
  <2>7. QED
    BY <2>5, <2>6 DEF SequencesBounded, Reserved
<1>4. ASSUME NEW q \in Runs PROVE JobOK(q, job[q])'
  BY DEF JobOK, Extends, Cleared, Picked, WellFormed, Reserved
<1>5. QED
  BY <1>1, <1>2, <1>3, <1>4 DEF LedgerInv

LEMMA StepCreateTag ==
  ASSUME LedgerInv, NEW r \in Runs, CreateTag(r)
  PROVE  LedgerInv'
<1>1. job[r] \in Jobs /\ JobOK(r, job[r]) /\ job[r].at = "tag" /\ job \in [Runs -> Jobs]
  BY DEF LedgerInv, LedgerTypeOK, CreateTag
<1>2. CASE Go(r, "release") /\ tags' = tags \cup {PublicTag(r)}
  <2> DEFINE j == [job[r] EXCEPT !.at = "release"]
  <2>1. j \in Jobs
    BY <1>1 DEF Jobs, Places
  <2>2. JobOK(r, j)
    BY <1>1 DEF JobOK, Jobs
  <2>3. job' = [job EXCEPT ![r] = j]
    BY <1>2 DEF Go
  <2> HIDE DEF j
  <2>4. job' \in [Runs -> Jobs] /\ \A q \in Runs : JobOK(q, job'[q])
    BY <1>1, <2>1, <2>2, <2>3 DEF LedgerInv
  <2>5. UNCHANGED <<branch, file, published>>
    BY DEF CreateTag
  <2>6. QED
    BY <1>2, <2>4, <2>5, PublicTagTyped, PublicStep
<1>3. CASE Fails(r) /\ UNCHANGED tags
  BY <1>1, <1>3, MoveOn DEF CreateTag, Fails, Plain, Places, Public
<1>4. QED
  BY <1>2, <1>3 DEF CreateTag

LEMMA StepPublish ==
  ASSUME LedgerInv, NEW r \in Runs, Publish(r)
  PROVE  LedgerInv'
<1> DEFINE j == [NewJob EXCEPT !.at = "done"]
<1>1. job \in [Runs -> Jobs] /\ file \in Ledgers
  BY DEF LedgerInv, LedgerTypeOK
<1>2. j \in Jobs
  BY NoneTyped DEF Jobs, Places
<1>3. j.at = "done" /\ j.seen = NoFile /\ j.plan = NoPlan
  BY DEF NewJob
<1>4. job' = [job EXCEPT ![r] = j]
  BY DEF Publish, Become
<1> HIDE DEF j
<1>5. JobOK(r, j)
  BY <1>1, <1>3, ExtendsNothing DEF JobOK
<1>6. job' \in [Runs -> Jobs] /\ \A q \in Runs : JobOK(q, job'[q])
  BY <1>1, <1>2, <1>4, <1>5 DEF LedgerInv
<1>7. published' = published \cup {PublicTag(r)} /\ UNCHANGED <<branch, file, tags>>
  BY DEF Publish
<1>8. QED
  BY <1>6, <1>7, PublicTagTyped, PublicStep

LEMMA StepDeleteRelease ==
  ASSUME LedgerInv, NEW t \in published, DeleteRelease(t)
  PROVE  LedgerInv'
<1>1. job \in [Runs -> Jobs] /\ t \in Tags /\ \A q \in Runs : JobOK(q, job[q])
  BY DEF LedgerInv, LedgerTypeOK
<1>2. published' = published \ {t} /\ UNCHANGED <<branch, file, job, tags>>
  BY DEF DeleteRelease
<1>3. QED
  BY <1>1, <1>2, PublicStep

-----------------------------------------------------------------------------
(* Failures and reruns *)

LEMMA StepFail ==
  ASSUME LedgerInv, NEW r \in Runs, Fail(r)
  PROVE  LedgerInv'
<1> DEFINE j == [job[r] EXCEPT !.at = "failed", !.seen = NoFile,
                   !.plan = IF job[r].at \in {"branch", "write"} THEN NoPlan ELSE @]
<1>1. job[r] \in Jobs /\ JobOK(r, job[r])
  BY DEF LedgerInv, LedgerTypeOK
<1>2. j \in Jobs
  <2> DEFINE plan == IF job[r].at \in {"branch", "write"} THEN NoPlan ELSE job[r].plan
  <2>1. plan \in Plans
    BY <1>1, NoneTyped DEF Jobs
  <2>2. j = [job[r] EXCEPT !.at = "failed", !.seen = NoFile, !.plan = plan]
    BY <1>1 DEF Jobs
  <2> HIDE DEF plan, j
  <2>3. QED
    BY <1>1, <2>1, <2>2, NoneTyped DEF Jobs, Places
<1>3. /\ j.at = "failed" /\ j.seen = NoFile
      /\ j.plan = IF job[r].at \in {"branch", "write"} THEN NoPlan ELSE job[r].plan
  BY <1>1 DEF Jobs
<1>4. Become(r, j) /\ UNCHANGED <<branch, file, Public>>
  BY DEF Fail
<1> HIDE DEF j
<1>5. j.plan # NoPlan => j.plan \in Reserved(file)
  BY <1>1, <1>3 DEF JobOK
<1>6. QED
  BY <1>2, <1>3, <1>4, <1>5, Refused

LEMMA StepRerun ==
  ASSUME LedgerInv, NEW r \in Runs, Rerun(r)
  PROVE  LedgerInv'
<1> DEFINE j == [job[r] EXCEPT !.at = "built", !.attempt = @ + 1]
           k == [job[r] EXCEPT !.at = "reserve", !.plan = NoPlan, !.attempt = @ + 1]
<1>1. job[r] \in Jobs /\ JobOK(r, job[r]) /\ job[r].at = "failed"
  BY DEF LedgerInv, LedgerTypeOK, Rerun
<1>2. UNCHANGED <<branch, file, Public>> /\ job[r].attempt + 1 \in Nat
  BY <1>1 DEF Rerun, Jobs
<1>3. CASE Become(r, j)
  <2>1. j \in Jobs
    BY <1>1, <1>2 DEF Jobs, Places
  <2>2. JobOK(r, j)
    BY <1>1 DEF JobOK, Jobs
  <2> HIDE DEF j
  <2>3. QED
    BY <1>2, <1>3, <2>1, <2>2, JobStep
<1>4. CASE Become(r, k)
  <2>1. k \in Jobs
    BY <1>1, <1>2, NoneTyped DEF Jobs, Places
  <2>2. JobOK(r, k)
    BY <1>1 DEF JobOK, Jobs
  <2> HIDE DEF k
  <2>3. QED
    BY <1>2, <1>4, <2>1, <2>2, JobStep
<1>5. QED
  BY <1>3, <1>4 DEF Rerun

-----------------------------------------------------------------------------
(* What a step does to the file *)

LEMMA FileGrows ==
  ASSUME LedgerInv, [Next]_vars
  PROVE  Extends(file, file')
<1>1. file \in Ledgers /\ FileInv /\ \A r \in Runs : JobOK(r, job[r]) /\ job[r] \in Jobs
  BY DEF LedgerInv, LedgerTypeOK
<1>2. ASSUME NEW r \in Runs, NEW told \in BOOLEAN, WriteReservation(r, told)
      PROVE  Extends(file, file')
  <2>1. CASE Unchanged(r) /\ file' = WithPlan(job[r].seen, r, job[r].plan)
    <3>1. job[r].at = "write" /\ UNCHANGED Public
      BY <1>2 DEF WriteReservation
    <3>2. QED
      BY <2>1, <3>1, Recorded
  <2>2. CASE UNCHANGED file
    BY <1>1, <2>2, ExtendsSelf
  <2>3. QED
    BY <1>2, <2>1, <2>2 DEF WriteReservation
<1>3. ASSUME NEW r \in Runs, NEW told \in BOOLEAN, WriteFloor(r, told)
      PROVE  Extends(file, file')
  <2>1. CASE Unchanged(r) /\ file' = [job[r].seen EXCEPT !.floor = job[r].plan.build]
    <3>1. file' = [file EXCEPT !.floor = job[r].plan.build]
      BY <2>1 DEF Unchanged
    <3>2. job[r].at = "floor"
      BY <1>3 DEF WriteFloor
    <3>3. job[r].plan.build >= file.floor
      BY <1>1, <2>1, <3>2 DEF JobOK, Cleared, Unchanged
    <3>4. QED
      BY <1>1, <3>1, <3>3 DEF Extends, Ledgers
  <2>2. CASE UNCHANGED file
    BY <1>1, <2>2, ExtendsSelf
  <2>3. QED
    BY <1>3, <2>1, <2>2 DEF WriteFloor
<1>4. CASE UNCHANGED file
  BY <1>1, <1>4, ExtendsSelf
<1>5. QED
  BY <1>2, <1>3, <1>4
     DEF Next, vars, Start, StartStable, ReadLedger, Pick, EnsureBranch, Precheck,
         ReadForPublication, CheckOrder, CreateTag, Publish, Fail, Rerun, DeleteRelease

\* A run about to write the floor stays there unless it writes it or fails.
LEMMA OnlyTheWrite ==
  ASSUME LedgerInv, [Next]_vars, NEW r \in Runs, job[r].at = "floor"
  PROVE  \/ job'[r].at \in {"floor", "failed"}
         \/ \E told \in BOOLEAN : WriteFloor(r, told)
<1>1. job \in [Runs -> Jobs]
  BY DEF LedgerInv, LedgerTypeOK
<1>2. ASSUME NEW q \in Runs, q # r, NEW j, Become(q, j) PROVE job'[r].at = "floor"
  BY <1>1, <1>2 DEF Become
<1>3. ASSUME NEW q \in Runs, q # r, NEW place, Go(q, place) PROVE job'[r].at = "floor"
  BY <1>1, <1>3 DEF Go
<1>4. ASSUME NEW q \in Runs,
             \/ \E base \in Bases, channel \in Dispatched \ {"stable"}, mode \in Modes :
                  Start(q, base, channel, mode)
             \/ \E base \in Bases : \E candidate \in Candidates(base) : StartStable(q, base, candidate)
             \/ ReadLedger(q) \/ Pick(q)
      PROVE  job'[r].at = "floor"
  <2>1. q # r
    BY <1>4 DEF Start, StartStable, ReadLedger, Pick
  <2>2. QED
    BY <1>2, <1>3, <1>4, <2>1 DEF Start, StartStable, ReadLedger, Pick, Fails
<1>5. ASSUME NEW q \in Runs,
             \/ EnsureBranch(q) \/ \E told \in BOOLEAN : WriteReservation(q, told)
             \/ Precheck(q) \/ ReadForPublication(q) \/ CreateTag(q) \/ Publish(q)
      PROVE  job'[r].at = "floor"
  <2>1. q # r
    BY <1>5 DEF EnsureBranch, WriteReservation, Precheck, ReadForPublication, CreateTag, Publish
  <2>2. QED
    BY <1>2, <1>3, <1>5, <2>1
       DEF EnsureBranch, WriteReservation, Precheck, ReadForPublication, CreateTag, Publish, Fails
<1>6. ASSUME NEW q \in Runs, CheckOrder(q) \/ Rerun(q) PROVE job'[r].at = "floor"
  <2>1. q # r
    BY <1>6 DEF CheckOrder, Rerun
  <2>2. QED
    BY <1>2, <1>3, <1>6, <2>1 DEF CheckOrder, Rerun
<1>7. ASSUME NEW q \in Runs, NEW told \in BOOLEAN, WriteFloor(q, told)
      PROVE  job'[r].at = "floor" \/ WriteFloor(r, told)
  BY <1>2, <1>7 DEF WriteFloor
<1>8. ASSUME NEW q \in Runs, Fail(q) PROVE job'[r].at \in {"floor", "failed"}
  <2>1. CASE q # r
    BY <1>2, <1>8, <2>1 DEF Fail
  <2>2. CASE q = r
    BY <1>1, <1>8, <2>2 DEF Fail, Become, Jobs
  <2>3. QED
    BY <2>1, <2>2
<1>9. ASSUME NEW t \in published, DeleteRelease(t) PROVE job'[r].at = "floor"
  BY <1>9 DEF DeleteRelease
<1>10. CASE UNCHANGED vars
  BY <1>10 DEF vars
<1>11. QED
  BY <1>4, <1>5, <1>6, <1>7, <1>8, <1>9, <1>10 DEF Next

LEMMA FloorRaised ==
  ASSUME LedgerInv, NEW r \in Runs, NEW told \in BOOLEAN, WriteFloor(r, told),
         job'[r].at = "tag", ~job[r].promotes
  PROVE  file'.floor > file.floor
<1>1. job \in [Runs -> Jobs] /\ file \in Ledgers /\ JobOK(r, job[r]) /\ job[r].at = "floor"
  BY DEF LedgerInv, LedgerTypeOK, WriteFloor
<1>2. Unchanged(r) /\ file' = [job[r].seen EXCEPT !.floor = job[r].plan.build]
  <2>1. job[r] \in Jobs
    BY <1>1
  <2>2. ~ Become(r, [job[r] EXCEPT !.at = "failed", !.seen = NoFile])
    <3>1. [job[r] EXCEPT !.at = "failed", !.seen = NoFile].at = "failed"
      BY <2>1 DEF Jobs
    <3>2. ASSUME NEW j, j.at = "failed", job' = [job EXCEPT ![r] = j] PROVE FALSE
      BY <1>1, <3>2
    <3>3. QED
      BY <3>1, <3>2 DEF Become
  <2>3. QED
    BY <2>2 DEF WriteFloor
<1>3. job[r].plan.build > file.floor
  BY <1>1, <1>2 DEF JobOK, Cleared, Unchanged
<1>4. QED
  BY <1>1, <1>2, <1>3 DEF Unchanged, Ledgers

-----------------------------------------------------------------------------
(* The theorems *)

LEMMA LedgerInitial == Init => LedgerInv
<1> SUFFICES ASSUME Init PROVE LedgerInv
  OBVIOUS
<1>1. file = NoFile /\ tags = {} /\ published = {} /\ branch = FALSE
      /\ job = [r \in Runs |-> NewJob]
  BY DEF Init
<1>2. LedgerTypeOK
  BY <1>1, NoneTyped DEF LedgerTypeOK
<1>3. \A r \in Runs : file.plans[r] = NoPlan
  BY <1>1 DEF NoFile
<1>4. Reserved(file) = {}
  BY <1>3 DEF Reserved
<1>5. SequencesBounded
  <2>1. (\A t \in tags \cup published : t[3] <= 0) /\ \A p \in Reserved(file) : p.tag[3] <= 0
    BY <1>1, <1>4
  <2>2. QED
    BY <2>1 DEF SequencesBounded
<1>6. FileInv
  <2>1. NoPlan.build = 0 /\ file.counter = 0 /\ file.floor = 0
    BY <1>1 DEF NoPlan, NoFile
  <2>2. QED
    BY <1>3, <1>4, <2>1 DEF FileInv, LedgerReadable, ReservationsDistinct
<1>7. ASSUME NEW r \in Runs PROVE JobOK(r, job[r])
  <2>1. job[r].at = "new" /\ job[r].seen = NoFile /\ job[r].plan = NoPlan
    BY <1>1 DEF NewJob
  <2>2. Extends(NoFile, file)
    BY <1>2, ExtendsNothing DEF LedgerTypeOK
  <2>3. QED
    BY <2>1, <2>2 DEF JobOK
<1>8. QED
  BY <1>2, <1>5, <1>6, <1>7 DEF LedgerInv

LEMMA LedgerStep == LedgerInv /\ [Next]_vars => LedgerInv'
<1> SUFFICES ASSUME LedgerInv, [Next]_vars PROVE LedgerInv'
  OBVIOUS
<1>1. ASSUME NEW r \in Runs, NEW base \in Bases, NEW channel \in Dispatched \ {"stable"},
             NEW mode \in Modes, Start(r, base, channel, mode)
      PROVE  LedgerInv'
  <2>1. channel \in Channels
    BY DEF Channels
  <2>2. QED
    BY <1>1, <2>1, StepStart
<1>2. ASSUME NEW r \in Runs, NEW base \in Bases, NEW candidate \in Candidates(base),
             StartStable(r, base, candidate)
      PROVE  LedgerInv'
  BY <1>2, StepStartStable
<1>3. ASSUME NEW r \in Runs,
             \/ ReadLedger(r) \/ Pick(r) \/ EnsureBranch(r)
             \/ \E told \in BOOLEAN : WriteReservation(r, told)
      PROVE  LedgerInv'
  BY <1>3, StepReadLedger, StepPick, StepEnsureBranch, StepWriteReservation
<1>4. ASSUME NEW r \in Runs,
             \/ Precheck(r) \/ ReadForPublication(r) \/ CheckOrder(r)
             \/ \E told \in BOOLEAN : WriteFloor(r, told)
      PROVE  LedgerInv'
  BY <1>4, StepPrecheck, StepReadForPublication, StepCheckOrder, StepWriteFloor
<1>5. ASSUME NEW r \in Runs, CreateTag(r) \/ Publish(r) \/ Fail(r) \/ Rerun(r)
      PROVE  LedgerInv'
  BY <1>5, StepCreateTag, StepPublish, StepFail, StepRerun
<1>6. ASSUME NEW t \in published, DeleteRelease(t) PROVE LedgerInv'
  BY <1>6, StepDeleteRelease
<1>7. CASE UNCHANGED vars
  BY <1>7 DEF vars, LedgerInv, LedgerTypeOK, SequencesBounded, FileInv, LedgerReadable,
              ReservationsDistinct, JobOK, Extends, Cleared, Picked, WellFormed, Reserved
<1>8. QED
  BY <1>1, <1>2, <1>3, <1>4, <1>5, <1>6, <1>7 DEF Next

\* The inductive invariant: the types, and what relates the file, what each run has read
\* of it and the plan the run holds (release_state.py 89-259).
THEOREM LedgerInvariant == Spec => []LedgerInv
<1>1. QED
  BY LedgerInitial, LedgerStep, PTL DEF Spec

\* Whatever runs overlap, fail or are told their writes failed, every file they leave
\* behind passes read_state's checks (release_state.py 121-144).
THEOREM LedgerStaysReadable == Spec => []LedgerReadable
<1>1. LedgerInv => LedgerReadable
  BY DEF LedgerInv, FileInv
<1>2. QED
  BY <1>1, LedgerInvariant, PTL

\* A run that was given a plan finds it in the ledger as long as it holds it: no other
\* run's write loses it (release_state.py 152-161 and 208-214).
THEOREM LedgerPlansDurable == Spec => []PlansAreDurable
<1>1. LedgerInv => PlansAreDurable
  BY DEF LedgerInv, JobOK, PlansAreDurable
<1>2. QED
  BY <1>1, LedgerInvariant, PTL

\* No two runs' reservations share a build number, nor a tag unless both are final builds
\* of one base (release_state.py 193-213).
THEOREM LedgerReservationsDistinct == Spec => []ReservationsDistinct
<1>1. LedgerInv => ReservationsDistinct
  BY DEF LedgerInv, FileInv
<1>2. QED
  BY <1>1, LedgerInvariant, PTL

\* The file only moves forward: counter and floor never fall, and no write changes or
\* drops a recorded plan (release_state.py 7-11 and 305-328).
THEOREM LedgerForward == Spec => LedgerMovesForward
<1> DEFINE Forward == /\ file'.counter >= file.counter /\ file'.floor >= file.floor
                      /\ \A r \in Runs : file.plans[r] # NoPlan => file'.plans[r] = file.plans[r]
<1>1. LedgerInv /\ LedgerInv' /\ [Next]_vars => [Forward]_vars
  <2> SUFFICES ASSUME LedgerInv, LedgerInv', [Next]_vars PROVE Forward
    OBVIOUS
  <2>1. Extends(file, file')
    BY FileGrows
  <2>2. file \in Ledgers /\ file' \in Ledgers
    BY DEF LedgerInv, LedgerTypeOK
  <2>3. QED
    BY <2>1, <2>2 DEF Extends, Ledgers
<1>2. QED
  BY <1>1, LedgerInvariant, PTL DEF Spec, LedgerMovesForward

\* A run that is told it may publish has raised the floor by that very write: no build
\* number begins publication twice, also not after a lost answer and a rerun
\* (release_state.py 242-245 and 305-316).
THEOREM LedgerConsumesOnce == Spec => NumberConsumedOnce
<1> DEFINE Once == \A r \in Runs : job[r].at = "floor" /\ job'[r].at = "tag" /\ ~job[r].promotes =>
                     file'.floor > file.floor
<1>1. LedgerInv /\ [Next]_vars => [Once]_vars
  <2> SUFFICES ASSUME LedgerInv, [Next]_vars, NEW r \in Runs,
                      job[r].at = "floor", job'[r].at = "tag", ~job[r].promotes
               PROVE  file'.floor > file.floor
    OBVIOUS
  <2>1. PICK told \in BOOLEAN : WriteFloor(r, told)
    BY OnlyTheWrite
  <2>2. QED
    BY <2>1, FloorRaised
<1>2. QED
  BY <1>1, LedgerInvariant, PTL DEF Spec, NumberConsumedOnce

-----------------------------------------------------------------------------
(* One run at a time *)

\* Plan p is for the base and channel that run j was started for.
Mine(j, p) == p.tag[1] = j.base /\ p.tag[2] = j.channel

Due == {"built", "checked", "order", "floor", "tag"}
Outgoing == {"tag", "release"}

\* What run j can count on as long as no other run is active: its base is still open
\* once that was checked, and once its number is consumed all that is public is older.
Follows(r, j) ==
  /\ j.at = "new" => file.plans[r] = NoPlan
  /\ j.at # "done" /\ file.plans[r] # NoPlan => Mine(j, file.plans[r])
  /\ j.at \in {"branch", "write"} \/ (j.at \in Due /\ ~j.promotes) => Mine(j, j.plan)
  /\ j.at \in Due \ {"built"} => BaseOpen(j.base, j.channel)
  /\ j.at \in Outgoing =>
       /\ j.plan.build <= file.floor
       /\ \A e \in shipped : e[2] < j.plan.build \/ (j.promotes /\ e[2] = j.plan.build)

SerialInv ==
  Serialized =>
    /\ \A q, r \in Runs : Active(q) /\ Active(r) => q = r
    /\ \A e \in shipped : e[2] \in Nat /\ e[2] <= file.floor
    /\ \A r \in Runs : Follows(r, job[r])

\* The active run, or one that may start, is alone.
LEMMA Alone ==
  ASSUME Serialized, SerialInv, NEW r \in Runs, Active(r) \/ MayRun(r)
  PROVE  \A q \in Runs \ {r} : ~Active(q)
  BY DEF SerialInv, MayRun

LEMMA OneMoves ==
  ASSUME Serialized, LedgerInv, SerialInv, NEW r \in Runs, NEW j, Become(r, j),
         Active(r) \/ MayRun(r),
         \A q \in Runs \ {r} : file'.plans[q] = file.plans[q],
         \A e \in shipped' : e[2] \in Nat /\ e[2] <= file'.floor,
         Follows(r, job[r])'
  PROVE  SerialInv'
<1>1. \A q \in Runs \ {r} : job'[q] = job[q] /\ ~Active(q) /\ Follows(q, job[q])
  BY Alone DEF Become, LedgerInv, LedgerTypeOK, SerialInv
<1>2. \A q \in Runs \ {r} : job[q].at \in {"new", "done", "failed"}
  BY <1>1 DEF Active
<1>3. \A q \in Runs \ {r} : ~Active(q)'
  BY <1>1, <1>2 DEF Active
<1>4. ASSUME NEW q \in Runs \ {r} PROVE Follows(q, job[q])'
  BY <1>1, <1>2 DEF Follows, Mine, Due, Outgoing
<1>5. QED
  BY <1>3, <1>4 DEF SerialInv

\* A run moves on while ledger, tags and what was published stay.
LEMMA QuietMove ==
  ASSUME Serialized, LedgerInv, SerialInv, NEW r \in Runs, NEW j, Become(r, j),
         Active(r) \/ MayRun(r), UNCHANGED <<file, tags, shipped>>, Follows(r, j)
  PROVE  SerialInv'
<1>1. job'[r] = j
  BY DEF Become, LedgerInv, LedgerTypeOK
<1>2. Follows(r, job[r])'
  BY <1>1 DEF Follows, Mine, BaseOpen
<1>3. \A e \in shipped' : e[2] \in Nat /\ e[2] <= file'.floor
  BY DEF SerialInv
<1>4. QED
  BY <1>2, <1>3, OneMoves

\* A failed run keeps its base and channel and may not publish.
LEMMA FailureFollows ==
  ASSUME Serialized, SerialInv, NEW r \in Runs, Active(r), NEW j,
         j.at = "failed", j.base = job[r].base, j.channel = job[r].channel
  PROVE  Follows(r, j)
  BY DEF SerialInv, Follows, Active, Mine, Due, Outgoing

LEMMA FailureSerial ==
  ASSUME Serialized, LedgerInv, SerialInv, NEW r \in Runs, Active(r), Fails(r),
         UNCHANGED <<file, tags, shipped>>
  PROVE  SerialInv'
<1> DEFINE j == [job[r] EXCEPT !.at = "failed"]
<1>1. job[r] \in Jobs
  BY DEF LedgerInv, LedgerTypeOK
<1>2. j.at = "failed" /\ j.base = job[r].base /\ j.channel = job[r].channel
  BY <1>1 DEF Jobs
<1>3. Become(r, j)
  BY DEF Fails, Go, Become
<1> HIDE DEF j
<1>4. QED
  BY <1>2, <1>3, FailureFollows, QuietMove

LEMMA SerialStart ==
  ASSUME Serialized, LedgerInv, SerialInv, NEW r \in Runs, NEW base, NEW channel, NEW mode,
         Start(r, base, channel, mode)
  PROVE  SerialInv'
<1> DEFINE j == [job[r] EXCEPT !.at = IF BaseOpen(base, channel) THEN "reserve" ELSE "failed",
                               !.base = base, !.channel = channel,
                               !.mode = IF channel = "rc" THEN mode ELSE "none"]
<1>1. job[r] \in Jobs /\ job[r].at = "new" /\ MayRun(r) /\ Follows(r, job[r])
  BY DEF LedgerInv, LedgerTypeOK, SerialInv, Start
<1>2. Become(r, j) /\ UNCHANGED <<file, tags, shipped>>
  BY DEF Start, Public
<1>3. j.at \in {"reserve", "failed"}
  BY <1>1 DEF Jobs
<1> HIDE DEF j
<1>4. Follows(r, j)
  BY <1>1, <1>3 DEF Follows, Due, Outgoing
<1>5. QED
  BY <1>1, <1>2, <1>4, QuietMove

LEMMA SerialStartStable ==
  ASSUME Serialized, LedgerInv, SerialInv, NEW r \in Runs, NEW base, NEW candidate,
         StartStable(r, base, candidate)
  PROVE  SerialInv'
<1> DEFINE promotes == candidate.mode = "promote-bytes"
           j == [job[r] EXCEPT
                   !.at = IF promotes THEN "built" ELSE "reserve",
                   !.base = base, !.channel = "stable", !.parent = candidate.tag,
                   !.promotes = promotes,
                   !.plan = IF promotes THEN candidate ELSE NoPlan]
<1>1. job[r] \in Jobs /\ job[r].at = "new" /\ MayRun(r) /\ Follows(r, job[r])
  BY DEF LedgerInv, LedgerTypeOK, SerialInv, StartStable
<1>2. Become(r, j) /\ UNCHANGED <<file, tags, shipped>>
  BY DEF StartStable, Public
<1>3. j.at = "reserve" \/ (j.at = "built" /\ j.promotes)
  BY <1>1 DEF Jobs
<1> HIDE DEF j, promotes
<1>4. Follows(r, j)
  BY <1>1, <1>3 DEF Follows, Due, Outgoing
<1>5. QED
  BY <1>1, <1>2, <1>4, QuietMove

LEMMA SerialReadLedger ==
  ASSUME Serialized, LedgerInv, SerialInv, NEW r \in Runs, ReadLedger(r)
  PROVE  SerialInv'
<1>1. job[r] \in Jobs /\ job[r].at = "reserve" /\ Active(r) /\ Follows(r, job[r])
      /\ UNCHANGED <<file, tags, shipped>>
  BY DEF LedgerInv, LedgerTypeOK, SerialInv, ReadLedger, Active, Public
<1>2. CASE file.plans[r] # NoPlan /\ Become(r, [job[r] EXCEPT !.at = "built", !.plan = file.plans[r]])
  <2> DEFINE j == [job[r] EXCEPT !.at = "built", !.plan = file.plans[r]]
  <2>1. /\ j.at = "built" /\ j.plan = file.plans[r]
        /\ j.base = job[r].base /\ j.channel = job[r].channel
    BY <1>1 DEF Jobs
  <2> HIDE DEF j
  <2>2. Follows(r, j)
    BY <1>1, <1>2, <2>1 DEF Follows, Mine, Due, Outgoing
  <2>3. QED
    BY <1>1, <1>2, <2>2, QuietMove DEF j
<1>3. CASE file.plans[r] = NoPlan /\ Become(r, [job[r] EXCEPT !.at = "pick", !.seen = file])
  <2> DEFINE j == [job[r] EXCEPT !.at = "pick", !.seen = file]
  <2>1. j.at = "pick"
    BY <1>1 DEF Jobs
  <2> HIDE DEF j
  <2>2. Follows(r, j)
    BY <1>3, <2>1 DEF Follows, Due, Outgoing
  <2>3. QED
    BY <1>1, <1>3, <2>2, QuietMove DEF j
<1>4. QED
  BY <1>1, <1>2, <1>3, FailureSerial DEF ReadLedger

LEMMA SerialPick ==
  ASSUME Serialized, LedgerInv, SerialInv, NEW r \in Runs, Pick(r)
  PROVE  SerialInv'
<1> DEFINE base == job[r].base
           channel == job[r].channel
           tag == Tag(base, channel, NextSequence(r, job[r].seen, base, channel))
           plan == [run |-> r, base |-> base, channel |-> channel, tag |-> tag,
                    build |-> NextBuild(job[r].seen), mode |-> job[r].mode,
                    parent |-> job[r].parent]
           j == [job[r] EXCEPT !.at = "branch", !.plan = plan]
<1>1. job[r] \in Jobs /\ job[r].at = "pick" /\ Active(r) /\ Follows(r, job[r])
      /\ UNCHANGED <<file, tags, shipped>>
  BY DEF LedgerInv, LedgerTypeOK, SerialInv, Pick, Active, Public
<1>2. CASE Become(r, j)
  <2>1. j.at = "branch" /\ j.plan = plan /\ j.base = base /\ j.channel = channel
    BY <1>1 DEF Jobs
  <2>2. plan.tag[1] = base /\ plan.tag[2] = channel
    BY DEF Tag
  <2> HIDE DEF plan, j
  <2>3. Follows(r, j)
    BY <1>1, <2>1, <2>2 DEF Follows, Mine, Due, Outgoing
  <2>4. QED
    BY <1>1, <1>2, <2>3, QuietMove
<1>3. QED
  BY <1>1, <1>2, FailureSerial DEF Pick

LEMMA SerialEnsureBranch ==
  ASSUME Serialized, LedgerInv, SerialInv, NEW r \in Runs, EnsureBranch(r)
  PROVE  SerialInv'
<1> DEFINE j == [job[r] EXCEPT !.at = "write"]
<1>1. job[r] \in Jobs /\ job[r].at = "branch" /\ Active(r) /\ Follows(r, job[r])
  BY DEF LedgerInv, LedgerTypeOK, SerialInv, EnsureBranch, Active
<1>2. Become(r, j) /\ UNCHANGED <<file, tags, shipped>>
  BY DEF EnsureBranch, Go, Become, Public
<1>3. j.at = "write" /\ j.plan = job[r].plan /\ j.base = job[r].base /\ j.channel = job[r].channel
  BY <1>1 DEF Jobs
<1> HIDE DEF j
<1>4. Follows(r, j)
  BY <1>1, <1>3 DEF Follows, Mine, Due, Outgoing
<1>5. QED
  BY <1>1, <1>2, <1>4, QuietMove

LEMMA SerialWriteReservation ==
  ASSUME Serialized, LedgerInv, SerialInv, NEW r \in Runs, NEW told \in BOOLEAN,
         WriteReservation(r, told)
  PROVE  SerialInv'
<1> DEFINE plan == job[r].plan
           j == [job[r] EXCEPT !.at = IF told THEN "built" ELSE "failed",
                               !.plan = IF told THEN @ ELSE NoPlan, !.seen = NoFile]
           k == [job[r] EXCEPT !.at = "failed", !.plan = NoPlan, !.seen = NoFile]
<1>1. /\ job[r] \in Jobs /\ file \in Ledgers /\ job \in [Runs -> Jobs]
      /\ job[r].at = "write" /\ Active(r) /\ Follows(r, job[r]) /\ UNCHANGED Public
  BY DEF LedgerInv, LedgerTypeOK, SerialInv, WriteReservation, Active
<1>2. CASE Unchanged(r) /\ file' = WithPlan(job[r].seen, r, plan) /\ Become(r, j)
  <2>1. Mine(job[r], plan)
    BY <1>1 DEF Follows
  <2>2. /\ j.at \in {"built", "failed"} /\ (j.at = "built" => j.plan = plan)
        /\ j.base = job[r].base /\ j.channel = job[r].channel
    BY <1>1 DEF Jobs
  <2> HIDE DEF plan, j
  <2>3. /\ file' = [file EXCEPT !.exists = TRUE, !.counter = plan.build, !.plans[r] = plan]
    BY <1>2 DEF Unchanged, WithPlan
  <2>4. file'.floor = file.floor /\ file'.plans = [file.plans EXCEPT ![r] = plan]
    BY <1>1, <2>3 DEF Ledgers
  <2>5. file'.plans[r] = plan /\ \A q \in Runs \ {r} : file'.plans[q] = file.plans[q]
    BY <1>1, <2>4 DEF Ledgers
  <2>6. job'[r] = j
    BY <1>1, <1>2 DEF Become
  <2>7. Mine(j, plan)
    BY <2>1, <2>2 DEF Mine
  <2>8. Follows(r, job[r])'
    BY <2>2, <2>5, <2>6, <2>7 DEF Follows, Mine, Due, Outgoing
  <2>9. \A e \in shipped' : e[2] \in Nat /\ e[2] <= file'.floor
    BY <1>1, <2>4 DEF SerialInv, Public
  <2>10. QED
    BY <1>1, <1>2, <2>5, <2>8, <2>9, OneMoves
<1>3. CASE Become(r, k) /\ UNCHANGED file
  <2>1. k.at = "failed" /\ k.base = job[r].base /\ k.channel = job[r].channel
    BY <1>1 DEF Jobs
  <2>2. UNCHANGED <<file, tags, shipped>>
    BY <1>1, <1>3 DEF Public
  <2> HIDE DEF k
  <2>3. QED
    BY <1>1, <1>3, <2>1, <2>2, FailureFollows, QuietMove
<1>4. QED
  BY <1>2, <1>3 DEF WriteReservation

\* A check that is passed: the run goes on with what it had.
LEMMA PassSerial ==
  ASSUME Serialized, LedgerInv, SerialInv, NEW r \in Runs, Active(r),
         job[r].at \in {"built", "checked", "order"}, BaseOpen(job[r].base, job[r].channel),
         NEW j \in Jobs, j.at \in {"checked", "order", "floor"}, j.base = job[r].base,
         j.channel = job[r].channel, j.plan = job[r].plan, j.promotes = job[r].promotes,
         Become(r, j), UNCHANGED <<file, tags, shipped>>
  PROVE  SerialInv'
<1>1. Follows(r, job[r])
  BY DEF SerialInv
<1>2. Follows(r, j)
  BY <1>1 DEF Follows, Mine, Due, Outgoing
<1>3. QED
  BY <1>2, QuietMove

LEMMA SerialChecks ==
  ASSUME Serialized, LedgerInv, SerialInv, NEW r \in Runs,
         Precheck(r) \/ ReadForPublication(r) \/ CheckOrder(r)
  PROVE  SerialInv'
<1>1. /\ job[r] \in Jobs /\ file \in Ledgers /\ job[r].at \in {"built", "checked", "order"}
      /\ Active(r) /\ Follows(r, job[r]) /\ UNCHANGED <<file, tags, shipped>>
  BY DEF LedgerInv, LedgerTypeOK, SerialInv, Precheck, ReadForPublication, CheckOrder,
         Active, Public
<1>2. job[r].at # "built" => BaseOpen(job[r].base, job[r].channel)
  BY <1>1 DEF Follows, Due
<1>3. ASSUME NEW place \in {"checked", "order", "floor"}, Go(r, place),
             BaseOpen(job[r].base, job[r].channel)
      PROVE  SerialInv'
  <2> DEFINE j == [job[r] EXCEPT !.at = place]
  <2>1. /\ j \in Jobs /\ j.at = place /\ j.base = job[r].base /\ j.channel = job[r].channel
        /\ j.plan = job[r].plan /\ j.promotes = job[r].promotes
    BY <1>1 DEF Jobs, Places
  <2>2. Become(r, j)
    BY <1>3 DEF Go, Become
  <2> HIDE DEF j
  <2>3. QED
    BY <1>1, <1>3, <2>1, <2>2, PassSerial
<1>4. ASSUME Become(r, [job[r] EXCEPT !.at = "order", !.seen = file]), job[r].at = "checked"
      PROVE  SerialInv'
  <2> DEFINE j == [job[r] EXCEPT !.at = "order", !.seen = file]
  <2>1. /\ j \in Jobs /\ j.at = "order" /\ j.base = job[r].base /\ j.channel = job[r].channel
        /\ j.plan = job[r].plan /\ j.promotes = job[r].promotes
    BY <1>1 DEF Jobs, Places
  <2>2. Become(r, j)
    BY <1>4
  <2> HIDE DEF j
  <2>3. QED
    BY <1>1, <1>2, <1>4, <2>1, <2>2, PassSerial
<1>5. Become(r, [job[r] EXCEPT !.at = "failed"]) => Fails(r)
  BY DEF Become, Fails, Go
<1>6. CASE Precheck(r)
  BY <1>1, <1>3, <1>6, FailureSerial DEF Precheck
<1>7. CASE ReadForPublication(r)
  BY <1>1, <1>4, <1>5, <1>7, FailureSerial DEF ReadForPublication
<1>8. CASE CheckOrder(r)
  <2>1. job[r].at = "order"
    BY <1>8 DEF CheckOrder
  <2>2. QED
    BY <1>1, <1>2, <1>3, <1>8, <2>1, FailureSerial DEF CheckOrder, Fails
<1>9. QED
  BY <1>6, <1>7, <1>8

\* Once a run has consumed its number, all that is public is older; what it promotes may
\* be as old as the RC it comes from.
LEMMA SerialWriteFloor ==
  ASSUME Serialized, LedgerInv, SerialInv, NEW r \in Runs, NEW told \in BOOLEAN,
         WriteFloor(r, told)
  PROVE  SerialInv'
<1> DEFINE plan == job[r].plan
           j == [job[r] EXCEPT !.at = IF told THEN "tag" ELSE "failed", !.seen = NoFile]
           k == [job[r] EXCEPT !.at = "failed", !.seen = NoFile]
<1>1. /\ job[r] \in Jobs /\ file \in Ledgers /\ job \in [Runs -> Jobs]
      /\ job[r].at = "floor" /\ Active(r) /\ Follows(r, job[r]) /\ Cleared(job[r])
      /\ UNCHANGED Public
  BY DEF LedgerInv, LedgerTypeOK, SerialInv, WriteFloor, Active, JobOK
<1>2. plan.build \in Nat /\ file.floor \in Nat
  BY <1>1 DEF Jobs, Plans, Ledgers
<1>3. CASE Unchanged(r) /\ file' = [job[r].seen EXCEPT !.floor = plan.build] /\ Become(r, j)
  <2>1. /\ j.at \in {"tag", "failed"} /\ j.base = job[r].base /\ j.channel = job[r].channel
        /\ j.plan = plan /\ j.promotes = job[r].promotes
    BY <1>1 DEF Jobs
  <2>2. plan.build >= file.floor /\ (~job[r].promotes => plan.build > file.floor)
    BY <1>1, <1>3 DEF Cleared, Unchanged
  <2> HIDE DEF plan, j
  <2>3. file'.floor = plan.build /\ file'.plans = file.plans
    BY <1>1, <1>3 DEF Unchanged, Ledgers
  <2>4. job'[r] = j
    BY <1>1, <1>3 DEF Become
  <2>5. \A e \in shipped : /\ e[2] \in Nat /\ e[2] <= plan.build
                           /\ ~job[r].promotes => e[2] < plan.build
    BY <1>2, <2>2 DEF SerialInv
  <2>6. BaseOpen(job[r].base, job[r].channel) /\ (~job[r].promotes => Mine(job[r], plan))
    BY <1>1 DEF Follows, Due, plan
  <2>7. job[r].promotes \in BOOLEAN /\ UNCHANGED <<tags, shipped>>
    BY <1>1 DEF Jobs, Public
  <2>8. file.plans[r] # NoPlan => Mine(job[r], file.plans[r])
    BY <1>1 DEF Follows
  <2>9. \A e \in shipped : e[2] < plan.build \/ (job[r].promotes /\ e[2] = plan.build)
    BY <1>2, <2>5, <2>7
  <2>10. Follows(r, job[r])'
    BY <1>2, <2>1, <2>3, <2>4, <2>6, <2>7, <2>8, <2>9 DEF Follows, Mine, BaseOpen, Due, Outgoing
  <2>11. \A e \in shipped' : e[2] \in Nat /\ e[2] <= file'.floor
    BY <2>3, <2>5, <2>7
  <2>12. QED
    BY <1>1, <1>3, <2>3, <2>10, <2>11, OneMoves
<1>4. CASE Become(r, k) /\ UNCHANGED file
  <2>1. k.at = "failed" /\ k.base = job[r].base /\ k.channel = job[r].channel
    BY <1>1 DEF Jobs
  <2>2. UNCHANGED <<file, tags, shipped>>
    BY <1>1, <1>4 DEF Public
  <2> HIDE DEF k
  <2>3. QED
    BY <1>1, <1>4, <2>1, <2>2, FailureFollows, QuietMove
<1>5. QED
  BY <1>3, <1>4 DEF WriteFloor

LEMMA SerialCreateTag ==
  ASSUME Serialized, LedgerInv, SerialInv, NEW r \in Runs, CreateTag(r)
  PROVE  SerialInv'
<1> DEFINE j == [job[r] EXCEPT !.at = "release"]
<1>1. /\ job[r] \in Jobs /\ job \in [Runs -> Jobs] /\ job[r].at = "tag"
      /\ Active(r) /\ Follows(r, job[r]) /\ UNCHANGED <<file, shipped>>
  BY DEF LedgerInv, LedgerTypeOK, SerialInv, CreateTag, Active
<1>2. CASE Go(r, "release")
  <2>1. /\ j.at = "release" /\ j.base = job[r].base /\ j.channel = job[r].channel
        /\ j.plan = job[r].plan /\ j.promotes = job[r].promotes
    BY <1>1 DEF Jobs
  <2>2. Become(r, j) /\ job'[r] = j
    BY <1>1, <1>2 DEF Go, Become
  <2> HIDE DEF j
  <2>3. Follows(r, job[r])'
    BY <1>1, <2>1, <2>2 DEF Follows, Mine, Due, Outgoing
  <2>4. \A e \in shipped' : e[2] \in Nat /\ e[2] <= file'.floor
    BY <1>1 DEF SerialInv
  <2>5. QED
    BY <1>1, <2>2, <2>3, <2>4, OneMoves
<1>3. CASE Fails(r) /\ UNCHANGED tags
  BY <1>1, <1>3, FailureSerial
<1>4. QED
  BY <1>2, <1>3 DEF CreateTag

LEMMA SerialPublish ==
  ASSUME Serialized, LedgerInv, SerialInv, NEW r \in Runs, Publish(r)
  PROVE  SerialInv'
<1> DEFINE j == [NewJob EXCEPT !.at = "done"]
<1>1. /\ job[r] \in Jobs /\ job \in [Runs -> Jobs] /\ job[r].at = "release"
      /\ Active(r) /\ Follows(r, job[r]) /\ UNCHANGED <<file, tags>>
      /\ shipped' = shipped \cup {<<PublicTag(r), job[r].plan.build>>}
  BY DEF LedgerInv, LedgerTypeOK, SerialInv, Publish, Active
<1>2. Become(r, j) /\ job'[r] = j
  BY <1>1 DEF Publish, Become
<1>3. j.at = "done"
  BY DEF NewJob
<1> HIDE DEF j
<1>4. Follows(r, job[r])'
  BY <1>2, <1>3 DEF Follows, Due, Outgoing
<1>5. job[r].plan.build \in Nat /\ job[r].plan.build <= file.floor
  BY <1>1 DEF Jobs, Plans, Follows, Outgoing
<1>6. \A e \in shipped' : e[2] \in Nat /\ e[2] <= file'.floor
  BY <1>1, <1>5 DEF SerialInv
<1>7. QED
  BY <1>1, <1>2, <1>4, <1>6, OneMoves

LEMMA SerialFail ==
  ASSUME Serialized, LedgerInv, SerialInv, NEW r \in Runs, Fail(r)
  PROVE  SerialInv'
<1> DEFINE j == [job[r] EXCEPT !.at = "failed", !.seen = NoFile,
                   !.plan = IF job[r].at \in {"branch", "write"} THEN NoPlan ELSE @]
<1>1. job[r] \in Jobs
  BY DEF LedgerInv, LedgerTypeOK
<1>2. j.at = "failed" /\ j.base = job[r].base /\ j.channel = job[r].channel
  BY <1>1 DEF Jobs
<1>3. Active(r) /\ Become(r, j) /\ UNCHANGED <<file, tags, shipped>>
  BY DEF Fail, Public
<1> HIDE DEF j
<1>4. QED
  BY <1>2, <1>3, FailureFollows, QuietMove

LEMMA SerialRerun ==
  ASSUME Serialized, LedgerInv, SerialInv, NEW r \in Runs, Rerun(r)
  PROVE  SerialInv'
<1> DEFINE j == [job[r] EXCEPT !.at = "built", !.attempt = @ + 1]
           k == [job[r] EXCEPT !.at = "reserve", !.plan = NoPlan, !.attempt = @ + 1]
<1>1. /\ job[r] \in Jobs /\ job[r].at = "failed" /\ MayRun(r) /\ Follows(r, job[r])
      /\ UNCHANGED <<file, tags, shipped>>
  BY DEF LedgerInv, LedgerTypeOK, SerialInv, Rerun, Public
<1>2. CASE job[r].promotes /\ Become(r, j)
  <2>1. j.at = "built" /\ j.promotes /\ j.base = job[r].base /\ j.channel = job[r].channel
    BY <1>1, <1>2 DEF Jobs
  <2> HIDE DEF j
  <2>2. Follows(r, j)
    BY <1>1, <2>1 DEF Follows, Mine, Due, Outgoing
  <2>3. QED
    BY <1>1, <1>2, <2>2, QuietMove
<1>3. CASE Become(r, k)
  <2>1. k.at = "reserve" /\ k.base = job[r].base /\ k.channel = job[r].channel
    BY <1>1 DEF Jobs
  <2> HIDE DEF k
  <2>2. Follows(r, k)
    BY <1>1, <2>1 DEF Follows, Mine, Due, Outgoing
  <2>3. QED
    BY <1>1, <1>3, <2>2, QuietMove
<1>4. QED
  BY <1>2, <1>3 DEF Rerun

LEMMA SerialInitial == Init => SerialInv
  BY DEF Init, SerialInv, Active, Follows, NewJob, NoFile, Due, Outgoing

LEMMA SerialStep == LedgerInv /\ SerialInv /\ [Next]_vars => SerialInv'
<1> SUFFICES ASSUME LedgerInv, SerialInv, [Next]_vars, Serialized PROVE SerialInv'
  BY DEF SerialInv
<1>1. ASSUME NEW r \in Runs, NEW base \in Bases, NEW channel \in Dispatched \ {"stable"},
             NEW mode \in Modes, Start(r, base, channel, mode)
      PROVE  SerialInv'
  BY <1>1, SerialStart
<1>2. ASSUME NEW r \in Runs, NEW base \in Bases, NEW candidate \in Candidates(base),
             StartStable(r, base, candidate)
      PROVE  SerialInv'
  BY <1>2, SerialStartStable
<1>3. ASSUME NEW r \in Runs,
             \/ ReadLedger(r) \/ Pick(r) \/ EnsureBranch(r)
             \/ \E told \in BOOLEAN : WriteReservation(r, told)
      PROVE  SerialInv'
  BY <1>3, SerialReadLedger, SerialPick, SerialEnsureBranch, SerialWriteReservation
<1>4. ASSUME NEW r \in Runs,
             \/ Precheck(r) \/ ReadForPublication(r) \/ CheckOrder(r)
             \/ \E told \in BOOLEAN : WriteFloor(r, told)
      PROVE  SerialInv'
  BY <1>4, SerialChecks, SerialWriteFloor
<1>5. ASSUME NEW r \in Runs, CreateTag(r) \/ Publish(r) \/ Fail(r) \/ Rerun(r)
      PROVE  SerialInv'
  BY <1>5, SerialCreateTag, SerialPublish, SerialFail, SerialRerun
<1>6. ASSUME UNCHANGED <<file, job, tags, shipped>> PROVE SerialInv'
  BY <1>6 DEF SerialInv, Active, Follows, Mine, BaseOpen, Due, Outgoing
<1>7. ASSUME NEW t \in published, DeleteRelease(t) PROVE SerialInv'
  BY <1>6, <1>7 DEF DeleteRelease
<1>8. CASE UNCHANGED vars
  BY <1>6, <1>8 DEF vars
<1>9. QED
  BY <1>1, <1>2, <1>3, <1>4, <1>5, <1>7, <1>8 DEF Next

LEMMA SerialInvariant == Spec => []SerialInv
<1>1. QED
  BY SerialInitial, SerialStep, LedgerInvariant, PTL DEF Spec

\* Only a publication adds to what was ever published, and only a run about to publish
\* adds a tag.
LEMMA WhoGoesPublic ==
  ASSUME [Next]_vars
  PROVE  /\ shipped' = shipped \/ \E r \in Runs : Publish(r)
         /\ tags' = tags \/ \E r \in Runs : CreateTag(r) /\ tags' = tags \cup {PublicTag(r)}
                                             /\ PublicTag(r) \notin tags
  BY DEF Next, vars, Public, Start, StartStable, ReadLedger, Pick, EnsureBranch,
         WriteReservation, Precheck, ReadForPublication, CheckOrder, WriteFloor, CreateTag,
         Publish, Fail, Rerun, DeleteRelease

\* With the concurrency group, what becomes public has a higher build number than all
\* that ever was, or it is an RC's own bytes under their old number, as stable; reruns,
\* promotions and deleted releases included (release_state.py 262-302).
THEOREM LedgerNoDowngrade == Spec => NoDowngrade
<1> DEFINE Up == Serialized => \A new \in shipped' \ shipped : \A old \in shipped :
                   \/ new[2] > old[2]
                   \/ new[2] = old[2] /\ new[1][2] = "stable"
<1>1. LedgerInv /\ SerialInv /\ [Next]_vars => [Up]_vars
  <2> SUFFICES ASSUME LedgerInv, SerialInv, [Next]_vars, Serialized,
                      NEW new \in shipped' \ shipped, NEW old \in shipped
               PROVE  new[2] > old[2] \/ (new[2] = old[2] /\ new[1][2] = "stable")
    OBVIOUS
  <2>1. PICK r \in Runs : Publish(r)
    BY WhoGoesPublic
  <2>2. new = <<PublicTag(r), job[r].plan.build>> /\ job[r].at = "release"
    BY <2>1 DEF Publish
  <2>3. old[2] < job[r].plan.build \/ (job[r].promotes /\ old[2] = job[r].plan.build)
    BY <2>2 DEF SerialInv, Follows, Outgoing
  <2>4. job[r].promotes => PublicTag(r)[2] = "stable"
    BY DEF PublicTag, StableTag, Tag
  <2>5. old[2] \in Nat /\ job[r].plan.build \in Nat
    BY DEF SerialInv, LedgerInv, LedgerTypeOK, Jobs, Plans
  <2>6. QED
    BY <2>2, <2>3, <2>4, <2>5
<1>2. QED
  BY <1>1, LedgerInvariant, SerialInvariant, PTL DEF Spec, NoDowngrade

\* With the concurrency group, once a base has its stable tag no beta, RC or second
\* stable of it is tagged, whenever its plan was reserved (release_control.py 730-732).
THEOREM LedgerNothingAfterStable == Spec => NothingAfterStable
<1> DEFINE Closed == Serialized => \A t \in tags' \ tags :
                       t[2] # "nightly" => StableTag(t[1]) \notin tags
<1>1. LedgerInv /\ SerialInv /\ [Next]_vars => [Closed]_vars
  <2> SUFFICES ASSUME LedgerInv, SerialInv, [Next]_vars, Serialized,
                      NEW t \in tags' \ tags, t[2] # "nightly"
               PROVE  StableTag(t[1]) \notin tags
    OBVIOUS
  <2>1. PICK r \in Runs : CreateTag(r) /\ tags' = tags \cup {PublicTag(r)} /\ PublicTag(r) \notin tags
    BY WhoGoesPublic
  <2>2. t = PublicTag(r) /\ job[r].at = "tag"
    BY <2>1 DEF CreateTag
  <2>3. CASE job[r].promotes
    BY <2>1, <2>2, <2>3 DEF PublicTag, StableTag, Tag
  <2>4. CASE ~job[r].promotes
    <3>1. BaseOpen(job[r].base, job[r].channel) /\ Mine(job[r], job[r].plan)
      BY <2>2, <2>4 DEF SerialInv, Follows, Due
    <3>2. QED
      BY <2>2, <2>4, <3>1 DEF PublicTag, Mine, BaseOpen
  <2>5. QED
    BY <2>3, <2>4
<1>2. QED
  BY <1>1, LedgerInvariant, SerialInvariant, PTL DEF Spec, NothingAfterStable
================================================================================
