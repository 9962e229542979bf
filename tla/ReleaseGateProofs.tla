--------------------------- MODULE ReleaseGateProofs ---------------------------
(***************************************************************************)
(* Proofs about ReleaseGate, for any set of checks, any number of attempts *)
(* and any wait and pause.                                                 *)
(***************************************************************************)
EXTENDS ReleaseGate, TLAPS

USE GateAssumption

-----------------------------------------------------------------------------
(* The invariant *)

Results == {"waiting", "success", "failure"}
States == [result : Results, ran : Nat]
Publishers == [at : {"none", "run", "jobs", "attempt", "accept", "pause", "asleep",
                     "authorised", "failed"},
               why : {"none", "refused", "timeout", "read"}, mine : Nat, gated : BOOLEAN,
               deadline : Nat, wake : Nat, listed : SUBSET States]

GateTypeOK ==
  /\ now \in Nat
  /\ attempt \in Attempts
  /\ active \in BOOLEAN
  /\ jobs \in [Attempts -> [Jobs -> States]]
  /\ publisher \in Publishers

\* A listed job ran in this attempt or an earlier one; the gate passes last.
Ordered(a, row) ==
  /\ \A j \in Jobs : /\ row[j].result = "waiting" <=> row[j].ran = 0
                     /\ row[j].ran <= a
  /\ row[Gate].result = "success" => \A j \in Jobs : row[j].result = "success"

\* Succeeded in an earlier attempt, and so never stale in a listing.
Copied(job, a) == job.result = "success" /\ job.ran \notin {0, a}

Mine == jobs[publisher.mine]

PublisherOK ==
  /\ publisher.at # "none" => publisher.mine \in 1 .. attempt
  /\ publisher.at = "none" => publisher.mine = 0
  /\ publisher.at \in {"jobs", "attempt"} => publisher.gated
  /\ publisher.at # "none" /\ publisher.gated => Mine[Gate].result = "success"
  /\ At("attempt") =>
       /\ \A j \in Jobs : Copied(Mine[j], publisher.mine) => Mine[j] \in publisher.listed
       /\ \A job \in publisher.listed : job.result = "success" /\ \E j \in Jobs : job = Mine[j]
  /\ (At("accept") \/ At("authorised")) /\ publisher.gated =>
       \A j \in Jobs : Mine[j] = [result |-> "success", ran |-> publisher.mine]
  /\ PatientWithLag

GateInv ==
  /\ GateTypeOK
  /\ \A a \in Attempts : Ordered(a, jobs[a])
  /\ PublisherOK

-----------------------------------------------------------------------------
(* Actions goes on *)

LEMMA MineIsAttempt ==
  ASSUME GateInv, publisher.at # "none"
  PROVE  publisher.mine \in Attempts /\ publisher.mine <= attempt
  BY DEF GateInv, GateTypeOK, PublisherOK, Attempts

\* A publisher that waits for the gate looks at an attempt in which nothing can change:
\* its gate has passed, and so have all its checks.
LEMMA MineSettled ==
  ASSUME GateInv, publisher.at # "none", publisher.gated
  PROVE  \A j \in Jobs : Mine[j].result = "success" /\ Mine[j].ran # 0
                         /\ Mine[j].ran <= publisher.mine /\ Mine[j] \in States
<1>1. publisher.mine \in Attempts
  BY MineIsAttempt
<1>2. Ordered(publisher.mine, Mine) /\ Mine[Gate].result = "success"
  BY <1>1 DEF GateInv, PublisherOK, Mine
<1>3. \A j \in Jobs : Mine[j] \in States
  BY <1>1 DEF GateInv, GateTypeOK, Mine
<1>4. QED
  BY <1>2, <1>3 DEF Ordered

\* Steps of Actions that leave the publisher alone, and its attempt if that is settled.
LEMMA ActionsStep ==
  ASSUME GateInv, GateTypeOK', \A a \in Attempts : Ordered(a, jobs'[a]), UNCHANGED publisher,
         publisher.at # "none" /\ publisher.gated => jobs'[publisher.mine] = Mine,
         attempt' >= attempt, active' => (active /\ attempt' = attempt) \/ attempt' > attempt
  PROVE  GateInv'
<1>1. (\A a \in Attempts : Ordered(a, jobs[a]))'
  BY DEF Ordered
<1>2. attempt \in Nat /\ attempt' \in Nat /\ publisher.mine \in Nat
  BY DEF GateInv, GateTypeOK, Attempts, Publishers
<1>3. PatientWithLag'
  <2> SUFFICES ASSUME At("failed"), publisher.why = "refused"
               PROVE  \/ attempt' # publisher.mine \/ ~active'
                      \/ /\ publisher.gated
                         /\ \E j \in Jobs : jobs'[publisher.mine][j].ran \notin {0, publisher.mine}
    BY DEF PatientWithLag, At
  <2>1. publisher.at # "none" /\ publisher.mine <= attempt
    BY MineIsAttempt DEF At
  <2>2. CASE attempt # publisher.mine \/ ~active
    BY <1>2, <2>1, <2>2
  <2>3. CASE publisher.gated /\ \E j \in Jobs : jobs[publisher.mine][j].ran \notin {0, publisher.mine}
    BY <2>1, <2>3 DEF Mine
  <2>4. QED
    BY <2>2, <2>3 DEF GateInv, PublisherOK, PatientWithLag
<1>4. PublisherOK'
  BY <1>2, <1>3 DEF GateInv, PublisherOK, Mine, At, Copied
<1>5. QED
  BY <1>1, <1>4 DEF GateInv

LEMMA StepJobEnds ==
  ASSUME GateInv, NEW j \in Jobs, NEW result \in {"success", "failure"}, JobEnds(j, result)
  PROVE  GateInv'
<1> DEFINE done == [result |-> result, ran |-> attempt]
<1>1. /\ attempt \in Attempts /\ attempt \in Nat \ {0} /\ jobs \in [Attempts -> [Jobs -> States]]
      /\ jobs[attempt][j].result = "waiting" /\ Gate \in Jobs
  <2>1. Gate \in Jobs
    BY DEF Jobs
  <2>2. QED
    BY <2>1 DEF GateInv, GateTypeOK, Attempts, JobEnds, Result
<1>2. done \in States /\ done.result = result /\ done.ran = attempt
  BY <1>1 DEF States, Results
<1>3. jobs' = [jobs EXCEPT ![attempt][j] = done]
  BY DEF JobEnds
<1> HIDE DEF done
<1>4. jobs' = [jobs EXCEPT ![attempt] = [jobs[attempt] EXCEPT ![j] = done]]
  BY <1>1, <1>3
<1>5. jobs' \in [Attempts -> [Jobs -> States]]
  BY <1>1, <1>2, <1>4
<1>6. GateTypeOK'
  BY <1>5 DEF GateInv, GateTypeOK, JobEnds
<1>7. Ordered(attempt, jobs'[attempt])
  <2>1. \A i \in Jobs : jobs'[attempt][i] = IF i = j THEN done ELSE jobs[attempt][i]
    BY <1>1, <1>4
  <2>2. Ordered(attempt, jobs[attempt])
    BY <1>1 DEF GateInv
  <2>3. \A i \in Jobs : /\ jobs'[attempt][i].result = "waiting" <=> jobs'[attempt][i].ran = 0
                        /\ jobs'[attempt][i].ran <= attempt
    BY <1>1, <1>2, <2>1, <2>2 DEF Ordered
  <2>4. ASSUME jobs'[attempt][Gate].result = "success", NEW i \in Jobs
        PROVE  jobs'[attempt][i].result = "success"
    <3>1. CASE j = Gate
      BY <1>1, <1>2, <2>1, <2>4, <3>1 DEF JobEnds, Result, Jobs
    <3>2. CASE j # Gate
      BY <1>1, <2>1, <2>2, <2>4, <3>2 DEF Ordered
    <3>3. QED
      BY <3>1, <3>2
  <2>5. QED
    BY <2>3, <2>4 DEF Ordered
<1>8. \A a \in Attempts : Ordered(a, jobs'[a])
  <2>1. \A a \in Attempts : a # attempt => jobs'[a] = jobs[a]
    BY <1>1, <1>4
  <2>2. QED
    BY <1>7, <2>1 DEF GateInv
<1>9. ASSUME publisher.at # "none", publisher.gated PROVE jobs'[publisher.mine] = Mine
  <2>1. publisher.mine \in Attempts
    BY <1>9, MineIsAttempt
  <2>2. publisher.mine # attempt
    BY <1>1, <1>9, MineSettled DEF Mine
  <2>3. QED
    BY <1>1, <1>4, <2>1, <2>2 DEF Mine
<1>10. active /\ UNCHANGED <<attempt, active, publisher>>
  BY DEF JobEnds
<1>11. attempt' >= attempt
  BY <1>1, <1>10
<1>12. QED
  BY <1>6, <1>8, <1>9, <1>10, <1>11, ActionsStep

LEMMA StepRunConcludes ==
  ASSUME GateInv, RunConcludes
  PROVE  GateInv'
<1>1. attempt \in Nat
  BY DEF GateInv, GateTypeOK, Attempts
<1>2. GateTypeOK' /\ \A a \in Attempts : Ordered(a, jobs'[a])
  BY DEF GateInv, GateTypeOK, RunConcludes
<1>3. QED
  BY <1>1, <1>2, ActionsStep DEF RunConcludes, Mine

LEMMA StepRunAgain ==
  ASSUME GateInv, NEW repeated \in SUBSET Jobs, RunAgain(repeated)
  PROVE  GateInv'
<1> DEFINE row == [j \in Jobs |-> IF j \in repeated THEN Unknown ELSE jobs[attempt][j]]
<1>1. /\ attempt \in Attempts /\ attempt + 1 \in Attempts /\ attempt \in Nat
      /\ jobs \in [Attempts -> [Jobs -> States]] /\ Gate \in Jobs
  <2>1. Gate \in Jobs
    BY DEF Jobs
  <2>2. QED
    BY <2>1 DEF GateInv, GateTypeOK, Attempts, RunAgain
<1>2. row \in [Jobs -> States]
  BY <1>1 DEF Unknown, States, Results
<1>3. jobs' = [jobs EXCEPT ![attempt + 1] = row] /\ attempt' = attempt + 1 /\ active' = TRUE
  BY DEF RunAgain
<1>4. \A j \in Jobs : j \notin repeated => jobs[attempt][j].result = "success"
  BY DEF RunAgain, Result
<1>5. Ordered(attempt + 1, row)
  <2>1. Ordered(attempt, jobs[attempt])
    BY <1>1 DEF GateInv
  <2>2. \A j \in Jobs : row[j] = IF j \in repeated THEN Unknown ELSE jobs[attempt][j]
    OBVIOUS
  <2>3. \A j \in Jobs : jobs[attempt][j].ran \in Nat
    BY <1>1 DEF States
  <2> HIDE DEF row
  <2>4. \A j \in Jobs : /\ row[j].result = "waiting" <=> row[j].ran = 0
                        /\ row[j].ran <= attempt + 1
    BY <1>1, <2>1, <2>2, <2>3 DEF Ordered, Unknown
  <2>5. ASSUME row[Gate].result = "success" PROVE \A j \in Jobs : row[j].result = "success"
    <3>1. repeated = {}
      BY <1>1, <2>2, <2>5 DEF RunAgain, Unknown
    <3>2. QED
      BY <1>4, <2>2, <3>1
  <2>6. QED
    BY <2>4, <2>5 DEF Ordered
<1> HIDE DEF row
<1>6. GateTypeOK'
  BY <1>1, <1>2, <1>3 DEF GateInv, GateTypeOK, RunAgain
<1>7. \A a \in Attempts : jobs'[a] = IF a = attempt + 1 THEN row ELSE jobs[a]
  BY <1>1, <1>3
<1>8. \A a \in Attempts : Ordered(a, jobs'[a])
  BY <1>5, <1>7 DEF GateInv
<1>9. ASSUME publisher.at # "none" PROVE jobs'[publisher.mine] = Mine
  BY <1>1, <1>7, <1>9, MineIsAttempt DEF Mine, Attempts
<1>10. QED
  BY <1>1, <1>3, <1>6, <1>8, <1>9, ActionsStep DEF RunAgain

LEMMA StepTick ==
  ASSUME GateInv, Tick
  PROVE  GateInv'
<1>1. attempt \in Nat
  BY DEF GateInv, GateTypeOK, Attempts
<1>2. GateTypeOK' /\ \A a \in Attempts : Ordered(a, jobs'[a])
  BY DEF GateInv, GateTypeOK, Tick, Actions
<1>3. QED
  BY <1>1, <1>2, ActionsStep DEF Tick, Actions, Mine

-----------------------------------------------------------------------------
(* The publisher goes on *)

\* Steps of the publisher: its state is new, nothing else changes.
LEMMA PublisherStep ==
  ASSUME GateInv, publisher' \in Publishers, UNCHANGED <<now, Actions>>, PublisherOK'
  PROVE  GateInv'
<1>1. GateTypeOK'
  BY DEF GateInv, GateTypeOK, Actions
<1>2. QED
  BY <1>1 DEF GateInv, Ordered, Actions

\* The publisher moves to a place of which nothing more is asked.
LEMMA Move ==
  ASSUME GateInv, publisher.at # "none", UNCHANGED <<now, Actions>>,
         publisher' \in Publishers, publisher'.mine = publisher.mine,
         publisher'.gated = publisher.gated,
         \/ publisher'.at \in {"run", "pause", "asleep"}
         \/ publisher'.at = "jobs" /\ publisher.gated
         \/ publisher'.at = "accept" /\ ~publisher.gated
         \/ publisher'.at = "authorised" /\ At("accept")
         \/ publisher'.at = "failed" /\ publisher'.why # "refused"
         \/ publisher'.at = "failed" /\ (attempt # publisher.mine \/ ~active)
  PROVE  GateInv'
<1>1. PublisherOK
  BY DEF GateInv
<1>2. UNCHANGED Mine
  BY DEF Mine, Actions
<1>3. PatientWithLag'
  BY DEF PatientWithLag, At, Actions
<1>4. PublisherOK'
  BY <1>1, <1>2, <1>3 DEF PublisherOK, At, Actions, Publishers
<1>5. QED
  BY <1>4, PublisherStep

LEMMA StepStartPublisher ==
  ASSUME GateInv, NEW gated \in BOOLEAN, StartPublisher(gated)
  PROVE  GateInv'
<1>1. attempt \in Attempts /\ attempt \in Nat \ {0} /\ now + Wait \in Nat
  BY DEF GateInv, GateTypeOK, Attempts
<1>2. publisher' = [at |-> "run", why |-> "none", mine |-> attempt, gated |-> gated,
                    deadline |-> now + Wait, wake |-> 0, listed |-> {}]
      /\ UNCHANGED <<now, Actions>>
  BY DEF StartPublisher, NoPublisher
<1>3. publisher' \in Publishers
  BY <1>1, <1>2 DEF Publishers
<1>4. gated => jobs[attempt][Gate].result = "success"
  BY DEF StartPublisher, Result
<1>5. PublisherOK'
  BY <1>1, <1>2, <1>4 DEF PublisherOK, Mine, At, PatientWithLag, Actions
<1>6. QED
  BY <1>2, <1>3, <1>5, PublisherStep

LEMMA StepReadRun ==
  ASSUME GateInv, NEW status, ReadRun(status)
  PROVE  GateInv'
<1>1. publisher \in Publishers /\ publisher.at = "run" /\ UNCHANGED <<now, Actions>>
  BY DEF GateInv, GateTypeOK, ReadRun, At
<1>2. CASE attempt # publisher.mine \/ ~active \/ ~Tolerated(status)
  <2>1. attempt # publisher.mine \/ ~active
    BY <1>2 DEF ReadRun, Statuses, Tolerated
  <2>2. publisher' = [publisher EXCEPT !.at = "failed", !.why = "refused", !.listed = {}]
    BY <1>2 DEF ReadRun, Fails
  <2>3. publisher' \in Publishers /\ publisher'.at = "failed" /\ publisher'.mine = publisher.mine
        /\ publisher'.gated = publisher.gated
    BY <1>1, <2>2 DEF Publishers
  <2>4. QED
    BY <1>1, <2>1, <2>3, Move
<1>3. CASE ~ (attempt # publisher.mine \/ ~active \/ ~Tolerated(status))
  <2> DEFINE place == IF status # "in_progress" THEN "pause"
                      ELSE IF publisher.gated THEN "jobs" ELSE "accept"
  <2>1. publisher' = [publisher EXCEPT !.at = place]
    BY <1>3 DEF ReadRun, Go
  <2>2. place \in {"pause", "jobs", "accept"} /\ (place = "jobs" => publisher.gated)
        /\ (place = "accept" => ~publisher.gated)
    OBVIOUS
  <2> HIDE DEF place
  <2>3. publisher' \in Publishers /\ publisher'.at = place /\ publisher'.mine = publisher.mine
        /\ publisher'.gated = publisher.gated
    BY <1>1, <2>1, <2>2 DEF Publishers
  <2>4. QED
    BY <1>1, <2>2, <2>3, Move
<1>4. QED
  BY <1>2, <1>3

\* A listing of a settled attempt: the gate is listed with success, or it is pending; all
\* that is listed with success did succeed; and no copied success is missing.
LEMMA ListingTrue ==
  ASSUME GateInv, publisher.at # "none", publisher.gated,
         NEW listing \in Listings(publisher.mine)
  PROVE  /\ Pending(listing) \/ (Gate \in DOMAIN listing /\ listing[Gate].result = "success")
         /\ \A job \in Successes(listing) : job.result = "success" /\ \E j \in Jobs : job = Mine[j]
         /\ \A j \in Jobs : Copied(Mine[j], publisher.mine) => Mine[j] \in Successes(listing)
<1> DEFINE own == {j \in Jobs : jobs[publisher.mine][j].ran \in {0, publisher.mine}}
           view(hidden, stale) ==
             [j \in Jobs \ hidden |-> IF j \in stale THEN Unknown ELSE jobs[publisher.mine][j]]
<1>1. PICK hidden \in SUBSET own, stale \in SUBSET own : listing = view(hidden, stale)
  <2>1. Listings(publisher.mine) =
          {view(hidden, stale) : hidden \in SUBSET own, stale \in SUBSET own}
    BY DEF Listings
  <2> HIDE DEF own, view
  <2>2. QED
    BY <2>1
<1>2. DOMAIN listing = Jobs \ hidden
      /\ \A j \in Jobs \ hidden : listing[j] = IF j \in stale THEN Unknown ELSE Mine[j]
  BY <1>1 DEF Mine
<1>3. \A j \in Jobs : Mine[j].result = "success"
  BY MineSettled
<1>4. Unknown.result = "waiting"
  BY DEF Unknown
<1>5. Pending(listing) \/ (Gate \in DOMAIN listing /\ listing[Gate].result = "success")
  <2>1. Gate \in Jobs
    BY DEF Jobs
  <2>2. QED
    <3>1. CASE Gate \in hidden
      BY <1>2, <3>1 DEF Pending
    <3>2. CASE Gate \notin hidden
      <4>1. listing[Gate].result \in {"waiting", "success"} /\ Gate \in DOMAIN listing
        BY <1>2, <1>3, <1>4, <2>1, <3>2
      <4>2. QED
        BY <4>1 DEF Pending
    <3>3. QED
      BY <3>1, <3>2
<1>6. \A job \in Successes(listing) : job.result = "success" /\ \E j \in Jobs : job = Mine[j]
  BY <1>2, <1>4 DEF Successes
<1>7. ASSUME NEW j \in Jobs, Copied(Mine[j], publisher.mine)
      PROVE  Mine[j] \in Successes(listing)
  <2>1. j \notin own
    BY <1>7 DEF Copied, Mine
  <2>2. j \in DOMAIN listing /\ listing[j] = Mine[j]
    BY <1>1, <1>2, <2>1
  <2>3. QED
    BY <1>3, <2>2 DEF Successes
<1>8. QED
  BY <1>5, <1>6, <1>7

LEMMA StepReadJobs ==
  ASSUME GateInv, ReadJobs
  PROVE  GateInv'
<1>1. /\ publisher \in Publishers /\ publisher.at = "jobs" /\ publisher.gated
      /\ UNCHANGED <<now, Actions>> /\ publisher.mine \in Nat
  BY DEF GateInv, GateTypeOK, PublisherOK, ReadJobs, At, Publishers
<1>2. PICK listing \in Listings(publisher.mine) :
        \/ Pending(listing) /\ Go("pause")
        \/ /\ ~Pending(listing)
           /\ IF Gate \in DOMAIN listing /\ listing[Gate].result = "success"
              THEN publisher' = [publisher EXCEPT !.listed = Successes(listing),
                                 !.at = IF publisher.mine = 1 THEN "accept" ELSE "attempt"]
              ELSE Fails("refused")
  BY DEF ReadJobs
<1>3. CASE Go("pause")
  <2>1. publisher' \in Publishers /\ publisher'.at = "pause" /\ publisher'.mine = publisher.mine
        /\ publisher'.gated = publisher.gated
    BY <1>1, <1>3 DEF Publishers, Go
  <2>2. QED
    BY <1>1, <2>1, Move
<1>4. CASE publisher' = [publisher EXCEPT !.listed = Successes(listing),
                         !.at = IF publisher.mine = 1 THEN "accept" ELSE "attempt"]
  <2>1. \A j \in Jobs : Mine[j].result = "success" /\ Mine[j].ran # 0
                        /\ Mine[j].ran <= publisher.mine /\ Mine[j] \in States
    BY <1>1, MineSettled
  <2>2. /\ \A job \in Successes(listing) : job.result = "success" /\ \E j \in Jobs : job = Mine[j]
        /\ \A j \in Jobs : Copied(Mine[j], publisher.mine) => Mine[j] \in Successes(listing)
    BY <1>1, ListingTrue
  <2>3. Successes(listing) \subseteq States
    BY <2>1, <2>2
  <2>4. /\ publisher' \in Publishers /\ publisher'.mine = publisher.mine
        /\ publisher'.gated = publisher.gated /\ publisher'.listed = Successes(listing)
        /\ publisher'.at = IF publisher.mine = 1 THEN "accept" ELSE "attempt"
    BY <1>1, <1>4, <2>3 DEF Publishers
  <2>5. publisher.mine = 1 =>
          \A j \in Jobs : Mine[j] = [result |-> "success", ran |-> publisher.mine]
    <3> SUFFICES ASSUME publisher.mine = 1, NEW j \in Jobs
                 PROVE  Mine[j] = [result |-> "success", ran |-> 1]
      OBVIOUS
    <3>1. Mine[j] \in States /\ Mine[j].result = "success" /\ Mine[j].ran = 1
      BY <2>1 DEF States
    <3>2. QED
      BY <3>1 DEF States
  <2>6. UNCHANGED Mine
    BY <1>1, <2>4 DEF Mine, Actions
  <2>7. PublisherOK
    BY DEF GateInv
  <2>8. PublisherOK'
    BY <1>1, <2>2, <2>4, <2>5, <2>6, <2>7 DEF PublisherOK, At, PatientWithLag, Actions
  <2>9. QED
    BY <1>1, <2>4, <2>8, PublisherStep
<1>5. QED
  BY <1>1, <1>2, <1>3, <1>4, ListingTrue

LEMMA StepReadAttempt ==
  ASSUME GateInv, ReadAttempt
  PROVE  GateInv'
<1>1. /\ publisher \in Publishers /\ publisher.at = "attempt" /\ publisher.gated
      /\ UNCHANGED <<now, Actions>> /\ publisher.mine \in Nat /\ PublisherOK
  BY DEF GateInv, GateTypeOK, PublisherOK, ReadAttempt, At, Publishers
<1>2. \A j \in Jobs : Mine[j].result = "success" /\ Mine[j].ran # 0
                       /\ Mine[j].ran <= publisher.mine /\ Mine[j] \in States
  BY <1>1, MineSettled
<1>3. /\ \A j \in Jobs : Copied(Mine[j], publisher.mine) => Mine[j] \in publisher.listed
      /\ \A job \in publisher.listed : \E j \in Jobs : job = Mine[j]
  BY <1>1 DEF PublisherOK, At
<1>4. CASE \A job \in publisher.listed : Fresh(job, publisher.mine)
  <2>1. publisher' = [publisher EXCEPT !.at = "accept"]
    BY <1>4 DEF ReadAttempt, Go
  <2>2. /\ publisher' \in Publishers /\ publisher'.at = "accept"
        /\ publisher'.mine = publisher.mine /\ publisher'.gated = publisher.gated
    BY <1>1, <2>1 DEF Publishers
  <2>3. ASSUME NEW j \in Jobs PROVE Mine[j] = [result |-> "success", ran |-> publisher.mine]
    <3>1. ~Copied(Mine[j], publisher.mine)
      <4>1. SUFFICES ASSUME Copied(Mine[j], publisher.mine) PROVE FALSE
        OBVIOUS
      <4>2. Mine[j].ran >= publisher.mine
        BY <1>3, <1>4, <4>1 DEF Fresh
      <4>3. QED
        BY <1>1, <1>2, <4>1, <4>2 DEF Copied, States
    <3>2. Mine[j].ran = publisher.mine /\ Mine[j].result = "success" /\ Mine[j] \in States
      BY <1>2, <3>1 DEF Copied
    <3>3. QED
      BY <3>2 DEF States
  <2>4. UNCHANGED Mine
    BY <1>1, <2>2 DEF Mine, Actions
  <2>5. PublisherOK'
    BY <1>1, <2>2, <2>3, <2>4 DEF PublisherOK, At, PatientWithLag, Actions
  <2>6. QED
    BY <1>1, <2>2, <2>5, PublisherStep
<1>5. CASE ~ \A job \in publisher.listed : Fresh(job, publisher.mine)
  <2>1. publisher' = [publisher EXCEPT !.at = "failed", !.why = "refused", !.listed = {}]
    BY <1>5 DEF ReadAttempt, Fails
  <2>2. /\ publisher' \in Publishers /\ publisher'.at = "failed"
        /\ publisher'.mine = publisher.mine /\ publisher'.gated = publisher.gated
    BY <1>1, <2>1 DEF Publishers
  <2>3. PICK j \in Jobs : ~Fresh(Mine[j], publisher.mine)
    BY <1>3, <1>5
  <2>4. Mine[j].ran \notin {0, publisher.mine}
    BY <1>1, <1>2, <2>3 DEF Fresh, States
  <2>5. UNCHANGED Mine
    BY <1>1, <2>2 DEF Mine, Actions
  <2>6. PatientWithLag'
    BY <1>1, <2>2, <2>4 DEF PatientWithLag, Mine, Actions
  <2>7. PublisherOK'
    BY <1>1, <2>2, <2>5, <2>6 DEF PublisherOK, At, Actions
  <2>8. QED
    BY <1>1, <2>2, <2>7, PublisherStep
<1>6. QED
  BY <1>4, <1>5

LEMMA StepOthers ==
  ASSUME GateInv, Accept \/ PauseOrGiveUp \/ Wake \/ ReadFails
  PROVE  GateInv'
<1>1. publisher \in Publishers /\ now \in Nat /\ Wait \in Nat /\ Pause \in Nat
  BY DEF GateInv, GateTypeOK
<1>2. UNCHANGED <<now, Actions>> /\ publisher.at # "none"
  BY DEF Accept, PauseOrGiveUp, Wake, ReadFails, At
<1>3. ASSUME NEW why \in {"timeout", "read"}, Fails(why) PROVE GateInv'
  <2>1. /\ publisher' \in Publishers /\ publisher'.at = "failed" /\ publisher'.why # "refused"
        /\ publisher'.mine = publisher.mine /\ publisher'.gated = publisher.gated
    BY <1>1, <1>3 DEF Fails, Publishers
  <2>2. QED
    BY <1>2, <2>1, Move
<1>4. CASE Go("run") \/ (Go("authorised") /\ At("accept"))
  <2>1. /\ publisher' \in Publishers
        /\ publisher'.at = "run" \/ (publisher'.at = "authorised" /\ At("accept"))
        /\ publisher'.mine = publisher.mine /\ publisher'.gated = publisher.gated
    BY <1>1, <1>4 DEF Go, Publishers
  <2>2. QED
    BY <1>2, <2>1, Move
<1>5. CASE publisher' = [publisher EXCEPT !.at = "asleep",
                           !.wake = Sooner(now + Pause, publisher.deadline)]
  <2>1. Sooner(now + Pause, publisher.deadline) \in Nat
    BY <1>1 DEF Sooner, Publishers
  <2>2. /\ publisher' \in Publishers /\ publisher'.at = "asleep"
        /\ publisher'.mine = publisher.mine /\ publisher'.gated = publisher.gated
    BY <1>1, <1>5, <2>1 DEF Publishers
  <2>3. QED
    BY <1>2, <2>2, Move
<1>6. QED
  BY <1>3, <1>4, <1>5 DEF Accept, PauseOrGiveUp, Wake, ReadFails

-----------------------------------------------------------------------------
(* The theorems *)

LEMMA GateInitial == Init => GateInv
<1> SUFFICES ASSUME Init PROVE GateInv
  OBVIOUS
<1>1. Unknown \in States /\ NoPublisher \in Publishers /\ 1 \in Attempts
  BY DEF Unknown, States, Results, NoPublisher, Publishers, Attempts
<1>2. GateTypeOK
  BY <1>1 DEF Init, GateTypeOK
<1>3. ASSUME NEW a \in Attempts PROVE Ordered(a, jobs[a])
  <2>1. \A j \in Jobs : jobs[a][j] = Unknown
    BY <1>3 DEF Init
  <2>2. Gate \in Jobs /\ a \in Nat
    BY DEF Jobs, Attempts
  <2>3. QED
    BY <2>1, <2>2 DEF Ordered, Unknown
<1>4. PublisherOK
  BY DEF Init, NoPublisher, PublisherOK, At, PatientWithLag
<1>5. QED
  BY <1>2, <1>3, <1>4 DEF GateInv

LEMMA GateStep == GateInv /\ [Next]_vars => GateInv'
<1> SUFFICES ASSUME GateInv, [Next]_vars PROVE GateInv'
  OBVIOUS
<1>1. CASE UNCHANGED vars
  BY <1>1 DEF vars, GateInv, GateTypeOK, Ordered, PublisherOK, Mine, At, PatientWithLag
<1>2. QED
  BY <1>1, StepJobEnds, StepRunConcludes, StepRunAgain, StepTick, StepStartPublisher,
     StepReadRun, StepReadJobs, StepReadAttempt, StepOthers
     DEF Next, Publisher

\* The inductive invariant: the types, that the gate passes last, and what the publisher
\* knows of its own attempt at each of its reads (release_control.py 1323-1506).
THEOREM GateInvariant == Spec => []GateInv
<1>1. QED
  BY GateInitial, GateStep, PTL DEF Spec

\* Whatever is run again and however Actions lags, a publisher that waits for the gate is
\* authorised only by checks and a gate that passed in its own attempt (1323-1409).
THEOREM GateIsOfThisAttempt == Spec => []GateOfThisAttempt
<1>1. GateInv => GateOfThisAttempt
  BY DEF GateInv, PublisherOK, GateOfThisAttempt, Mine
<1>2. QED
  BY <1>1, GateInvariant, PTL

\* A refusal is never due to late news alone (1446-1453).
THEOREM GateIsPatient == Spec => []PatientWithLag
<1>1. GateInv => PatientWithLag
  BY DEF GateInv, PublisherOK
<1>2. QED
  BY <1>1, GateInvariant, PTL
================================================================================
