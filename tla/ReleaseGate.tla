------------------------------ MODULE ReleaseGate ------------------------------
(***************************************************************************)
(* How a publisher makes sure that it may publish: wait_for_executing_run()*)
(* and release_gate_ready() (scripts/release_control.py).                  *)
(*                                                                         *)
(* A workflow run has attempts.  In each, the gate runs after the checks   *)
(* and the publisher after the gate.  A partial re-run repeats some jobs;  *)
(* the others are listed in the new attempt as copies of their earlier     *)
(* success.  The publisher polls Actions, which lags behind what happens:  *)
(* a running run is still reported as queued, a job that has finished as   *)
(* running or not at all.  It reads the run, the jobs and the attempt one  *)
(* after the other, and in between the run goes on, is cancelled or, while *)
(* the process of a cancelled publisher lives on, is run again.            *)
(***************************************************************************)
EXTENDS Naturals

CONSTANTS Checks,      \* jobs the gate needs
          Gate,        \* the job named "Release gate"
          Wait,        \* EXECUTING_RUN_WAIT_SECONDS: 300 in the code
          Pause,       \* seconds between two polls: 2 in the code
          MaxAttempts, \* bound: attempts of the run
          MaxTime      \* bound: the clock stops at MaxTime

ASSUME GateAssumption ==
  /\ Gate \notin Checks
  /\ Wait \in Nat \ {0} /\ Pause \in Nat \ {0}
  /\ MaxAttempts \in Nat \ {0} /\ MaxTime \in Nat

VARIABLES now,      \* time.monotonic()
          attempt,  \* the run's latest attempt
          active,   \* that attempt has not concluded
          jobs,     \* attempt -> job -> how it is and in which attempt it ran
          publisher \* the publishing job's process

vars == <<now, attempt, active, jobs, publisher>>

Jobs == Checks \cup {Gate}
Attempts == 1 .. MaxAttempts
Unknown == [result |-> "waiting", ran |-> 0]

\* `gated`: a promotion waits for the run only, all other publishers for the gate.
NoPublisher == [at |-> "none", why |-> "none", mine |-> 0, gated |-> FALSE,
                deadline |-> 0, wake |-> 0, listed |-> {}]

Init ==
  /\ now = 0
  /\ attempt = 1
  /\ active = TRUE
  /\ jobs = [a \in Attempts |-> [j \in Jobs |-> Unknown]]
  /\ publisher = NoPublisher

At(place) == publisher.at = place
Go(place) == publisher' = [publisher EXCEPT !.at = place]
Fails(why) == publisher' = [publisher EXCEPT !.at = "failed", !.why = why, !.listed = {}]
Actions == <<attempt, active, jobs>>

-----------------------------------------------------------------------------
(* GitHub Actions *)

Result(j) == jobs[attempt][j].result

\* A job of the current attempt ends; the gate ends after its checks, as they did.
JobEnds(j, result) ==
  /\ active /\ Result(j) = "waiting"
  /\ j = Gate => /\ \A c \in Checks : Result(c) # "waiting"
                 /\ result = "success" <=> \A c \in Checks : Result(c) = "success"
  /\ jobs' = [jobs EXCEPT ![attempt][j] = [result |-> result, ran |-> attempt]]
  /\ UNCHANGED <<now, attempt, active, publisher>>

\* The run is cancelled or ends; the publisher's process may not know yet.
RunConcludes ==
  /\ active /\ active' = FALSE
  /\ UNCHANGED <<now, attempt, jobs, publisher>>

\* Jobs that did not succeed are repeated, and others if somebody asks for it; with
\* a check the gate that needs it.  All else is copied into the new attempt.
RunAgain(repeated) ==
  /\ ~active /\ attempt < MaxAttempts
  /\ {j \in Jobs : Result(j) # "success"} \subseteq repeated
  /\ repeated # {} => Gate \in repeated
  /\ attempt' = attempt + 1
  /\ active' = TRUE
  /\ jobs' = [jobs EXCEPT ![attempt + 1] =
                [j \in Jobs |-> IF j \in repeated THEN Unknown ELSE jobs[attempt][j]]]
  /\ UNCHANGED <<now, publisher>>

\* The publisher runs after the gate, a promotion in an attempt that needs none.
StartPublisher(gated) ==
  /\ publisher.at \in {"none", "failed"} /\ publisher.mine < attempt
  /\ active /\ (gated => Result(Gate) = "success")
  /\ now + Wait <= MaxTime
  /\ publisher' = [NoPublisher EXCEPT !.at = "run", !.mine = attempt, !.gated = gated,
                                      !.deadline = now + Wait]
  /\ UNCHANGED <<now, Actions>>

Tick == now < MaxTime /\ now' = now + 1 /\ UNCHANGED <<Actions, publisher>>

-----------------------------------------------------------------------------
(* What Actions reports *)

Late == {"queued", "requested", "pending", "waiting"}

\* The status of the run: an old one may be reported while it is active.
Statuses == IF active THEN Late \cup {"in_progress"} ELSE {"completed"}

\* A listing of the attempt's jobs: of those that ran in it the news may be missing.
Listings(a) ==
  {[j \in Jobs \ hidden |-> IF j \in stale THEN Unknown ELSE jobs[a][j]] :
     hidden \in SUBSET {j \in Jobs : jobs[a][j].ran \in {0, a}},
     stale \in SUBSET {j \in Jobs : jobs[a][j].ran \in {0, a}}}

-----------------------------------------------------------------------------
(* wait_for_executing_run() *)

\* States that are waited in; any other ends the wait.
Tolerated(status) == status \in Late \cup {"in_progress"}

\* Identity, execution, provenance and the latest attempt must match; nothing may
\* have concluded.
ReadRun(status) ==
  /\ At("run")
  /\ status \in Statuses
  /\ IF attempt # publisher.mine \/ ~active \/ ~Tolerated(status) THEN Fails("refused")
     ELSE Go(IF status # "in_progress" THEN "pause"
             ELSE IF publisher.gated THEN "jobs" ELSE "accept")
  /\ UNCHANGED <<now, Actions>>

\* A plausible slip: a gate that is not listed yet is one that is missing.
MutPending(listing) == Gate \in DOMAIN listing /\ listing[Gate].result = "waiting"
\* The gate is not listed yet, or not as completed.
Pending(listing) == Gate \in DOMAIN listing => listing[Gate].result = "waiting"

Successes(listing) == {listing[j] : j \in {i \in DOMAIN listing : listing[i].result = "success"}}

\* release_gate_ready(): one listed gate, completed with success.
ReadJobs ==
  /\ At("jobs")
  /\ \E listing \in Listings(publisher.mine) :
     \/ Pending(listing) /\ Go("pause")
     \/ /\ ~Pending(listing)
        /\ IF Gate \in DOMAIN listing /\ listing[Gate].result = "success"
           THEN publisher' = [publisher EXCEPT !.listed = Successes(listing),
                              !.at = IF publisher.mine = 1 THEN "accept" ELSE "attempt"]
           ELSE Fails("refused")
  /\ UNCHANGED <<now, Actions>>

\* A plausible slip: the attempt a job is listed under is taken for the one it ran in.
MutFresh(job, a) == TRUE
\* A job that started no earlier than the attempt ran in it.
Fresh(job, a) == job.ran >= a

\* require_current_attempt_jobs(), for attempts after the first.
ReadAttempt ==
  /\ At("attempt")
  /\ IF \A job \in publisher.listed : Fresh(job, publisher.mine) THEN Go("accept")
     ELSE Fails("refused")
  /\ UNCHANGED <<now, Actions>>

InTime == now < publisher.deadline

\* The last look at the clock, after all that was read.
Accept ==
  /\ At("accept")
  /\ IF InTime THEN Go("authorised")
     ELSE Fails("timeout")
  /\ UNCHANGED <<now, Actions>>

Sooner(s, t) == IF s < t THEN s ELSE t

\* A plausible slip: the deadline cuts the pause short but is not itself looked at.
MutOverdue == FALSE
Overdue == now >= publisher.deadline

PauseOrGiveUp ==
  /\ At("pause")
  /\ \/ Overdue /\ Fails("timeout")
     \/ /\ ~Overdue
        /\ publisher' = [publisher EXCEPT !.at = "asleep",
                           !.wake = Sooner(now + Pause, publisher.deadline)]
  /\ UNCHANGED <<now, Actions>>

Wake == At("asleep") /\ now >= publisher.wake /\ Go("run") /\ UNCHANGED <<now, Actions>>

\* Any of the three reads fails for good, or its answer is malformed.
ReadFails ==
  /\ publisher.at \in {"run", "jobs", "attempt"}
  /\ Fails("read")
  /\ UNCHANGED <<now, Actions>>

-----------------------------------------------------------------------------
Publisher ==
  \/ \E status \in Late \cup {"in_progress", "completed"} : ReadRun(status)
  \/ ReadJobs
  \/ ReadAttempt
  \/ Accept
  \/ PauseOrGiveUp
  \/ Wake
  \/ ReadFails

Next ==
  \/ \E j \in Jobs, result \in {"success", "failure"} : JobEnds(j, result)
  \/ RunConcludes
  \/ \E repeated \in SUBSET Jobs : RunAgain(repeated)
  \/ \E gated \in BOOLEAN : StartPublisher(gated)
  \/ Tick
  \/ Publisher

Spec == Init /\ [][Next]_vars

\* Time passes, every read returns within its own timeout, and a sleep ends.
FairSpec == Spec /\ WF_vars(Tick) /\ WF_vars(Publisher)

-----------------------------------------------------------------------------
(* Properties *)

\* A publisher that waits for the gate goes on only if the gate and every check it
\* stands on were run, and passed, in the publisher's own attempt: however Actions
\* lags, no success copied from an earlier attempt authorises it (1323-1409).
GateOfThisAttempt ==
  At("authorised") /\ publisher.gated =>
    \A j \in Jobs : jobs[publisher.mine][j] = [result |-> "success", ran |-> publisher.mine]

\* News that is merely late is never taken for a refusal: the wait is broken off
\* before its deadline only if the attempt has concluded or was replaced, or rests
\* on a copied success (1446-1453).
PatientWithLag ==
  At("failed") /\ publisher.why = "refused" =>
    \/ attempt # publisher.mine \/ ~active
    \/ publisher.gated /\ \E j \in Jobs : jobs[publisher.mine][j].ran \notin {0, publisher.mine}

\* The wait ends, whatever Actions reports (1490-1503).
WaitEnds == publisher.at # "none" ~> publisher.at \in {"authorised", "failed"}
================================================================================
