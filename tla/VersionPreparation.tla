-------------------------- MODULE VersionPreparation --------------------------
(***************************************************************************)
(* Preparing a base version as a pull request (scripts/prepare_version.py, *)
(* prepare() with pull_request).                                           *)
(*                                                                         *)
(* A run takes the head of the default branch, chooses a version, writes   *)
(* it into the declared files, pushes the result to a branch named after   *)
(* the version and opens a pull request.  It does so request by request:   *)
(* main and the branch move on meanwhile, other runs prepare the same or   *)
(* another version, and any run may be refused, killed or cut off from a   *)
(* reply, and be started again later.  What it finds of an earlier run is  *)
(* used only if it could have made it itself.                              *)
(*                                                                         *)
(* A tree is the version in its declared files and the set of edits made   *)
(* in all else.  Versions are numbers: only their order matters.           *)
(***************************************************************************)
EXTENDS Naturals, Sequences, FiniteSets

CONSTANTS Runs,
          MaxVersion, \* bound: versions
          MaxEdits,   \* bound: edits made by people
          MaxCommits, \* bound: commits
          MaxOthers   \* bound: steps of others than runs

ASSUME PreparationAssumption ==
  /\ MaxVersion \in Nat \ {0} /\ MaxCommits \in Nat \ {0}
  /\ MaxEdits \in Nat /\ MaxOthers \in Nat

VARIABLES commits, \* SHA -> commit
          main,    \* head of the default branch
          topic,   \* version -> head of its preparation branch, or 0
          pr,      \* versions whose preparation has an open pull request
          tags,    \* version -> commit of its stable tag, or 0
          run,     \* what each run is at and has read
          edits,   \* edits made so far
          others   \* steps taken by others

vars == <<commits, main, topic, pr, tags, run, edits, others>>
forge == <<main, topic, pr, tags>> \* what GitHub holds besides commits

Versions == 1 .. MaxVersion
Shas == 1 .. Len(commits)
Trees == [base : Versions, work : SUBSET (1 .. MaxEdits)]
Commits == [tree : Trees,
            past : SUBSET (1 .. MaxCommits), \* itself and all ancestors
            byHand : BOOLEAN]                \* somebody's own edit of a preparation branch

Idle == [at |-> "idle", head |-> 0, target |-> 0, existing |-> FALSE, sha |-> 0,
         tags |-> [v \in Versions |-> 0]]

RunStates ==
  [at : {"idle", "fetched", "chosen", "listed", "ready", "unowned", "open"},
   head : Nat,        \* the head of main it works from
   target : Nat,      \* the version it prepares
   existing : BOOLEAN, \* there was a pull request
   sha : Nat,         \* the preparation branch as it found it, or 0
   tags : [Versions -> Nat]]

PreparationTypeOK ==
  /\ commits \in Seq(Commits) /\ Len(commits) <= MaxCommits
  /\ main \in Shas
  /\ topic \in [Versions -> Shas \cup {0}]
  /\ pr \subseteq Versions
  /\ tags \in [Versions -> Shas \cup {0}]
  /\ run \in [Runs -> RunStates]
  /\ edits \in 0 .. MaxEdits
  /\ others \in Nat

Init ==
  /\ commits = <<[tree |-> [base |-> 1, work |-> {}], past |-> {1}, byHand |-> FALSE]>>
  /\ main = 1
  /\ topic = [v \in Versions |-> 0]
  /\ pr = {}
  /\ tags = [v \in Versions |-> 0]
  /\ run = [r \in Runs |-> Idle]
  /\ edits = 0
  /\ others = 0

-----------------------------------------------------------------------------
(* Git: commits, merge bases and three-way merges. *)

Tree(c) == commits[c].tree
Past(c) == commits[c].past
Next1 == Len(commits) + 1 \* the SHA of the next commit

\* git commit-tree: a tree on top of some parents.
Commit(tree, parents, byHand) ==
  /\ Len(commits) < MaxCommits
  /\ commits' = Append(commits, [tree |-> tree, byHand |-> byHand,
                                 past |-> {Next1} \cup UNION {Past(p) : p \in parents}])

\* Best common ancestors; git names one of them.
MergeBases(c, d) ==
  LET common == Past(c) \cap Past(d)
  IN {a \in common : \A b \in common \ {a} : a \notin Past(b)}

Mergeable(a, c, d) ==
  Tree(c).base = Tree(a).base \/ Tree(d).base \in {Tree(a).base, Tree(c).base}

Merged(a, c, d) ==
  [base |-> IF Tree(c).base = Tree(a).base THEN Tree(d).base ELSE Tree(c).base,
   work |-> {e \in Tree(c).work \cup Tree(d).work :
               e \in Tree(a).work => e \in Tree(c).work \cap Tree(d).work}]

-----------------------------------------------------------------------------
(* A run *)

Go(r, s) == run' = [run EXCEPT ![r] = s]
Ends(r) == Go(r, Idle)

\* git fetch, from a clean checkout of what proves to be the head of main.
Fetch(r) ==
  /\ run[r].at = "idle"
  /\ Go(r, [Idle EXCEPT !.at = "fetched", !.head = main, !.tags = tags])
  /\ UNCHANGED <<commits, forge, edits, others>>

MayPrepare(v, current) == v >= current

\* Without a request: a base already prepared, or the one after the last tagged.
NextPatch(current, tagged) ==
  IF \A v \in tagged : v < current THEN {current}
  ELSE {v + 1 : v \in {u \in tagged : \A w \in tagged : w <= u}}

\* A version asked for, or above the present one by a bump; or the next patch that
\* no tag occupies.
Targets(current, tagged, occupied) ==
  {v \in Versions \ occupied :
     \/ MayPrepare(v, current)
     \/ \E first \in NextPatch(current, tagged) :
          MayPrepare(first, current) /\ first <= v /\ first .. (v - 1) \subseteq occupied}

\* git ls-remote --tags: the names that are taken, and those of the tags fetched that
\* are part of the history.
ChooseVersion(r) ==
  LET head == run[r].head
      tagged == {v \in Versions : run[r].tags[v] \in Past(head) /\ tags[v] # 0}
      occupied == {v \in Versions : tags[v] # 0}
  IN /\ run[r].at = "fetched"
     /\ \/ /\ \A v \in tagged : tags[v] = run[r].tags[v]
           /\ \E v \in Targets(Tree(head).base, tagged, occupied) :
                Go(r, [Idle EXCEPT !.at = "chosen", !.head = head, !.target = v])
        \/ /\ \E v \in tagged : tags[v] # run[r].tags[v]
           /\ Ends(r)
     /\ UNCHANGED <<commits, forge, edits, others>>

\* gh pr list
ListPullRequests(r) ==
  LET v == run[r].target
  IN /\ run[r].at = "chosen"
     /\ Go(r, [run[r] EXCEPT !.at = "listed", !.existing = v \in pr,
                             !.sha = IF v \in pr THEN topic[v] ELSE 0])
     /\ UNCHANGED <<commits, forge, edits, others>>

\* What sync makes of a tree: the version, and nothing else.
Projection(tree, v) == [tree EXCEPT !.base = v]

\* A plausible slip: the branch is compared with the head of main as it is now.
MutReferences(sha, head) == {head}
\* The commits of main that the branch may have been made from.
References(sha, head) == MergeBases(sha, head)

\* The preparation branch is looked up; one that exists must be what some run makes of
\* the commit it started from.
ReadTopic(r) ==
  LET v == run[r].target
      sha == topic[v]
      stale == run[r].existing /\ run[r].sha # sha
  IN /\ run[r].at = "listed"
     /\ \/ stale /\ Ends(r)
        \/ ~stale /\ sha = 0 /\ Go(r, [run[r] EXCEPT !.at = "ready"])
        \/ /\ ~stale /\ sha # 0
           /\ \E a \in References(sha, run[r].head) :
                Go(r, [run[r] EXCEPT !.sha = sha,
                         !.at = IF Tree(sha) = Projection(Tree(a), v)
                                THEN "ready" ELSE "unowned"])
     /\ UNCHANGED <<commits, forge, edits, others>>

\* A plausible slip: the branch is pushed by force.
MutAccepts(old, past) == TRUE
\* GitHub takes a push that keeps what the branch holds.
Accepts(old, past) == old = 0 \/ old \in past

Parents(sha, head) == {sha, head} \ {0}

\* In a worktree of its head the run writes the version, commits, and pushes, unless
\* there is nothing to propose or the branch has that tree already.
Push(r) ==
  LET s == run[r]
      v == s.target
      tree == Projection(Tree(s.head), v)
      past == {Next1} \cup UNION {Past(p) : p \in Parents(s.sha, s.head)}
      nothing == ~s.existing /\ tree = Tree(s.head)
      updated == s.sha # 0 => tree # Tree(s.sha)
  IN /\ s.at = "ready"
     /\ \/ nothing /\ Ends(r) /\ UNCHANGED <<commits, topic>>
        \/ ~nothing /\ ~updated /\ Go(r, [s EXCEPT !.at = "open"]) /\ UNCHANGED <<commits, topic>>
        \/ /\ ~nothing /\ updated /\ Accepts(topic[v], past)
           /\ Commit(tree, Parents(s.sha, s.head), FALSE)
           /\ topic' = [topic EXCEPT ![v] = Next1]
           /\ Go(r, [s EXCEPT !.at = "open"])
        \/ ~nothing /\ updated /\ ~Accepts(topic[v], past) /\ Ends(r) /\ UNCHANGED <<commits, topic>>
     /\ UNCHANGED <<main, pr, tags, edits, others>>

\* gh pr create, unless there was one; GitHub refuses a second one, and one for a branch
\* that is gone or has nothing to merge.
OpenPullRequest(r) ==
  LET v == run[r].target
      possible == topic[v] # 0 /\ v \notin pr /\ topic[v] \notin Past(main)
  IN /\ run[r].at = "open"
     /\ pr' = IF ~run[r].existing /\ possible THEN pr \cup {v} ELSE pr
     /\ Ends(r)
     /\ UNCHANGED <<commits, main, topic, tags, edits, others>>

\* The run is killed, loses a reply, or ends with the error it has met.
Stops(r) ==
  /\ run[r].at # "idle"
  /\ Ends(r)
  /\ UNCHANGED <<commits, forge, edits, others>>

-----------------------------------------------------------------------------
(* Others *)

Others == others < MaxOthers /\ others' = others + 1

AddEdit(c) == [Tree(c) EXCEPT !.work = @ \cup {edits + 1}]

\* Work goes into main ...
EditMain ==
  /\ Others /\ edits < MaxEdits /\ edits' = edits + 1
  /\ Commit(AddEdit(main), {main}, FALSE)
  /\ main' = Next1
  /\ UNCHANGED <<topic, pr, tags, run>>

\* ... or into a preparation branch.
EditTopic(v) ==
  /\ topic[v] # 0
  /\ Others /\ edits < MaxEdits /\ edits' = edits + 1
  /\ Commit(AddEdit(topic[v]), {topic[v]}, TRUE)
  /\ topic' = [topic EXCEPT ![v] = Next1]
  /\ UNCHANGED <<main, pr, tags, run>>

\* GitHub's button that merges main into the branch of a pull request.
UpdateBranch(v) ==
  /\ v \in pr /\ main \notin Past(topic[v])
  /\ Others
  /\ \E a \in MergeBases(topic[v], main) :
       Mergeable(a, topic[v], main)
         /\ Commit(Merged(a, topic[v], main), {topic[v], main}, FALSE)
  /\ topic' = [topic EXCEPT ![v] = Next1]
  /\ UNCHANGED <<main, pr, tags, run, edits>>

\* A pull request is merged, by a merge commit or squashed.
Merge(v, squash) ==
  /\ v \in pr
  /\ Others
  /\ \E a \in MergeBases(main, topic[v]) :
       Mergeable(a, main, topic[v])
         /\ Commit(Merged(a, main, topic[v]), IF squash THEN {main} ELSE {main, topic[v]}, FALSE)
  /\ main' = Next1
  /\ pr' = pr \ {v}
  /\ UNCHANGED <<topic, tags, run, edits>>

\* A pull request is closed, with or without its branch; a branch is deleted.
Drop(v, branch) ==
  /\ v \in pr \/ (branch /\ topic[v] # 0)
  /\ Others
  /\ pr' = pr \ {v}
  /\ topic' = IF branch THEN [topic EXCEPT ![v] = 0] ELSE topic
  /\ UNCHANGED <<commits, main, tags, run, edits>>

\* A stable release is tagged, or its tag moved.
TagRelease(v, c) ==
  /\ c \in Past(main) /\ Tree(c).base = v /\ tags[v] # c
  /\ Others
  /\ tags' = [tags EXCEPT ![v] = c]
  /\ UNCHANGED <<commits, main, topic, pr, run, edits>>

Next ==
  \/ \E r \in Runs :
       \/ Fetch(r)
       \/ ChooseVersion(r)
       \/ ListPullRequests(r)
       \/ ReadTopic(r)
       \/ Push(r)
       \/ OpenPullRequest(r)
       \/ Stops(r)
  \/ EditMain
  \/ \E v \in Versions :
       \/ EditTopic(v)
       \/ UpdateBranch(v)
       \/ \E squash \in BOOLEAN : Merge(v, squash)
       \/ \E branch \in BOOLEAN : Drop(v, branch)
       \/ \E c \in Shas : TagRelease(v, c)

Spec == Init /\ [][Next]_vars

-----------------------------------------------------------------------------
(* Properties *)

\* A tree has all the work of another, and no older a version.
Within(old, new) == old.work \subseteq new.work /\ old.base <= new.base

\* Nothing is undone: whatever moves meanwhile, no push to a preparation branch loses
\* what somebody else has put there, and no merge of a preparation takes work out of
\* main or its version back (159-160, 233-283, 359-385).
NothingUndone ==
  [][/\ Within(Tree(main), Tree(main)')
     /\ \A v \in Versions :
          topic[v] # 0 /\ topic'[v] # 0 => Within(Tree(topic[v]), Tree(topic[v])')]_vars

\* What runs leave behind, however they ended and whatever was merged since, the next
\* run takes up: a preparation branch is refused only if somebody edited it, if main has
\* moved on under the run and into the branch, or if their histories cross so that git
\* has several merge bases to name (136-141, 231-283).
OwnTopicAccepted ==
  \A r \in Runs : run[r].at = "unowned" =>
    LET sha == run[r].sha
        head == run[r].head
    IN \/ \E c \in Past(sha) \ Past(head) : commits[c].byHand
       \/ ~(Past(sha) \cap Past(main) \subseteq Past(head))
       \/ Cardinality(MergeBases(sha, head)) > 1
===============================================================================
