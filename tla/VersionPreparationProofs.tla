------------------------ MODULE VersionPreparationProofs ------------------------
(***************************************************************************)
(* Nothing is undone by the preparation of versions, for any number of     *)
(* runs, versions, edits and commits.  Every tree has all that the trees   *)
(* of its ancestors have; what a run has made sure of a preparation branch *)
(* stays true of its commits whatever moves; so a push that GitHub takes,  *)
(* and a merge, only add.  And a branch that runs made is taken up again:  *)
(* it was made from where it left main.                                    *)
(***************************************************************************)
EXTENDS VersionPreparation, SequenceTheorems, FiniteSetTheorems, WellFoundedInduction, TLAPS

\* Every tree has all that its ancestors have.
HistoryGrows ==
  \A c \in Shas :
    /\ c \in Past(c) /\ Past(c) \subseteq Shas
    /\ \A d \in Past(c) : Within(Tree(d), Tree(c))

\* What a run relies on when it pushes.
Knows(s) ==
  /\ s.at # "idle" => s.head \in Shas
  /\ s.at \notin {"idle", "fetched"} => s.target \in Versions /\ Tree(s.head).base <= s.target
  /\ s.at \in {"listed", "ready"} => s.sha \in Shas \cup {0}
  /\ s.at = "listed" /\ ~s.existing => s.sha = 0
  /\ s.at = "ready" /\ s.sha # 0 => Within(Tree(s.sha), Projection(Tree(s.head), s.target))

PreparationInv ==
  /\ PreparationTypeOK
  /\ HistoryGrows
  /\ \A v \in pr : topic[v] # 0
  /\ \A r \in Runs : Knows(run[r])

\* Commits are never changed.
Grown ==
  /\ Shas \subseteq Shas'
  /\ \A c \in Shas : commits'[c] = commits[c]

-----------------------------------------------------------------------------
(* Commits and trees *)

LEMMA TreeTypes ==
  ASSUME PreparationTypeOK
  PROVE  /\ Len(commits) \in Nat
         /\ \A c \in Shas : /\ commits[c] \in Commits
                            /\ Tree(c) \in Trees /\ Tree(c).base \in Nat
<1>1. commits \in Seq(Commits)
  BY DEF PreparationTypeOK
<1>2. Len(commits) \in Nat /\ \A c \in Shas : commits[c] \in Commits
  BY <1>1 DEF Shas
<1>3. \A x \in Commits : x.tree \in Trees
  BY DEF Commits
<1>4. \A t \in Trees : t.base \in Nat
  BY DEF Trees, Versions
<1> QED BY <1>2, <1>3, <1>4 DEF Tree

\* Commit n has been added on top of some parents, and none of the others is changed.
Added(n, tree, parents, byHand) ==
  /\ commits' \in Seq(Commits) /\ Len(commits') <= MaxCommits
  /\ Grown /\ n \notin Shas /\ n \in Nat /\ Shas' = Shas \cup {n}
  /\ Tree(n)' = tree /\ commits'[n].byHand = byHand
  /\ \A x : x \in Past(n)' <=> x = n \/ \E p \in parents : x \in Past(p)
  /\ \A p \in parents : Past(p) \subseteq Shas
  /\ \A c \in Shas : /\ Tree(c)' = Tree(c) /\ Past(c)' = Past(c)
                     /\ commits'[c].byHand = commits[c].byHand
                     /\ c < n

LEMMA CommitAdds ==
  ASSUME PreparationTypeOK, HistoryGrows, PreparationAssumption,
         NEW tree \in Trees, NEW parents \in SUBSET Shas, NEW byHand \in BOOLEAN,
         NEW n, n = Next1,
         Commit(tree, parents, byHand)
  PROVE  Added(n, tree, parents, byHand)
<1> DEFINE past == {n} \cup UNION {Past(p) : p \in parents}
           new == [tree |-> tree, byHand |-> byHand, past |-> past]
<1>1. /\ commits \in Seq(Commits) /\ Len(commits) \in Nat /\ MaxCommits \in Nat
      /\ Len(commits) < MaxCommits /\ commits' = Append(commits, new)
      /\ n = Len(commits) + 1
  BY DEF PreparationTypeOK, Commit, PreparationAssumption, Next1
<1>2. \A p \in parents : Past(p) \subseteq Shas
  BY DEF HistoryGrows
<1>3. past \subseteq Shas \cup {n} /\ n \in past
  BY <1>2
<1> HIDE DEF past
<1>4. past \in SUBSET (1 .. MaxCommits)
  <2>1. Shas \cup {n} \subseteq 1 .. MaxCommits
    <3> HIDE DEF new
    <3> QED BY <1>1 DEF Shas
  <2> QED BY <2>1, <1>3
<1>5. new \in Commits
  BY <1>4 DEF Commits
<1>6. /\ commits' \in Seq(Commits) /\ Len(commits') = n
      /\ \A c \in Shas : commits'[c] = commits[c]
      /\ commits'[n] = new
  <2> HIDE DEF new
  <2> QED BY <1>1, <1>5, AppendProperties DEF Shas
<1>7. Grown /\ n \notin Shas /\ Shas' = Shas \cup {n}
  BY <1>1, <1>6 DEF Grown, Shas
<1>8. Tree(n)' = tree /\ Past(n)' = past /\ (commits'[n].byHand <=> byHand)
  BY <1>6 DEF Tree, Past
<1>9. \A c \in Shas : /\ Tree(c)' = Tree(c) /\ Past(c)' = Past(c)
                      /\ commits'[c].byHand = commits[c].byHand /\ c < n
  <2>1. \A c \in Shas : c < n
    BY <1>1 DEF Shas
  <2> QED BY <1>6, <2>1 DEF Tree, Past
<1>10. \A x : x \in Past(n)' <=> x = n \/ \E p \in parents : x \in Past(p)
  BY <1>8 DEF past
<1>11. n \in Nat /\ Len(commits') <= MaxCommits
  BY <1>1, <1>6
<1> HIDE DEF new
<1> QED BY <1>2, <1>6, <1>7, <1>8, <1>9, <1>10, <1>11 DEF Added

\* One with all that its parents have extends the history.
LEMMA CommitGrows ==
  ASSUME PreparationTypeOK, HistoryGrows, PreparationAssumption,
         NEW tree \in Trees, NEW parents \in SUBSET Shas, NEW byHand \in BOOLEAN,
         NEW n, n = Next1,
         Commit(tree, parents, byHand),
         \A p \in parents : Within(Tree(p), tree)
  PROVE  /\ commits' \in Seq(Commits) /\ Len(commits') <= MaxCommits
         /\ Grown
         /\ n \in Shas' /\ n \notin Shas
         /\ Tree(n)' = tree
         /\ HistoryGrows'
<1>1. Added(n, tree, parents, byHand)
  BY CommitAdds
<1>2. /\ commits' \in Seq(Commits) /\ Len(commits') <= MaxCommits
      /\ Grown /\ n \notin Shas /\ Shas' = Shas \cup {n}
      /\ Tree(n)' = tree
      /\ \A x : x \in Past(n)' <=> x = n \/ \E p \in parents : x \in Past(p)
      /\ \A p \in parents : Past(p) \subseteq Shas
      /\ \A c \in Shas : Tree(c)' = Tree(c) /\ Past(c)' = Past(c)
  BY <1>1 DEF Added
<1>3. Past(n)' \subseteq Shas \cup {n} /\ n \in Past(n)'
  BY <1>2
<1>4. HistoryGrows'
  <2> SUFFICES ASSUME NEW c \in Shas'
               PROVE  /\ c \in Past(c)' /\ Past(c)' \subseteq Shas'
                      /\ \A d \in Past(c)' : Within(Tree(d)', Tree(c)')
    BY DEF HistoryGrows, Within
  <2>1. CASE c \in Shas
    BY <2>1, <1>2 DEF HistoryGrows
  <2>2. CASE c = n
    <3>1. c \in Past(c)' /\ Past(c)' \subseteq Shas'
      BY <2>2, <1>2, <1>3
    <3>2. ASSUME NEW d \in Past(n)' PROVE Within(Tree(d)', Tree(c)')
      <4>1. CASE d = n
        BY <4>1, <2>2, <1>2 DEF Within, Trees, Versions
      <4>2. CASE d # n
        <5>1. PICK p \in parents : d \in Past(p)
          BY <4>2, <1>2
        <5>2. p \in Shas /\ d \in Shas /\ Within(Tree(d), Tree(p)) /\ Within(Tree(p), tree)
          BY <5>1 DEF HistoryGrows
        <5>3. Tree(d).base \in Nat /\ Tree(p).base \in Nat /\ tree.base \in Nat
          BY <5>2, TreeTypes DEF Trees, Versions
        <5>4. Within(Tree(d), tree)
          BY <5>2, <5>3 DEF Within
        <5> QED BY <5>2, <5>4, <2>2, <1>2
      <4> QED BY <4>1, <4>2
    <3> QED BY <2>2, <1>2, <3>1, <3>2
  <2> QED BY <2>1, <2>2, <1>2
<1> QED BY <1>2, <1>4

\* A three-way merge of two trees that both have what their base has loses nothing.
LEMMA MergedHasBoth ==
  ASSUME PreparationTypeOK, HistoryGrows,
         NEW c \in Shas, NEW d \in Shas, NEW a \in MergeBases(c, d), Mergeable(a, c, d)
  PROVE  /\ Merged(a, c, d) \in Trees
         /\ Within(Tree(c), Merged(a, c, d)) /\ Within(Tree(d), Merged(a, c, d))
<1>1. a \in Shas /\ Within(Tree(a), Tree(c)) /\ Within(Tree(a), Tree(d))
  BY DEF MergeBases, HistoryGrows
<1>2. /\ Tree(a) \in Trees /\ Tree(c) \in Trees /\ Tree(d) \in Trees
      /\ Tree(a).base \in Nat /\ Tree(c).base \in Nat /\ Tree(d).base \in Nat
  BY <1>1, TreeTypes
<1>3. Merged(a, c, d).work = Tree(c).work \cup Tree(d).work
  BY <1>1 DEF Merged, Within
<1>4. /\ Merged(a, c, d).base \in {Tree(c).base, Tree(d).base}
      /\ Tree(c).base <= Merged(a, c, d).base /\ Tree(d).base <= Merged(a, c, d).base
  BY <1>1, <1>2 DEF Merged, Within, Mergeable
<1>5. Merged(a, c, d) \in Trees
  BY <1>2, <1>3, <1>4 DEF Trees, Merged
<1> QED BY <1>3, <1>4, <1>5 DEF Within

\* What a run knows, it knows of commits: they stay.
LEMMA StillKnows ==
  ASSUME PreparationTypeOK, Grown, NEW s, Knows(s)
  PROVE  Knows(s)'
<1>1. \A c \in Shas : c \in Shas' /\ Tree(c)' = Tree(c)
  BY DEF Grown, Tree
<1> QED BY <1>1 DEF Knows, Projection

\* Nobody's commits move: nothing is lost.
LEMMA WithinSelf ==
  ASSUME PreparationTypeOK, Grown, NEW c \in Shas
  PROVE  Within(Tree(c), Tree(c)')
  BY TreeTypes DEF Grown, Tree, Within

-----------------------------------------------------------------------------
(* Steps *)

\* What a step keeps or adds: the invariant after it, and nothing lost.
Keeps ==
  /\ PreparationInv'
  /\ Within(Tree(main), Tree(main)')
  /\ \A v \in Versions :
       topic[v] # 0 /\ topic'[v] # 0 => Within(Tree(topic[v]), Tree(topic[v])')

\* Steps that make no commit, and move a branch at most out of the way.
LEMMA QuietStep ==
  ASSUME PreparationInv, PreparationAssumption,
         UNCHANGED <<commits, main>>, PreparationTypeOK',
         \A v \in Versions : topic'[v] \in {topic[v], 0},
         \A v \in pr' : topic'[v] # 0,
         \A r \in Runs : Knows(run'[r])
  PROVE  Keeps
<1>1. Grown
  BY DEF Grown, Shas
<1>2. HistoryGrows'
  BY DEF PreparationInv, HistoryGrows, Shas, Past, Tree, Within
<1>3. \A r \in Runs : Knows(run[r])'
  <2> SUFFICES ASSUME NEW r \in Runs PROVE Knows(run[r])'
    OBVIOUS
  <2> DEFINE s == run'[r]
  <2>1. Knows(s)
    OBVIOUS
  <2>2. UNCHANGED Shas /\ \A c \in Shas : Tree(c)' = Tree(c)
    BY DEF Shas, Tree
  <2> QED BY <2>1, <2>2 DEF Knows, Projection, Within, Shas, Tree
<1>4. main \in Shas /\ \A v \in Versions : topic[v] \in Shas \cup {0}
  BY DEF PreparationInv, PreparationTypeOK
<1>5. \A c \in Shas : Within(Tree(c), Tree(c)')
  BY <1>1, WithinSelf DEF PreparationInv
<1>6. Within(Tree(main), Tree(main)')
  BY <1>4, <1>5 DEF Tree
<1>7. ASSUME NEW v \in Versions, topic[v] # 0, topic'[v] # 0
      PROVE  Within(Tree(topic[v]), Tree(topic[v])')
  <2>1. topic'[v] = topic[v] /\ topic[v] \in Shas
    BY <1>4, <1>7
  <2> QED BY <2>1, <1>5 DEF Tree
<1> QED BY <1>2, <1>3, <1>6, <1>7 DEF Keeps, PreparationInv

\* Steps that make a commit, for main or for branches, with all that was there.
LEMMA CommitStep ==
  ASSUME PreparationInv, PreparationAssumption,
         NEW tree \in Trees, NEW parents \in SUBSET Shas, NEW byHand \in BOOLEAN,
         Commit(tree, parents, byHand),
         \A p \in parents : Within(Tree(p), tree),
         NEW n, n = Next1,
         \/ main' = main
         \/ main' = n /\ Within(Tree(main), tree),
         topic' \in [Versions -> Shas \cup {0, n}],
         \A v \in Versions :
           \/ topic'[v] = topic[v]
           \/ topic'[v] = n /\ (topic[v] # 0 => Within(Tree(topic[v]), tree)),
         pr' \subseteq pr, tags' = tags,
         run' \in [Runs -> RunStates],
         \A r \in Runs : Knows(run'[r]),
         edits' \in 0 .. MaxEdits, others' \in Nat
  PROVE  Keeps
<1>1. /\ PreparationTypeOK /\ HistoryGrows
      /\ main \in Shas /\ topic \in [Versions -> Shas \cup {0}] /\ tags \in [Versions -> Shas \cup {0}]
      /\ pr \subseteq Versions /\ (\A v \in pr : topic[v] # 0) /\ n # 0
  BY TreeTypes DEF PreparationInv, PreparationTypeOK, Next1
<1>2. /\ commits' \in Seq(Commits) /\ Len(commits') <= MaxCommits
      /\ Grown /\ n \in Shas' /\ Tree(n)' = tree /\ HistoryGrows'
  BY <1>1, CommitGrows
<1>3. Shas \subseteq Shas'
  BY <1>2 DEF Grown
<1>4. main' \in Shas'
  BY <1>1, <1>2, <1>3
<1>5. topic' \in [Versions -> Shas' \cup {0}] /\ tags' \in [Versions -> Shas' \cup {0}]
  BY <1>1, <1>2, <1>3
<1>6. PreparationTypeOK'
  BY <1>1, <1>2, <1>4, <1>5 DEF PreparationTypeOK, Commits, Trees, RunStates, Versions
<1>7. \A r \in Runs : Knows(run[r])'
  <2> SUFFICES ASSUME NEW r \in Runs PROVE Knows(run[r])'
    OBVIOUS
  <2> DEFINE s == run'[r]
  <2>1. Knows(s)
    OBVIOUS
  <2>2. \A c \in Shas : c \in Shas' /\ Tree(c)' = Tree(c)
    BY <1>2 DEF Grown, Tree
  <2> QED BY <2>1, <2>2 DEF Knows, Projection, Within, Tree
<1>8. \A c \in Shas : Within(Tree(c), Tree(c)')
  BY <1>1, <1>2, WithinSelf
<1>9. Within(Tree(main), Tree(main)')
  BY <1>1, <1>2, <1>8 DEF Tree
<1>10. ASSUME NEW v \in Versions, topic[v] # 0, topic'[v] # 0
       PROVE  Within(Tree(topic[v]), Tree(topic[v])')
  <2>1. topic[v] \in Shas
    BY <1>1, <1>10
  <2>2. CASE topic'[v] = topic[v]
    BY <2>1, <2>2, <1>8 DEF Tree
  <2>3. CASE topic'[v] = n /\ Within(Tree(topic[v]), tree)
    BY <2>3, <1>2 DEF Tree
  <2> QED BY <1>10, <2>2, <2>3
<1>11. \A v \in pr' : topic'[v] # 0
  BY <1>1
<1> QED BY <1>2, <1>6, <1>7, <1>9, <1>10, <1>11 DEF Keeps, PreparationInv

LEMMA IdleKnows ==
  /\ Knows(Idle) /\ Idle \in RunStates
  BY DEF Knows, Idle, RunStates, Versions

\* A run's own steps of reading.
LEMMA Reading ==
  ASSUME PreparationInv, PreparationAssumption, NEW r \in Runs, NEW s \in RunStates, Knows(s),
         Go(r, s), UNCHANGED <<commits, main, topic, tags, edits, others>>,
         pr' \subseteq Versions, \A v \in pr' : topic[v] # 0
  PROVE  Keeps
<1>1. run \in [Runs -> RunStates] /\ \A q \in Runs : Knows(run[q])
  BY DEF PreparationInv, PreparationTypeOK
<1>2. run' \in [Runs -> RunStates] /\ \A q \in Runs : run'[q] \in {run[q], s}
  BY <1>1 DEF Go
<1>3. \A q \in Runs : Knows(run'[q])
  BY <1>1, <1>2
<1>4. PreparationTypeOK'
  BY <1>2 DEF PreparationInv, PreparationTypeOK, Shas, Commits, Trees, RunStates, Versions
<1> QED BY <1>3, <1>4, QuietStep DEF PreparationInv

LEMMA FetchStep ==
  ASSUME PreparationInv, PreparationAssumption, NEW r \in Runs, Fetch(r)
  PROVE  Keeps
<1> DEFINE s == [Idle EXCEPT !.at = "fetched", !.head = main, !.tags = tags]
<1>1. main \in Shas /\ main \in Nat /\ tags \in [Versions -> Nat]
  BY TreeTypes DEF PreparationInv, PreparationTypeOK, Shas
<1>2. s \in RunStates /\ Knows(s)
  BY <1>1 DEF Idle, RunStates, Knows
<1>3. Go(r, s) /\ UNCHANGED <<commits, main, topic, tags, edits, others>> /\ pr' \subseteq Versions
      /\ \A w \in pr' : topic[w] # 0
  BY DEF Fetch, forge, PreparationInv, PreparationTypeOK
<1> QED BY <1>2, <1>3, Reading

LEMMA ChooseStep ==
  ASSUME PreparationInv, PreparationAssumption, NEW r \in Runs, ChooseVersion(r)
  PROVE  Keeps
<1> DEFINE head == run[r].head
           tagged == {v \in Versions : run[r].tags[v] \in Past(head) /\ tags[v] # 0}
           occupied == {v \in Versions : tags[v] # 0}
<1>1. /\ UNCHANGED <<commits, main, topic, tags, edits, others>> /\ pr' \subseteq Versions
      /\ \A w \in pr' : topic[w] # 0
  BY DEF ChooseVersion, forge, PreparationInv, PreparationTypeOK
<1>2. head \in Shas /\ head \in Nat /\ Tree(head).base \in Nat
  BY TreeTypes DEF ChooseVersion, PreparationInv, PreparationTypeOK, Knows, RunStates, Shas
<1>3. CASE Ends(r)
  BY <1>1, <1>3, IdleKnows, Reading DEF Ends
<1>4. ASSUME NEW v \in Targets(Tree(head).base, tagged, occupied),
             Go(r, [Idle EXCEPT !.at = "chosen", !.head = head, !.target = v])
      PROVE  Keeps
  <2>1. v \in Versions /\ v \in Nat
    BY DEF Targets, Versions
  <2>2. Tree(head).base <= v
    <3>1. CASE MayPrepare(v, Tree(head).base)
      BY <3>1, <2>1, <1>2 DEF MayPrepare
    <3>2. ASSUME NEW first \in NextPatch(Tree(head).base, tagged),
                 MayPrepare(first, Tree(head).base), first <= v
          PROVE  Tree(head).base <= v
      <4>1. first \in Nat
        BY <1>2 DEF NextPatch, Versions
      <4> QED BY <4>1, <3>2, <2>1, <1>2 DEF MayPrepare
    <3> QED BY <3>1, <3>2 DEF Targets
  <2> DEFINE s == [Idle EXCEPT !.at = "chosen", !.head = head, !.target = v]
  <2>3. s \in RunStates /\ Knows(s)
    BY <1>2, <2>1, <2>2 DEF Idle, RunStates, Knows, Versions
  <2> QED BY <1>1, <1>4, <2>3, Reading
<1> QED BY <1>3, <1>4 DEF ChooseVersion

LEMMA ListStep ==
  ASSUME PreparationInv, PreparationAssumption, NEW r \in Runs, ListPullRequests(r)
  PROVE  Keeps
<1> DEFINE v == run[r].target
           s == [run[r] EXCEPT !.at = "listed", !.existing = v \in pr,
                               !.sha = IF v \in pr THEN topic[v] ELSE 0]
<1>1. /\ UNCHANGED <<commits, main, topic, tags, edits, others>> /\ pr' \subseteq Versions
      /\ \A w \in pr' : topic[w] # 0
      /\ Go(r, s) /\ run[r].at = "chosen"
  BY DEF ListPullRequests, forge, PreparationInv, PreparationTypeOK
<1>2. run[r] \in RunStates /\ Knows(run[r]) /\ topic \in [Versions -> Shas \cup {0}]
      /\ Len(commits) \in Nat
  BY TreeTypes DEF PreparationInv, PreparationTypeOK
<1>3. v \in Versions /\ topic[v] \in Shas \cup {0} /\ topic[v] \in Nat
  BY <1>1, <1>2 DEF Knows, Shas
<1>4. s \in RunStates
  <2>1. \A e \in BOOLEAN, x \in Nat :
          [run[r] EXCEPT !.at = "listed", !.existing = e, !.sha = x] \in RunStates
    BY <1>2 DEF RunStates
  <2>2. (v \in pr) \in BOOLEAN /\ (IF v \in pr THEN topic[v] ELSE 0) \in Nat
    BY <1>3
  <2> QED BY <2>1, <2>2
<1>5. /\ s.head = run[r].head /\ s.target = v /\ s.at = "listed"
      /\ s.existing = (v \in pr) /\ s.sha = IF v \in pr THEN topic[v] ELSE 0
  BY <1>2 DEF RunStates
<1>6. Knows(s)
  BY <1>1, <1>2, <1>3, <1>5 DEF Knows
<1> QED BY <1>1, <1>4, <1>6, Reading

LEMMA ReadTopicStep ==
  ASSUME PreparationInv, PreparationAssumption, NEW r \in Runs, ReadTopic(r)
  PROVE  Keeps
<1> DEFINE v == run[r].target
           sha == topic[v]
           head == run[r].head
<1>1. /\ UNCHANGED <<commits, main, topic, tags, edits, others>> /\ pr' \subseteq Versions
      /\ \A w \in pr' : topic[w] # 0
      /\ run[r].at = "listed"
  BY DEF ReadTopic, forge, PreparationInv, PreparationTypeOK
<1>2. run[r] \in RunStates /\ Knows(run[r]) /\ topic \in [Versions -> Shas \cup {0}]
      /\ Len(commits) \in Nat
  BY TreeTypes DEF PreparationInv, PreparationTypeOK
<1>3. v \in Versions /\ sha \in Shas \cup {0} /\ sha \in Nat /\ head \in Shas
      /\ Tree(head).base \in Nat /\ v \in Nat /\ Tree(head).base <= v
  BY <1>1, <1>2, TreeTypes DEF Knows, Shas, Versions, PreparationInv
<1>4. CASE Ends(r)
  BY <1>1, <1>4, IdleKnows, Reading DEF Ends
<1>5. ASSUME ~(run[r].existing /\ run[r].sha # sha), sha = 0,
             Go(r, [run[r] EXCEPT !.at = "ready"])
      PROVE  Keeps
  <2> DEFINE s == [run[r] EXCEPT !.at = "ready"]
  <2>1. run[r].sha = 0
    BY <1>1, <1>2, <1>5 DEF Knows
  <2>2. s \in RunStates /\ Knows(s)
    BY <1>1, <1>2, <1>3, <2>1 DEF RunStates, Knows
  <2> QED BY <1>1, <1>5, <2>2, Reading
<1>6. ASSUME sha # 0, NEW a \in References(sha, head),
             Go(r, [run[r] EXCEPT !.sha = sha,
                      !.at = IF Tree(sha) = Projection(Tree(a), v) THEN "ready" ELSE "unowned"])
      PROVE  Keeps
  <2> DEFINE s == [run[r] EXCEPT !.sha = sha,
                     !.at = IF Tree(sha) = Projection(Tree(a), v) THEN "ready" ELSE "unowned"]
  <2>1. s \in RunStates /\ s.head = head /\ s.target = v /\ s.sha = sha
        /\ s.at \in {"ready", "unowned"}
    BY <1>2, <1>3 DEF RunStates
  <2>2. ASSUME s.at = "ready" PROVE Within(Tree(sha), Projection(Tree(head), v))
    <3>1. Tree(sha) = Projection(Tree(a), v)
      BY <2>2, <1>2 DEF RunStates
    <3>2. a \in Shas /\ Within(Tree(a), Tree(head)) /\ Tree(a) \in Trees /\ Tree(head) \in Trees
      BY <1>3, <1>6, TreeTypes DEF References, MergeBases, HistoryGrows, PreparationInv
    <3> QED BY <3>1, <3>2, <1>3 DEF Within, Projection, Trees
  <2>3. Knows(s)
    BY <1>3, <2>1, <2>2 DEF Knows
  <2> QED BY <1>1, <1>6, <2>1, <2>3, Reading
<1> QED BY <1>4, <1>5, <1>6 DEF ReadTopic

LEMMA PushStep ==
  ASSUME PreparationInv, PreparationAssumption, NEW r \in Runs, Push(r)
  PROVE  Keeps
<1> DEFINE s == run[r]
           v == s.target
           tree == Projection(Tree(s.head), v)
           parents == Parents(s.sha, s.head)
           past == {Next1} \cup UNION {Past(p) : p \in parents}
           open == [s EXCEPT !.at = "open"]
<1>1. /\ main' = main /\ pr' = pr /\ tags' = tags /\ edits' = edits /\ others' = others
      /\ s.at = "ready"
  BY DEF Push
<1>2. /\ PreparationTypeOK /\ HistoryGrows
      /\ s \in RunStates /\ Knows(s) /\ run \in [Runs -> RunStates]
      /\ topic \in [Versions -> Shas \cup {0}] /\ pr \subseteq Versions
      /\ edits \in 0 .. MaxEdits /\ others \in Nat /\ Len(commits) \in Nat
      /\ (\A q \in Runs : Knows(run[q])) /\ \A w \in pr : topic[w] # 0
  BY TreeTypes DEF PreparationInv, PreparationTypeOK
<1>3. s.head \in Shas /\ v \in Versions /\ Tree(s.head).base <= v /\ s.sha \in Shas \cup {0}
      /\ (s.sha # 0 => Within(Tree(s.sha), tree))
  BY <1>1, <1>2 DEF Knows
<1>4. open \in RunStates /\ Knows(open)
  BY <1>1, <1>2, <1>3 DEF RunStates, Knows
<1>5. CASE Ends(r) /\ UNCHANGED <<commits, topic>>
  BY <1>1, <1>2, <1>5, IdleKnows, Reading DEF Ends
<1>6. CASE Go(r, open) /\ UNCHANGED <<commits, topic>>
  BY <1>1, <1>2, <1>4, <1>6, Reading
<1>7. ASSUME Accepts(topic[v], past), Commit(tree, parents, FALSE),
             topic' = [topic EXCEPT ![v] = Next1], Go(r, open)
      PROVE  Keeps
  <2>1. tree \in Trees /\ Within(Tree(s.head), tree)
    BY <1>2, <1>3, TreeTypes DEF Projection, Within, Trees, Versions
  <2>2. parents \in SUBSET Shas /\ \A p \in parents : Within(Tree(p), tree)
    BY <1>3, <2>1 DEF Parents
  <2>3. topic[v] # 0 => Within(Tree(topic[v]), tree)
    <3> SUFFICES ASSUME topic[v] # 0 PROVE Within(Tree(topic[v]), tree)
      OBVIOUS
    <3>1. topic[v] \in Shas /\ topic[v] # Next1
      BY <1>2, <1>3 DEF Next1, Shas
    <3>2. PICK p \in parents : topic[v] \in Past(p)
      BY <3>1, <1>7 DEF Accepts
    <3>3. p \in Shas /\ Within(Tree(topic[v]), Tree(p)) /\ Within(Tree(p), tree)
      BY <2>2, <3>2, <1>2 DEF HistoryGrows
    <3>4. Tree(topic[v]).base \in Nat /\ Tree(p).base \in Nat /\ tree.base \in Nat
      BY <2>1, <3>1, <3>3, <1>2, TreeTypes DEF Trees, Versions
    <3> QED BY <3>3, <3>4 DEF Within
  <2>4. /\ run' \in [Runs -> RunStates] /\ \A q \in Runs : run'[q] \in {run[q], open}
    BY <1>2, <1>4, <1>7 DEF Go
  <2>5. \A q \in Runs : Knows(run'[q])
    BY <1>2, <1>4, <2>4
  <2>6. topic' \in [Versions -> Shas \cup {0, Next1}]
        /\ \A w \in Versions : topic'[w] = topic[w] \/ (w = v /\ topic'[w] = Next1)
    BY <1>2, <1>3, <1>7
  <2> HIDE DEF tree, parents
  <2> QED BY <1>1, <1>2, <1>7, <2>1, <2>2, <2>3, <2>4, <2>5, <2>6, CommitStep
<1> QED BY <1>5, <1>6, <1>7 DEF Push

LEMMA OpenStep ==
  ASSUME PreparationInv, PreparationAssumption, NEW r \in Runs,
         OpenPullRequest(r) \/ Stops(r)
  PROVE  Keeps
<1>1. /\ UNCHANGED <<commits, main, topic, tags, edits, others>> /\ Ends(r)
  BY DEF OpenPullRequest, Stops, forge
<1>2. pr' \subseteq Versions /\ \A v \in pr' : topic[v] # 0
  <2>1. /\ pr \subseteq Versions /\ run[r] \in RunStates /\ Knows(run[r])
        /\ \A v \in pr : topic[v] # 0
    BY DEF PreparationInv, PreparationTypeOK
  <2>2. CASE OpenPullRequest(r)
    BY <2>1, <2>2 DEF OpenPullRequest, Knows
  <2> QED BY <2>1, <2>2 DEF Stops, forge
<1> QED BY <1>1, <1>2, IdleKnows, Reading DEF Ends

\* What others do to the commits: an edit, or a merge of main and a branch.
LEMMA AddEditGrows ==
  ASSUME PreparationInv, PreparationAssumption, NEW c \in Shas, edits < MaxEdits
  PROVE  AddEdit(c) \in Trees /\ Within(Tree(c), AddEdit(c)) /\ edits + 1 \in 0 .. MaxEdits
<1>1. Tree(c) \in Trees /\ edits \in 0 .. MaxEdits /\ MaxEdits \in Nat
  BY TreeTypes DEF PreparationInv, PreparationTypeOK, PreparationAssumption
<1>2. edits + 1 \in 1 .. MaxEdits /\ edits + 1 \in 0 .. MaxEdits
  BY <1>1
<1> QED BY <1>1, <1>2 DEF AddEdit, Within, Trees, Versions

LEMMA EditMainStep ==
  ASSUME PreparationInv, PreparationAssumption, EditMain
  PROVE  Keeps
<1> DEFINE n == Next1
           tree == AddEdit(main)
           parents == {main}
<1>1. /\ main \in Shas /\ topic \in [Versions -> Shas \cup {0}] /\ others \in Nat
      /\ pr \subseteq Versions /\ run \in [Runs -> RunStates] /\ \A r \in Runs : Knows(run[r])
  BY DEF PreparationInv, PreparationTypeOK
<1>2. /\ Commit(tree, parents, FALSE) /\ main' = n
      /\ edits < MaxEdits /\ edits' = edits + 1 /\ others' = others + 1
      /\ UNCHANGED <<topic, pr, tags, run>>
  BY DEF EditMain, Others
<1>3. /\ tree \in Trees /\ Within(Tree(main), tree) /\ edits' \in 0 .. MaxEdits
      /\ parents \in SUBSET Shas /\ \A p \in parents : Within(Tree(p), tree)
  BY <1>1, <1>2, AddEditGrows
<1>4. topic' \in [Versions -> Shas \cup {0, n}] /\ others' \in Nat
  BY <1>1, <1>2
<1> HIDE DEF n, tree, parents
<1>5. n = Next1
  BY DEF n
<1> QED BY <1>1, <1>2, <1>3, <1>4, <1>5, CommitStep

LEMMA EditTopicStep ==
  ASSUME PreparationInv, PreparationAssumption, NEW v \in Versions, EditTopic(v)
  PROVE  Keeps
<1> DEFINE n == Next1
           tree == AddEdit(topic[v])
           parents == {topic[v]}
<1>1. /\ topic \in [Versions -> Shas \cup {0}] /\ others \in Nat
      /\ pr \subseteq Versions /\ run \in [Runs -> RunStates] /\ \A r \in Runs : Knows(run[r])
  BY DEF PreparationInv, PreparationTypeOK
<1>2. /\ Commit(tree, parents, TRUE) /\ topic' = [topic EXCEPT ![v] = n]
      /\ edits < MaxEdits /\ edits' = edits + 1 /\ others' = others + 1
      /\ UNCHANGED <<main, pr, tags, run>> /\ topic[v] \in Shas
  BY <1>1 DEF EditTopic, Others
<1>3. /\ tree \in Trees /\ Within(Tree(topic[v]), tree)
      /\ parents \in SUBSET Shas /\ \A p \in parents : Within(Tree(p), tree)
      /\ edits' \in 0 .. MaxEdits
  BY <1>2, AddEditGrows
<1>4. /\ topic' \in [Versions -> Shas \cup {0, n}] /\ others' \in Nat
      /\ \A w \in Versions : topic'[w] = topic[w] \/ (w = v /\ topic'[w] = n)
  BY <1>1, <1>2
<1> HIDE DEF n, tree, parents
<1>5. n = Next1
  BY DEF n
<1> QED BY <1>1, <1>2, <1>3, <1>4, <1>5, CommitStep

LEMMA UpdateStep ==
  ASSUME PreparationInv, PreparationAssumption, NEW v \in Versions, UpdateBranch(v)
  PROVE  Keeps
<1> DEFINE n == Next1
<1>1. /\ topic \in [Versions -> Shas \cup {0}] /\ others \in Nat /\ main \in Shas
      /\ pr \subseteq Versions /\ run \in [Runs -> RunStates] /\ \A r \in Runs : Knows(run[r])
      /\ edits \in 0 .. MaxEdits /\ PreparationTypeOK /\ HistoryGrows
      /\ \A w \in pr : topic[w] # 0
  BY DEF PreparationInv, PreparationTypeOK
<1>2. PICK a \in MergeBases(topic[v], main) :
        Mergeable(a, topic[v], main)
          /\ Commit(Merged(a, topic[v], main), {topic[v], main}, FALSE)
  BY DEF UpdateBranch
<1>3. /\ topic' = [topic EXCEPT ![v] = n] /\ others' = others + 1
      /\ UNCHANGED <<main, pr, tags, run, edits>>
  BY DEF UpdateBranch, Others
<1>4. /\ topic' \in [Versions -> Shas \cup {0, n}] /\ others' \in Nat
      /\ \A w \in Versions : topic'[w] = topic[w] \/ (w = v /\ topic'[w] = n)
  BY <1>1, <1>3
<1> HIDE DEF n
<1>5. n = Next1
  BY DEF n
<1>6. topic[v] \in Shas
  BY <1>1 DEF UpdateBranch
<1>7. /\ Merged(a, topic[v], main) \in Trees
      /\ Within(Tree(topic[v]), Merged(a, topic[v], main))
      /\ Within(Tree(main), Merged(a, topic[v], main))
  BY <1>1, <1>2, <1>6, MergedHasBoth
<1> DEFINE tree == Merged(a, topic[v], main)
           parents == {topic[v], main}
<1>8. /\ Commit(tree, parents, FALSE) /\ tree \in Trees /\ Within(Tree(topic[v]), tree)
      /\ parents \in SUBSET Shas /\ \A p \in parents : Within(Tree(p), tree)
  BY <1>1, <1>2, <1>6, <1>7
<1> HIDE DEF tree, parents
<1> QED BY <1>1, <1>3, <1>4, <1>5, <1>8, CommitStep

LEMMA MergeStep ==
  ASSUME PreparationInv, PreparationAssumption,
         NEW v \in Versions, NEW squash \in BOOLEAN, Merge(v, squash)
  PROVE  Keeps
<1> DEFINE n == Next1
           parents == IF squash THEN {main} ELSE {main, topic[v]}
<1>1. /\ topic \in [Versions -> Shas \cup {0}] /\ others \in Nat /\ main \in Shas
      /\ pr \subseteq Versions /\ run \in [Runs -> RunStates] /\ \A r \in Runs : Knows(run[r])
      /\ edits \in 0 .. MaxEdits /\ PreparationTypeOK /\ HistoryGrows
      /\ \A w \in pr : topic[w] # 0
  BY DEF PreparationInv, PreparationTypeOK
<1>2. PICK a \in MergeBases(main, topic[v]) :
        Mergeable(a, main, topic[v])
          /\ Commit(Merged(a, main, topic[v]), parents, FALSE)
  BY DEF Merge
<1>3. /\ main' = n /\ others' = others + 1 /\ pr' = pr \ {v}
      /\ UNCHANGED <<topic, tags, run, edits>>
  BY DEF Merge, Others
<1>4. /\ topic' \in [Versions -> Shas \cup {0, n}] /\ others' \in Nat /\ pr' \subseteq pr
  BY <1>1, <1>3
<1> HIDE DEF n
<1>5. n = Next1
  BY DEF n
<1>6. topic[v] \in Shas
  BY <1>1 DEF Merge
<1>7. /\ Merged(a, main, topic[v]) \in Trees
      /\ Within(Tree(topic[v]), Merged(a, main, topic[v]))
      /\ Within(Tree(main), Merged(a, main, topic[v]))
  BY <1>1, <1>2, <1>6, MergedHasBoth
<1> DEFINE tree == Merged(a, main, topic[v])
<1>8. /\ Commit(tree, parents, FALSE) /\ tree \in Trees /\ Within(Tree(main), tree)
      /\ parents \in SUBSET Shas /\ \A p \in parents : Within(Tree(p), tree)
  BY <1>1, <1>2, <1>6, <1>7
<1> HIDE DEF tree, parents
<1> QED BY <1>1, <1>3, <1>4, <1>5, <1>8, CommitStep

LEMMA OthersStep ==
  ASSUME PreparationInv, PreparationAssumption,
         \/ \E v \in Versions : \E branch \in BOOLEAN : Drop(v, branch)
         \/ \E v \in Versions : \E c \in Shas : TagRelease(v, c)
  PROVE  Keeps
<1>1. UNCHANGED <<commits, main, run, edits>> /\ others' = others + 1
  BY DEF Drop, TagRelease, Others
<1>2. PreparationTypeOK /\ \A r \in Runs : Knows(run[r])
  BY DEF PreparationInv
<1>3. /\ topic' \in [Versions -> Shas \cup {0}] /\ \A v \in Versions : topic'[v] \in {topic[v], 0}
      /\ tags' \in [Versions -> Shas \cup {0}] /\ pr' \subseteq Versions /\ others' \in Nat
      /\ \A v \in pr' : topic'[v] # 0
  BY <1>1, <1>2 DEF Drop, TagRelease, PreparationTypeOK, PreparationInv
<1>4. PreparationTypeOK'
  BY <1>1, <1>2, <1>3 DEF PreparationTypeOK, Shas, Commits, Trees, RunStates, Versions
<1> QED BY <1>1, <1>2, <1>3, <1>4, QuietStep

-----------------------------------------------------------------------------
(* What a preparation branch was made of *)

\* Numbers follow history, and an ancestor's ancestors are ancestors.
HistoryOrdered == \A c \in Shas : \A d \in Past(c) : d <= c /\ Past(d) \subseteq Past(c)

Work(c) == Tree(c).work

\* Main had gone on to a later version when commit s was made.
Ahead(v, s) == \E m \in Past(s) \cap Past(main) : Tree(m).base > v

\* Nothing comes between commit s and its ancestor m.
FirstOn(s, m) == m \in Past(s) /\ \A a \in Past(s) : m \in Past(a) => a \in {m, s}

\* Commit s comes first after m; what work it has beyond m's, somebody did by hand.
MadeFrom(s, m) ==
  /\ FirstOn(s, m)
  /\ \A e \in Work(s) \ Work(m) :
       \E c \in Past(s) \ Past(m) : commits[c].byHand /\ e \in Work(c)

\* The head of a preparation branch, unless somebody's own commit, is made from main.
TopicMade(v, s) ==
  /\ Tree(s).base >= v /\ (Tree(s).base > v => Ahead(v, s))
  /\ commits[s].byHand \/ \E m \in Past(s) \cap Past(main) : MadeFrom(s, m)

\* Why a preparation branch may be refused.
Excused(sha, head) ==
  \/ \E c \in Past(sha) \ Past(head) : commits[c].byHand
  \/ ~(Past(sha) \cap Past(main) \subseteq Past(head))
  \/ Cardinality(MergeBases(sha, head)) > 1

\* What a run knows of main and of the branch it has found.
KnowsMain(s) ==
  /\ s.at # "idle" => s.head \in Past(main)
  /\ s.at \in {"ready", "unowned"} => s.sha \in Shas \cup {0}
  /\ s.at = "ready" /\ s.sha # 0 /\ s.head \in Past(s.sha) =>
       Tree(s.sha) = Projection(Tree(s.head), s.target)
  /\ s.at = "unowned" => s.sha # 0 /\ Excused(s.sha, s.head)

TopicInv ==
  /\ HistoryOrdered
  /\ \A v \in Versions : topic[v] # 0 => TopicMade(v, topic[v])
  /\ \A r \in Runs : KnowsMain(run[r])

\* A commit on top of others keeps the order.
LEMMA AddedOrdered ==
  ASSUME PreparationInv, HistoryOrdered, NEW n, NEW tree, NEW parents \in SUBSET Shas, NEW byHand,
         Added(n, tree, parents, byHand)
  PROVE  HistoryOrdered'
<1>1. /\ Shas' = Shas \cup {n} /\ n \in Nat
      /\ \A x : x \in Past(n)' <=> x = n \/ \E p \in parents : x \in Past(p)
      /\ \A c \in Shas : Past(c)' = Past(c) /\ c < n
      /\ \A p \in parents : Past(p) \subseteq Shas
  BY DEF Added
<1>2. \A c \in Shas : Past(c) \subseteq Shas
  BY DEF PreparationInv, HistoryGrows
<1>3. ASSUME NEW c \in Shas', NEW d \in Past(c)' PROVE d <= c /\ Past(d)' \subseteq Past(c)'
  <2>1. CASE c \in Shas
    <3>1. d \in Past(c) /\ d \in Shas
      BY <1>1, <1>2, <1>3, <2>1
    <3>2. QED
      BY <1>1, <2>1, <3>1 DEF HistoryOrdered
  <2>2. CASE c = n /\ d = n
    BY <1>1, <2>2
  <2>3. CASE c = n /\ d # n
    <3>1. PICK p \in parents : d \in Past(p)
      BY <1>1, <1>3, <2>3
    <3>2. d \in Shas /\ Past(d)' = Past(d) /\ Past(d) \subseteq Past(p) /\ d < n
      BY <1>1, <3>1 DEF HistoryOrdered
    <3>3. d <= n
      BY <1>1, <3>2 DEF Shas
    <3>4. QED
      BY <1>1, <2>3, <3>1, <3>2, <3>3
  <2>4. QED
    BY <1>1, <2>1, <2>2, <2>3
<1>4. QED
  BY <1>3 DEF HistoryOrdered

\* What is known of a commit stays true while commits are added and main goes on.
LEMMA TopicStays ==
  ASSUME PreparationInv, Grown, Past(main) \subseteq Past(main)',
         NEW v, NEW s \in Shas, TopicMade(v, s)
  PROVE  TopicMade(v, s)'
<1>1. \A c \in Shas : /\ c \in Shas' /\ Tree(c)' = Tree(c) /\ Past(c)' = Past(c) /\ Past(c) \subseteq Shas
                      /\ commits'[c].byHand = commits[c].byHand
  BY DEF Grown, Tree, Past, PreparationInv, HistoryGrows
<1>2. Tree(s)' = Tree(s) /\ Past(s)' = Past(s) /\ commits'[s].byHand = commits[s].byHand
  BY <1>1
<1>3. Ahead(v, s) => Ahead(v, s)'
  BY <1>1 DEF Ahead
<1>4. \A m \in Shas : MadeFrom(s, m) => MadeFrom(s, m)'
  BY <1>1 DEF MadeFrom, FirstOn, Work
<1>5. (\E m \in Past(s) \cap Past(main) : MadeFrom(s, m)) => \E m \in Past(s)' \cap Past(main)' : MadeFrom(s, m)'
  BY <1>1, <1>4
<1>6. QED
  BY <1>2, <1>3, <1>5 DEF TopicMade

LEMMA MergeBasesStay ==
  ASSUME PreparationInv, Grown, NEW c \in Shas, NEW d \in Shas
  PROVE  MergeBases(c, d)' = MergeBases(c, d)
<1>1. \A x \in Shas : Past(x)' = Past(x) /\ Past(x) \subseteq Shas
  BY DEF Grown, Past, PreparationInv, HistoryGrows
<1>2. \A x : x \in MergeBases(c, d)' <=> x \in MergeBases(c, d)
  BY <1>1 DEF MergeBases
<1>3. QED
  BY <1>2

LEMMA KnowledgeStays ==
  ASSUME PreparationInv, Grown, Past(main) \subseteq Past(main)', NEW s, KnowsMain(s)
  PROVE  KnowsMain(s)'
<1>1. \A c \in Shas : /\ c \in Shas' /\ Tree(c)' = Tree(c) /\ Past(c)' = Past(c) /\ Past(c) \subseteq Shas
                      /\ commits'[c].byHand = commits[c].byHand
  BY DEF Grown, Tree, Past, PreparationInv, HistoryGrows
<1>2. main \in Shas /\ Past(main) \subseteq Shas
  BY <1>1 DEF PreparationInv, PreparationTypeOK
<1>3. s.at # "idle" => s.head \in Shas /\ s.head \in Past(main)'
  BY <1>2 DEF KnowsMain
<1>4. ASSUME s.at = "ready", s.sha # 0, s.head \in Past(s.sha)'
      PROVE  Tree(s.sha)' = Projection(Tree(s.head)', s.target)
  <2>1. s.sha \in Shas /\ s.head \in Shas
    BY <1>3, <1>4 DEF KnowsMain
  <2>2. QED
    BY <1>1, <1>4, <2>1 DEF KnowsMain
<1>5. ASSUME s.at = "unowned" PROVE Excused(s.sha, s.head)'
  <2>1. s.sha \in Shas /\ s.head \in Shas /\ Excused(s.sha, s.head)
    BY <1>3, <1>5 DEF KnowsMain
  <2>2. MergeBases(s.sha, s.head)' = MergeBases(s.sha, s.head)
    BY <2>1, MergeBasesStay
  <2>3. QED
    BY <1>1, <2>1, <2>2 DEF Excused
<1>6. QED
  BY <1>1, <1>3, <1>4, <1>5 DEF KnowsMain, Projection

\* Steps that make no commit.
LEMMA TopicQuiet ==
  ASSUME PreparationInv, TopicInv, UNCHANGED <<commits, main>>,
         \A v \in Versions : topic'[v] \in {topic[v], 0},
         \A r \in Runs : KnowsMain(run'[r])
  PROVE  TopicInv'
<1>1. Grown /\ Past(main) \subseteq Past(main)'
  BY DEF Grown, Shas, Past
<1>2. HistoryOrdered'
  BY DEF TopicInv, HistoryOrdered, Shas, Past
<1>3. ASSUME NEW v \in Versions, topic'[v] # 0 PROVE TopicMade(v, topic[v])'
  <2>1. PICK s : s = topic'[v]
    OBVIOUS
  <2>2. s = topic[v] /\ s \in Shas /\ TopicMade(v, s)
    BY <1>3, <2>1 DEF PreparationInv, PreparationTypeOK, TopicInv
  <2>3. TopicMade(v, s)'
    BY <1>1, <2>2, TopicStays
  <2>4. QED
    BY <2>1, <2>3 DEF TopicMade, Tree, Past, Ahead, MadeFrom, FirstOn, Work
<1>4. ASSUME NEW r \in Runs PROVE KnowsMain(run[r])'
  <2>1. PICK s : s = run'[r]
    OBVIOUS
  <2>2. KnowsMain(s)
    BY <2>1
  <2>3. KnowsMain(s)'
    BY <1>1, <2>2, KnowledgeStays
  <2>4. QED
    BY <2>1, <2>3 DEF KnowsMain, Shas, Past, Tree, Projection, Excused, MergeBases
<1>5. QED
  BY <1>2, <1>3, <1>4 DEF TopicInv

\* Steps that make a commit, for main or for a branch.
LEMMA TopicCommit ==
  ASSUME PreparationInv, TopicInv, PreparationTypeOK',
         NEW n, NEW tree, NEW parents \in SUBSET Shas, NEW byHand,
         Added(n, tree, parents, byHand),
         main' = main \/ (main' = n /\ main \in parents),
         \A v \in Versions : \/ topic'[v] = topic[v]
                             \/ topic'[v] = n /\ (Past(main) \subseteq Past(main)' => TopicMade(v, n)'),
         \A r \in Runs : KnowsMain(run'[r])
  PROVE  TopicInv'
<1>1. Grown /\ Past(main) \subseteq Past(main)'
  <2>1. main \in Shas
    BY DEF PreparationInv, PreparationTypeOK
  <2>2. \A c \in Shas : Past(c)' = Past(c)
    BY DEF Added
  <2>3. CASE main' = main
    BY <2>1, <2>2, <2>3 DEF Past, Added
  <2>4. CASE main' = n /\ main \in parents
    <3>1. \A x \in Past(main) : x \in Past(n)'
      BY <2>4 DEF Added
    <3>2. QED
      BY <2>4, <3>1 DEF Past, Added
  <2>5. QED
    BY <2>3, <2>4
<1>2. HistoryOrdered'
  BY AddedOrdered DEF TopicInv
<1>3. ASSUME NEW v \in Versions, topic'[v] # 0 PROVE TopicMade(v, topic[v])'
  <2>1. PICK s : s = topic'[v]
    OBVIOUS
  <2>2. ASSUME s = topic[v] PROVE TopicMade(v, s)'
    <3>1. s \in Shas /\ TopicMade(v, s)
      BY <1>3, <2>1, <2>2 DEF PreparationInv, PreparationTypeOK, TopicInv
    <3>2. QED
      BY <1>1, <3>1, TopicStays
  <2>3. TopicMade(v, s)'
    BY <1>1, <2>1, <2>2
  <2>4. QED
    BY <2>1, <2>3 DEF TopicMade, Tree, Past, Ahead, MadeFrom, FirstOn, Work
<1>4. ASSUME NEW r \in Runs PROVE KnowsMain(run[r])'
  <2>1. PICK s : s = run'[r]
    OBVIOUS
  <2>2. KnowsMain(s)
    BY <2>1
  <2>3. KnowsMain(s)'
    BY <1>1, <2>2, KnowledgeStays
  <2>4. QED
    BY <2>1, <2>3 DEF KnowsMain, Shas, Past, Tree, Projection, Excused, MergeBases
<1>5. QED
  BY <1>2, <1>3, <1>4 DEF TopicInv

\* An idle run knows nothing, and a run that reads changes nothing else.
LEMMA TopicReading ==
  ASSUME PreparationInv, TopicInv, NEW r \in Runs, NEW s, KnowsMain(s), Go(r, s),
         UNCHANGED <<commits, main, topic>>
  PROVE  TopicInv'
<1>1. run \in [Runs -> RunStates] /\ \A q \in Runs : KnowsMain(run[q])
  BY DEF PreparationInv, PreparationTypeOK, TopicInv
<1>2. \A q \in Runs : run'[q] \in {run[q], s}
  BY <1>1 DEF Go
<1>3. \A q \in Runs : KnowsMain(run'[q])
  BY <1>1, <1>2
<1>4. QED
  BY <1>3, TopicQuiet

LEMMA IdleKnowsMain == KnowsMain(Idle)
  BY DEF KnowsMain, Idle

\* Of a set of commits, one is the latest.
LEMMA LatestOf ==
  ASSUME PreparationTypeOK, NEW T, T \subseteq Shas, T # {}
  PROVE  \E y \in T : \A z \in T : z <= y
<1> DEFINE S == {Len(commits) - y : y \in T}
           R == {ss \in Nat \X Nat : ss[1] < ss[2]}
<1>1. Len(commits) \in Nat /\ \A y \in T : y \in Nat /\ Len(commits) - y \in Nat
  BY TreeTypes DEF Shas
<1>2. S \subseteq Nat /\ S # {}
  BY <1>1
<1>3. IsWellFoundedOn(R, Nat)
  BY NatLessThanWellFounded DEF OpToRel
<1>4. PICK x \in S : \A y \in S : ~ (<<y, x>> \in R)
  <2> HIDE DEF R, S
  <2>1. QED
    BY <1>2, <1>3, WFMin
<1>5. PICK y \in T : x = Len(commits) - y
  OBVIOUS
<1>6. ASSUME NEW z \in T PROVE z <= y
  <2>1. <<Len(commits) - z, x>> \notin R /\ x \in Nat /\ Len(commits) - z \in Nat
    BY <1>1, <1>2, <1>4
  <2>2. ~ (Len(commits) - z < x)
    BY <2>1, Zenon
  <2>3. QED
    BY <1>1, <1>5, <2>1, <2>2
<1>7. QED
  BY <1>6

\* Every common ancestor is one of a merge base.
LEMMA BelowMergeBase ==
  ASSUME PreparationInv, HistoryOrdered, NEW c \in Shas, NEW d \in Shas,
         NEW x \in Past(c) \cap Past(d)
  PROVE  \E a \in MergeBases(c, d) : x \in Past(a)
<1> DEFINE T == {y \in Past(c) \cap Past(d) : x \in Past(y)}
<1>1. Past(c) \subseteq Shas /\ x \in Shas /\ x \in Past(x)
  BY DEF PreparationInv, HistoryGrows
<1>2. T \subseteq Shas /\ x \in T
  BY <1>1
<1>3. PICK y \in T : \A z \in T : z <= y
  <2> HIDE DEF T
  <2>1. QED
    BY <1>2, LatestOf DEF PreparationInv
<1>4. ASSUME NEW b \in (Past(c) \cap Past(d)) \ {y}, y \in Past(b) PROVE FALSE
  <2>1. b \in Shas /\ y \in Shas
    BY <1>1, <1>2
  <2>2. b \in T
    BY <1>4, <2>1 DEF HistoryOrdered
  <2>3. b <= y /\ y <= b
    BY <1>3, <1>4, <2>1, <2>2 DEF HistoryOrdered
  <2>4. QED
    BY <2>1, <2>3, TreeTypes DEF Shas, PreparationInv
<1>5. QED
  BY <1>4 DEF MergeBases

\* With one merge base, every common ancestor is one of it.
LEMMA OneMergeBase ==
  ASSUME PreparationInv, HistoryOrdered, NEW c \in Shas, NEW d \in Shas, NEW a \in MergeBases(c, d),
         ~(Cardinality(MergeBases(c, d)) > 1)
  PROVE  \A x \in Past(c) \cap Past(d) : x \in Past(a)
<1>1. MergeBases(c, d) \subseteq Shas
  BY DEF MergeBases, PreparationInv, HistoryGrows
<1>2. Len(commits) \in Nat
  BY TreeTypes DEF PreparationInv
<1>3. IsFiniteSet(Shas)
  BY <1>2, FS_Interval DEF Shas
<1>4. IsFiniteSet(MergeBases(c, d))
  BY <1>1, <1>3, FS_Subset
<1>5. ASSUME NEW b \in MergeBases(c, d), b # a PROVE FALSE
  <2>1. IsFiniteSet(MergeBases(c, d) \ {a}) /\ Cardinality(MergeBases(c, d) \ {a}) = Cardinality(MergeBases(c, d)) - 1
    BY <1>4, FS_RemoveElement
  <2>2. MergeBases(c, d) \ {a} # {}
    BY <1>5
  <2>3. Cardinality(MergeBases(c, d) \ {a}) \in Nat /\ Cardinality(MergeBases(c, d) \ {a}) # 0
    BY <2>1, <2>2, FS_EmptySet, FS_CardinalityType
  <2>4. Cardinality(MergeBases(c, d)) \in Nat
    BY <1>4, FS_CardinalityType
  <2>5. QED
    BY <2>1, <2>3, <2>4
<1>6. QED
  BY <1>5, BelowMergeBase

\* What a run refuses is not what some run makes of where the branch left main.
LEMMA RefusedIsExcused ==
  ASSUME PreparationInv, TopicInv, NEW v \in Versions, topic[v] # 0,
         NEW head \in Past(main), Tree(head).base <= v,
         NEW a \in MergeBases(topic[v], head), Tree(topic[v]) # Projection(Tree(a), v)
  PROVE  Excused(topic[v], head)
<1>1. PICK s : s = topic[v]
  OBVIOUS
<1>2. SUFFICES ASSUME ~Excused(s, head) PROVE FALSE
  BY <1>1
<1>3. /\ s \in Shas /\ TopicMade(v, s) /\ main \in Shas /\ head \in Shas
      /\ HistoryOrdered /\ a \in MergeBases(s, head) /\ Tree(s) # Projection(Tree(a), v)
  BY <1>1 DEF PreparationInv, PreparationTypeOK, TopicInv, HistoryGrows
<1>4. /\ \A c \in Past(s) : commits[c].byHand => c \in Past(head)
      /\ Past(s) \cap Past(main) \subseteq Past(head)
      /\ ~(Cardinality(MergeBases(s, head)) > 1)
  BY <1>2 DEF Excused
<1>5. \A x \in Past(s) \cap Past(head) : x \in Past(a)
  BY <1>3, <1>4, OneMergeBase
<1>6. /\ s \in Past(s) /\ a \in Past(s) /\ a \in Shas /\ \A c \in Past(head) : Tree(c).base <= Tree(head).base
      /\ \A c \in Past(s) : c \in Shas
  BY <1>3 DEF MergeBases, PreparationInv, HistoryGrows, Within
<1>7. /\ Tree(s) \in Trees /\ Tree(a) \in Trees /\ Tree(s).base \in Nat /\ v \in Nat
      /\ Tree(head).base \in Nat /\ \A c \in Shas : Tree(c).base \in Nat
  BY <1>3, <1>6, TreeTypes DEF PreparationInv, Versions
<1>8. Tree(s).base = v
  <2>1. ASSUME Ahead(v, s) PROVE FALSE
    <3>1. PICK m \in Past(s) \cap Past(main) : Tree(m).base > v
      BY <2>1 DEF Ahead
    <3>2. m \in Past(head) /\ m \in Shas
      BY <1>4, <1>6, <3>1
    <3>3. QED
      BY <1>6, <1>7, <3>1, <3>2
  <2>2. Tree(s).base >= v /\ ~(Tree(s).base > v)
    BY <1>3, <2>1 DEF TopicMade
  <2>3. QED
    BY <1>7, <2>2
<1>9. a # s
  BY <1>3, <1>7, <1>8 DEF Projection, Trees
<1>10. ~commits[s].byHand
  <2>1. ASSUME commits[s].byHand PROVE FALSE
    <3>1. s \in Past(a)
      BY <1>4, <1>5, <1>6, <2>1
    <3>2. s <= a /\ a <= s
      BY <1>3, <1>6, <3>1 DEF HistoryOrdered
    <3>3. QED
      BY <1>3, <1>6, <1>9, <3>2, TreeTypes DEF Shas, PreparationInv
  <2>2. QED
    BY <2>1
<1>11. PICK m \in Past(s) \cap Past(main) : MadeFrom(s, m)
  BY <1>3, <1>10 DEF TopicMade
<1>12. m \in Past(a) /\ a = m
  <2>1. m \in Past(a)
    BY <1>4, <1>5, <1>11
  <2>2. QED
    BY <1>6, <1>9, <1>11, <2>1 DEF MadeFrom, FirstOn
<1>13. Work(s) = Work(a)
  <2>1. Work(a) \subseteq Work(s)
    BY <1>3, <1>6 DEF PreparationInv, HistoryGrows, Within, Work
  <2>2. ASSUME NEW e \in Work(s) \ Work(a) PROVE FALSE
    <3>1. PICK c \in Past(s) \ Past(m) : commits[c].byHand
      BY <1>11, <1>12, <2>2 DEF MadeFrom, FirstOn
    <3>2. QED
      BY <1>4, <1>5, <1>12, <3>1
  <2>3. QED
    BY <2>1, <2>2
<1>14. Tree(s) = Projection(Tree(a), v)
  BY <1>7, <1>8, <1>13 DEF Projection, Trees, Work
<1>15. QED
  BY <1>3, <1>14

\* A commit is the first on top of a parent that none of its other parents has.
LEMMA FirstOnTop ==
  ASSUME PreparationInv, HistoryOrdered, NEW n, NEW tree, NEW parents \in SUBSET Shas, NEW byHand,
         Added(n, tree, parents, byHand),
         NEW m \in parents, \A p \in parents \ {m} : m \notin Past(p)
  PROVE  FirstOn(n, m)'
<1>1. /\ \A x : x \in Past(n)' <=> x = n \/ \E p \in parents : x \in Past(p)
      /\ \A c \in Shas : Past(c)' = Past(c)
      /\ \A p \in parents : Past(p) \subseteq Shas
  BY DEF Added
<1>2. m \in Past(n)'
  BY <1>1 DEF PreparationInv, HistoryGrows
<1>3. ASSUME NEW a \in Past(n)', m \in Past(a)', a # n PROVE a = m
  <2>1. PICK p \in parents : a \in Past(p)
    BY <1>1, <1>3
  <2>2. a \in Shas /\ m \in Past(a) /\ p \in Shas /\ m \in Past(p)
    BY <1>1, <1>3, <2>1 DEF HistoryOrdered
  <2>3. a <= m /\ m <= a
    BY <2>1, <2>2 DEF HistoryOrdered
  <2>4. QED
    BY <2>2, <2>3, TreeTypes DEF Shas, PreparationInv
<1>4. QED
  BY <1>2, <1>3 DEF FirstOn

LEMMA TopicReadSteps ==
  ASSUME PreparationInv, TopicInv, NEW r \in Runs,
         \/ Fetch(r) \/ ChooseVersion(r) \/ ListPullRequests(r)
         \/ OpenPullRequest(r) \/ Stops(r)
  PROVE  TopicInv'
<1>0. /\ run[r] \in RunStates /\ KnowsMain(run[r]) /\ main \in Past(main)
      /\ UNCHANGED <<commits, main, topic>>
  BY DEF PreparationInv, PreparationTypeOK, HistoryGrows, TopicInv, Fetch, ChooseVersion,
         ListPullRequests, OpenPullRequest, Stops, forge
<1>1. CASE Ends(r)
  BY <1>0, <1>1, IdleKnowsMain, TopicReading DEF Ends
<1>2. CASE Fetch(r)
  <2> DEFINE s == [Idle EXCEPT !.at = "fetched", !.head = main, !.tags = tags]
  <2>1. KnowsMain(s)
    BY <1>0 DEF Idle, KnowsMain
  <2>2. Go(r, s)
    BY <1>2 DEF Fetch
  <2>3. QED
    BY <1>0, <2>1, <2>2, TopicReading
<1>3. CASE ChooseVersion(r) /\ ~Ends(r)
  <2>1. PICK v : Go(r, [Idle EXCEPT !.at = "chosen", !.head = run[r].head, !.target = v])
    BY <1>3 DEF ChooseVersion
  <2> DEFINE s == [Idle EXCEPT !.at = "chosen", !.head = run[r].head, !.target = v]
  <2>2. KnowsMain(s)
    BY <1>0, <1>3 DEF Idle, KnowsMain, ChooseVersion
  <2>3. QED
    BY <1>0, <2>1, <2>2, TopicReading
<1>4. CASE ListPullRequests(r)
  <2> DEFINE v == run[r].target
             s == [run[r] EXCEPT !.at = "listed", !.existing = v \in pr,
                                 !.sha = IF v \in pr THEN topic[v] ELSE 0]
  <2>1. Go(r, s) /\ run[r].at = "chosen"
    BY <1>4 DEF ListPullRequests
  <2>2. s.at = "listed" /\ s.head = run[r].head
    BY <1>0 DEF RunStates
  <2>3. KnowsMain(s)
    BY <1>0, <2>1, <2>2 DEF KnowsMain
  <2>4. QED
    BY <1>0, <2>1, <2>3, TopicReading
<1>5. QED
  BY <1>1, <1>2, <1>3, <1>4 DEF OpenPullRequest, Stops

\* A branch that is found is taken up, or there is a reason not to.
LEMMA TopicReadTopic ==
  ASSUME PreparationInv, TopicInv, NEW r \in Runs, ReadTopic(r)
  PROVE  TopicInv'
<1> DEFINE v == run[r].target
           sha == topic[v]
           head == run[r].head
<1>0. /\ run[r] \in RunStates /\ KnowsMain(run[r]) /\ Knows(run[r]) /\ run[r].at = "listed"
      /\ UNCHANGED <<commits, main, topic>> /\ topic \in [Versions -> Shas \cup {0}]
      /\ HistoryOrdered /\ PreparationTypeOK
  BY DEF PreparationInv, PreparationTypeOK, TopicInv, ReadTopic, forge
<1>1. v \in Versions /\ sha \in Shas \cup {0} /\ head \in Past(main) /\ head \in Shas
      /\ Tree(head).base <= v
  BY <1>0 DEF Knows, KnowsMain
<1>2. CASE Ends(r)
  BY <1>0, <1>2, IdleKnowsMain, TopicReading DEF Ends
<1>3. ASSUME ~(run[r].existing /\ run[r].sha # sha), sha = 0,
             Go(r, [run[r] EXCEPT !.at = "ready"])
      PROVE  TopicInv'
  <2> DEFINE s == [run[r] EXCEPT !.at = "ready"]
  <2>1. s.at = "ready" /\ s.head = head /\ s.sha = 0
    BY <1>0, <1>3 DEF RunStates, Knows
  <2>2. KnowsMain(s)
    BY <1>1, <2>1 DEF KnowsMain
  <2>3. QED
    BY <1>0, <1>3, <2>2, TopicReading
<1>4. ASSUME sha # 0, NEW a \in References(sha, head),
             Go(r, [run[r] EXCEPT !.sha = sha,
                      !.at = IF Tree(sha) = Projection(Tree(a), v) THEN "ready" ELSE "unowned"])
      PROVE  TopicInv'
  <2> DEFINE s == [run[r] EXCEPT !.sha = sha,
                     !.at = IF Tree(sha) = Projection(Tree(a), v) THEN "ready" ELSE "unowned"]
  <2>1. /\ s.head = head /\ s.target = v /\ s.sha = sha
        /\ s.at = IF Tree(sha) = Projection(Tree(a), v) THEN "ready" ELSE "unowned"
    BY <1>0 DEF RunStates
  <2>2. a \in MergeBases(sha, head) /\ sha \in Shas
    BY <1>1, <1>4 DEF References
  <2>3. ASSUME Tree(sha) # Projection(Tree(a), v) PROVE Excused(sha, head)
    BY <1>1, <1>4, <2>2, <2>3, RefusedIsExcused
  <2>4. ASSUME head \in Past(sha) PROVE a = head
    <3>1. head \in Past(head) /\ a \in Past(head)
      BY <1>1, <2>2 DEF MergeBases, PreparationInv, HistoryGrows
    <3>2. QED
      BY <2>2, <2>4, <3>1 DEF MergeBases
  <2>5. KnowsMain(s)
    <3>1. CASE Tree(sha) = Projection(Tree(a), v)
      BY <1>1, <2>1, <2>2, <2>4, <3>1 DEF KnowsMain
    <3>2. CASE Tree(sha) # Projection(Tree(a), v)
      BY <1>1, <1>4, <2>1, <2>2, <2>3, <3>2 DEF KnowsMain
    <3>3. QED
      BY <3>1, <3>2
  <2>6. QED
    BY <1>0, <1>4, <2>5, TopicReading
<1>5. QED
  BY <1>2, <1>3, <1>4 DEF ReadTopic

\* What a run pushes it has made from the head it works from.
LEMMA PushedIsMade ==
  ASSUME PreparationInv, TopicInv, NEW v \in Versions, NEW h \in Past(main), NEW tree,
         tree = Projection(Tree(h), v),
         NEW parents \in SUBSET Shas, h \in parents, \A p \in parents \ {h} : h \notin Past(p),
         NEW n, Added(n, tree, parents, FALSE), Past(main) \subseteq Past(main)'
  PROVE  TopicMade(v, n)'
<1>1. h \in Shas /\ HistoryOrdered /\ Tree(h) \in Trees
  BY TreeTypes DEF TopicInv, PreparationInv
<1>2. tree.base = v /\ tree.work = Work(h) /\ v \in Nat
  BY <1>1 DEF Projection, Trees, Versions, Work
<1>3. Tree(n)' = tree /\ Tree(h)' = Tree(h)
  BY <1>1 DEF Added
<1>4. FirstOn(n, h)' /\ h \in Past(n)'
  <2>1. FirstOn(n, h)'
    BY <1>1, FirstOnTop
  <2>2. QED
    BY <2>1 DEF FirstOn
<1>5. MadeFrom(n, h)'
  BY <1>2, <1>3, <1>4 DEF MadeFrom, FirstOn, Work
<1>6. Tree(n)'.base >= v /\ ~(Tree(n)'.base > v)
  BY <1>2, <1>3
<1>7. QED
  BY <1>4, <1>5, <1>6 DEF TopicMade

LEMMA TopicPush ==
  ASSUME PreparationInv, TopicInv, PreparationAssumption, NEW r \in Runs, Push(r)
  PROVE  TopicInv'
<1> DEFINE s == run[r]
           v == s.target
           open == [s EXCEPT !.at = "open"]
<1>0. /\ s \in RunStates /\ KnowsMain(s) /\ Knows(s) /\ s.at = "ready" /\ main' = main
      /\ run \in [Runs -> RunStates] /\ topic \in [Versions -> Shas \cup {0}]
      /\ HistoryOrdered /\ PreparationTypeOK /\ HistoryGrows /\ main \in Shas
      /\ \A q \in Runs : KnowsMain(run[q])
  BY DEF PreparationInv, PreparationTypeOK, TopicInv, Push
<1>1. /\ v \in Versions /\ s.head \in Past(main) /\ s.head \in Shas /\ s.sha \in Shas \cup {0}
      /\ (s.sha # 0 /\ s.head \in Past(s.sha) => Tree(s.sha) = Projection(Tree(s.head), v))
  BY <1>0 DEF Knows, KnowsMain
<1>2. KnowsMain(open)
  <2>1. open.at = "open" /\ open.head = s.head
    BY <1>0 DEF RunStates
  <2>2. QED
    BY <1>1, <2>1 DEF KnowsMain
<1>3. CASE Ends(r) /\ UNCHANGED <<commits, topic>>
  BY <1>0, <1>3, IdleKnowsMain, TopicReading DEF Ends
<1>4. CASE Go(r, open) /\ UNCHANGED <<commits, topic>>
  BY <1>0, <1>2, <1>4, TopicReading
<1>5. ASSUME s.sha # 0 => Projection(Tree(s.head), v) # Tree(s.sha),
             Commit(Projection(Tree(s.head), v), Parents(s.sha, s.head), FALSE),
             topic' = [topic EXCEPT ![v] = Next1], Go(r, open)
      PROVE  TopicInv'
  <2>1. PICK w, h, sha, n, tree, parents :
          /\ w = v /\ h = s.head /\ sha = s.sha /\ n = Next1
          /\ w \in Versions /\ h \in Past(main) /\ sha \in Shas \cup {0}
          /\ tree = Projection(Tree(h), w) /\ parents = Parents(sha, h)
    BY <1>1
  <2>2. h \in Shas /\ Commit(tree, parents, FALSE) /\ (sha # 0 => h \notin Past(sha))
    BY <1>1, <1>5, <2>1
  <2>3. tree \in Trees
    <3>1. Tree(h) \in Trees /\ w \in Versions
      BY <1>0, <2>1, <2>2, TreeTypes
    <3>2. QED
      BY <2>1, <3>1 DEF Projection, Trees
  <2>4. parents \in SUBSET Shas /\ h \in parents /\ \A p \in parents \ {h} : h \notin Past(p)
    <3>1. 0 \notin Shas
      BY DEF Shas
    <3>2. QED
      BY <2>1, <2>2, <3>1 DEF Parents
  <2>5. Added(n, tree, parents, FALSE)
    BY <1>0, <2>1, <2>2, <2>3, <2>4, CommitAdds
  <2>6. ASSUME Past(main) \subseteq Past(main)' PROVE TopicMade(w, n)'
    BY <2>1, <2>4, <2>5, <2>6, PushedIsMade
  <2>7. \A q \in Runs : KnowsMain(run'[q])
    <3>1. \A q \in Runs : run'[q] \in {run[q], open}
      BY <1>0, <1>5 DEF Go
    <3>2. QED
      BY <1>0, <1>2, <3>1
  <2>8. PreparationTypeOK'
    BY PushStep DEF Keeps, PreparationInv
  <2>9. \A q \in Versions : topic'[q] = topic[q] \/ (topic'[q] = n /\ q = w)
    BY <1>0, <1>5, <2>1
  <2>10. \A q \in Versions : \/ topic'[q] = topic[q]
                             \/ topic'[q] = n /\ (Past(main) \subseteq Past(main)' => TopicMade(q, n)')
    BY <2>6, <2>9
  <2>11. QED
    BY <1>0, <2>4, <2>5, <2>7, <2>8, <2>10, TopicCommit
<1>6. QED
  BY <1>3, <1>4, <1>5 DEF Push

\* Runs that a step leaves alone still know what they knew.
LEMMA RunsKnowMain ==
  ASSUME PreparationInv, TopicInv, run' = run
  PROVE  /\ \A q \in Runs : KnowsMain(run'[q])
         /\ HistoryOrdered /\ PreparationTypeOK /\ HistoryGrows /\ main \in Shas
         /\ topic \in [Versions -> Shas \cup {0}]
         /\ \A c \in Shas : c \in Past(c) /\ Past(c) \subseteq Shas
  BY DEF PreparationInv, TopicInv, PreparationTypeOK, HistoryGrows

LEMMA TopicEditMain ==
  ASSUME PreparationInv, TopicInv, PreparationAssumption, EditMain
  PROVE  TopicInv'
<1>1. PICK n, tree, parents : n = Next1 /\ tree = AddEdit(main) /\ parents = {main}
  OBVIOUS
<1>2. /\ Commit(tree, parents, FALSE) /\ main' = n /\ main \in parents
      /\ edits < MaxEdits /\ topic' = topic /\ run' = run
  BY <1>1 DEF EditMain
<1>3. /\ \A q \in Runs : KnowsMain(run'[q])
      /\ PreparationTypeOK /\ HistoryGrows /\ main \in Shas
  BY <1>2, RunsKnowMain
<1>4. tree \in Trees /\ parents \in SUBSET Shas
  BY <1>1, <1>2, <1>3, AddEditGrows
<1>5. Added(n, tree, parents, FALSE)
  BY <1>1, <1>2, <1>3, <1>4, CommitAdds
<1>6. PreparationTypeOK'
  BY EditMainStep DEF Keeps, PreparationInv
<1>7. \A v \in Versions : topic'[v] = topic[v]
  BY <1>2
<1>8. QED
  BY <1>2, <1>3, <1>4, <1>5, <1>6, <1>7, TopicCommit

\* A commit of somebody's own on top of a branch made from main.
LEMMA EditedIsMade ==
  ASSUME PreparationInv, TopicInv, NEW v \in Versions, NEW s \in Shas, TopicMade(v, s),
         NEW n, NEW tree, tree.base = Tree(s).base,
         NEW parents \in SUBSET Shas, s \in parents,
         Added(n, tree, parents, TRUE), Past(main) \subseteq Past(main)'
  PROVE  TopicMade(v, n)'
<1>1. /\ Tree(n)' = tree /\ commits'[n].byHand = TRUE
      /\ \A x \in Past(s) : x \in Past(n)' /\ Tree(x)' = Tree(x)
  BY DEF Added, PreparationInv, HistoryGrows
<1>2. Ahead(v, s) => Ahead(v, n)'
  BY <1>1 DEF Ahead
<1>3. QED
  BY <1>1, <1>2 DEF TopicMade

LEMMA TopicEditTopic ==
  ASSUME PreparationInv, TopicInv, PreparationAssumption, NEW v \in Versions, EditTopic(v)
  PROVE  TopicInv'
<1>1. PICK s, n, tree, parents :
        s = topic[v] /\ n = Next1 /\ tree = AddEdit(s) /\ parents = {s}
  OBVIOUS
<1>2. /\ Commit(tree, parents, TRUE) /\ topic' = [topic EXCEPT ![v] = n]
      /\ edits < MaxEdits /\ main' = main /\ run' = run /\ s # 0
  BY <1>1 DEF EditTopic
<1>3. /\ \A q \in Runs : KnowsMain(run'[q])
      /\ PreparationTypeOK /\ HistoryGrows /\ topic \in [Versions -> Shas \cup {0}]
  BY <1>2, RunsKnowMain
<1>4. s \in Shas /\ TopicMade(v, s)
  BY <1>1, <1>2, <1>3 DEF TopicInv
<1>5. tree \in Trees /\ parents \in SUBSET Shas /\ s \in parents
  BY <1>1, <1>2, <1>4, AddEditGrows
<1>6. tree.base = Tree(s).base
  <2>1. Tree(s) \in Trees
    BY <1>3, <1>4, TreeTypes
  <2>2. QED
    BY <1>1, <2>1 DEF AddEdit, Trees
<1>7. Added(n, tree, parents, TRUE)
  BY <1>1, <1>2, <1>3, <1>5, CommitAdds
<1>8. ASSUME Past(main) \subseteq Past(main)' PROVE TopicMade(v, n)'
  BY <1>4, <1>5, <1>6, <1>7, <1>8, EditedIsMade
<1>9. PreparationTypeOK'
  BY EditTopicStep DEF Keeps, PreparationInv
<1>10. \A q \in Versions : \/ topic'[q] = topic[q]
                           \/ topic'[q] = n /\ (Past(main) \subseteq Past(main)' => TopicMade(q, n)')
  <2>1. \A q \in Versions : topic'[q] = topic[q] \/ (topic'[q] = n /\ q = v)
    BY <1>2, <1>3
  <2>2. QED
    BY <1>8, <2>1
<1>11. QED
  BY <1>2, <1>3, <1>5, <1>7, <1>9, <1>10, TopicCommit

\* A merge of main into a branch made from it is made from main as it was.
LEMMA UpdatedIsMade ==
  ASSUME PreparationInv, TopicInv, NEW v \in Versions, NEW s \in Shas, TopicMade(v, s),
         NEW m \in Shas, m = main, m \notin Past(s),
         NEW n, NEW tree, tree.work = Work(s) \cup Work(m),
         tree.base \in {Tree(s).base, Tree(m).base}, tree.base \in Nat,
         Tree(s).base <= tree.base,
         NEW parents \in SUBSET Shas, parents = {s, m},
         Added(n, tree, parents, FALSE), Past(main) \subseteq Past(main)'
  PROVE  TopicMade(v, n)'
<1>1. /\ Tree(n)' = tree
      /\ \A x \in Past(s) : x \in Past(n)'
      /\ m \in Past(n)' /\ m \in Past(main)' /\ m \in Past(m)
      /\ \A c \in Shas : /\ Tree(c)' = Tree(c) /\ Past(c)' = Past(c)
                         /\ commits'[c].byHand = commits[c].byHand
  BY DEF Added, PreparationInv, HistoryGrows
<1>2. Past(s) \subseteq Shas /\ s \in Past(s) /\ Past(m) \subseteq Shas /\ HistoryOrdered
      /\ (\A c \in Shas : Tree(c).base \in Nat) /\ v \in Nat
  BY TreeTypes DEF PreparationInv, HistoryGrows, TopicInv, Versions
<1>3. tree.base >= v /\ (tree.base > v => Ahead(v, n)')
  <2>1. Tree(s).base >= v /\ (Tree(s).base > v => Ahead(v, s))
    BY DEF TopicMade
  <2>2. tree.base >= v
    BY <1>2, <2>1
  <2>3. Ahead(v, s) => Ahead(v, n)'
    BY <1>1, <1>2 DEF Ahead
  <2>4. Tree(m).base > v => Ahead(v, n)'
    BY <1>1 DEF Ahead
  <2>5. CASE tree.base = Tree(s).base
    BY <2>1, <2>2, <2>3, <2>5
  <2>6. CASE tree.base = Tree(m).base
    BY <2>2, <2>4, <2>6
  <2>7. QED
    BY <2>5, <2>6
<1>4. FirstOn(n, m)'
  <2>1. m \in parents /\ \A p \in parents \ {m} : m \notin Past(p)
    OBVIOUS
  <2>2. QED
    BY <1>2, <2>1, FirstOnTop
<1>5. ASSUME NEW e \in Work(s) \ Work(m)
      PROVE  \E c \in Past(s) \ Past(m) : commits[c].byHand /\ e \in Work(c)
  <2>1. \A c \in Past(s) : e \in Work(c) => c \notin Past(m)
    BY <1>5 DEF PreparationInv, HistoryGrows, Within, Work
  <2>2. CASE commits[s].byHand
    BY <1>2, <1>5, <2>1, <2>2
  <2>3. ASSUME NEW b \in Past(s) \cap Past(main), MadeFrom(s, b)
        PROVE  \E c \in Past(s) \ Past(m) : commits[c].byHand /\ e \in Work(c)
    <3>1. e \notin Work(b)
      BY <2>1, <2>3
    <3>2. PICK c \in Past(s) \ Past(b) : commits[c].byHand /\ e \in Work(c)
      BY <1>5, <2>3, <3>1 DEF MadeFrom
    <3>3. QED
      BY <2>1, <3>2
  <2>4. QED
    BY <2>2, <2>3 DEF TopicMade
<1>6. MadeFrom(n, m)'
  <2>1. ASSUME NEW e \in (Work(n) \ Work(m))'
        PROVE  \E c \in (Past(n) \ Past(m))' : commits'[c].byHand /\ e \in Work(c)'
    <3>1. e \in Work(s) \ Work(m)
      BY <1>1, <2>1 DEF Work
    <3>2. PICK c \in Past(s) \ Past(m) : commits[c].byHand /\ e \in Work(c)
      BY <1>5, <3>1
    <3>3. c \in Shas /\ c \in Past(n)' /\ c \notin Past(m)'
      BY <1>1, <1>2, <3>2
    <3>4. QED
      BY <1>1, <3>2, <3>3 DEF Work
  <2>2. QED
    BY <1>4, <2>1 DEF MadeFrom
<1>7. \E x \in (Past(n) \cap Past(main))' : MadeFrom(n, x)'
  BY <1>1, <1>6
<1>8. QED
  BY <1>1, <1>3, <1>7 DEF TopicMade

LEMMA TopicUpdate ==
  ASSUME PreparationInv, TopicInv, PreparationAssumption, NEW v \in Versions, UpdateBranch(v)
  PROVE  TopicInv'
<1>1. PICK s, m, n, parents : s = topic[v] /\ m = main /\ n = Next1 /\ parents = {s, m}
  OBVIOUS
<1>2. PICK a, tree :
        /\ a \in MergeBases(s, m) /\ Mergeable(a, s, m) /\ tree = Merged(a, s, m)
        /\ Commit(tree, parents, FALSE)
  BY <1>1 DEF UpdateBranch
<1>3. /\ topic' = [topic EXCEPT ![v] = n] /\ main' = main /\ run' = run
      /\ v \in pr /\ m \notin Past(s)
  BY <1>1 DEF UpdateBranch
<1>4. /\ \A q \in Runs : KnowsMain(run'[q])
      /\ PreparationTypeOK /\ HistoryGrows /\ topic \in [Versions -> Shas \cup {0}]
      /\ main \in Shas
  BY <1>3, RunsKnowMain
<1>5. s \in Shas /\ m \in Shas /\ TopicMade(v, s) /\ parents \in SUBSET Shas
  BY <1>1, <1>3, <1>4 DEF TopicInv, PreparationInv
<1>6. tree \in Trees /\ Within(Tree(s), tree) /\ Within(Tree(m), tree)
  BY <1>2, <1>4, <1>5, MergedHasBoth
<1>7. Added(n, tree, parents, FALSE)
  BY <1>1, <1>2, <1>4, <1>5, <1>6, CommitAdds
<1>8. /\ tree.work = Work(s) \cup Work(m) /\ tree.base \in {Tree(s).base, Tree(m).base}
      /\ tree.base \in Nat /\ Tree(s).base <= tree.base
  <2>1. tree.work \subseteq Work(s) \cup Work(m) /\ tree.base \in {Tree(s).base, Tree(m).base}
    BY <1>2 DEF Merged, Work
  <2>2. QED
    BY <1>6, <2>1 DEF Within, Work, Trees, Versions
<1>9. ASSUME Past(main) \subseteq Past(main)' PROVE TopicMade(v, n)'
  BY <1>1, <1>3, <1>5, <1>7, <1>8, <1>9, UpdatedIsMade
<1>10. PreparationTypeOK'
  BY UpdateStep DEF Keeps, PreparationInv
<1>11. \A q \in Versions : \/ topic'[q] = topic[q]
                           \/ topic'[q] = n /\ (Past(main) \subseteq Past(main)' => TopicMade(q, n)')
  <2>1. \A q \in Versions : topic'[q] = topic[q] \/ (topic'[q] = n /\ q = v)
    BY <1>3, <1>4
  <2>2. QED
    BY <1>9, <2>1
<1>12. QED
  BY <1>3, <1>4, <1>5, <1>7, <1>10, <1>11, TopicCommit

LEMMA TopicMerge ==
  ASSUME PreparationInv, TopicInv, PreparationAssumption,
         NEW v \in Versions, NEW squash \in BOOLEAN, Merge(v, squash)
  PROVE  TopicInv'
<1>1. PICK s, m, n, parents :
        /\ s = topic[v] /\ m = main /\ n = Next1
        /\ parents = IF squash THEN {m} ELSE {m, s}
  OBVIOUS
<1>2. PICK a, tree :
        /\ a \in MergeBases(m, s) /\ Mergeable(a, m, s) /\ tree = Merged(a, m, s)
        /\ Commit(tree, parents, FALSE)
  BY <1>1 DEF Merge
<1>3. main' = n /\ topic' = topic /\ run' = run /\ v \in pr
  BY <1>1 DEF Merge
<1>4. /\ \A q \in Runs : KnowsMain(run'[q])
      /\ PreparationTypeOK /\ HistoryGrows /\ topic \in [Versions -> Shas \cup {0}]
      /\ main \in Shas
  BY <1>3, RunsKnowMain
<1>5. s \in Shas /\ m \in Shas /\ parents \in SUBSET Shas /\ main \in parents
  BY <1>1, <1>3, <1>4 DEF PreparationInv
<1>6. tree \in Trees
  BY <1>2, <1>4, <1>5, MergedHasBoth
<1>7. Added(n, tree, parents, FALSE)
  BY <1>1, <1>2, <1>4, <1>5, <1>6, CommitAdds
<1>8. PreparationTypeOK'
  BY MergeStep DEF Keeps, PreparationInv
<1>9. \A q \in Versions : topic'[q] = topic[q]
  BY <1>3
<1>10. QED
  BY <1>3, <1>4, <1>5, <1>7, <1>8, <1>9, TopicCommit

LEMMA TopicOthers ==
  ASSUME PreparationInv, TopicInv,
         \/ \E v \in Versions : \E branch \in BOOLEAN : Drop(v, branch)
         \/ \E v \in Versions : \E c \in Shas : TagRelease(v, c)
         \/ UNCHANGED vars
  PROVE  TopicInv'
<1>1. UNCHANGED <<commits, main>> /\ run' = run
  BY DEF Drop, TagRelease, vars
<1>2. topic \in [Versions -> Shas \cup {0}] /\ \A q \in Runs : KnowsMain(run'[q])
  BY <1>1, RunsKnowMain
<1>3. \A w \in Versions : topic'[w] \in {topic[w], 0}
  BY <1>2 DEF Drop, TagRelease, vars
<1>4. QED
  BY <1>1, <1>2, <1>3, TopicQuiet

-----------------------------------------------------------------------------
(* The theorems *)

LEMMA PreparationInit ==
  ASSUME PreparationAssumption, Init
  PROVE  PreparationInv
<1> DEFINE first == [tree |-> [base |-> 1, work |-> {}], past |-> {1}, byHand |-> FALSE]
<1>1. commits = <<first>> /\ Len(commits) = 1 /\ commits[1] = first
  BY DEF Init
<1>2. Shas = {1} /\ Past(1) = {1} /\ Tree(1).base = 1
  BY <1>1 DEF Shas, Past, Tree
<1>3. HistoryGrows
  BY <1>2 DEF HistoryGrows, Within
<1>4. first \in Commits
  BY DEF PreparationAssumption, Commits, Trees, Versions
<1>5. PreparationTypeOK
  <2>1. commits \in Seq(Commits) /\ Len(commits) <= MaxCommits
    BY <1>1, <1>4 DEF PreparationAssumption
  <2> HIDE DEF first
  <2> QED BY <2>1, <1>2, IdleKnows DEF Init, PreparationTypeOK, PreparationAssumption
<1>6. \A r \in Runs : Knows(run[r])
  BY IdleKnows DEF Init
<1> QED BY <1>3, <1>5, <1>6 DEF PreparationInv, Init

LEMMA PreparationStep ==
  ASSUME PreparationInv, PreparationAssumption, [Next]_vars
  PROVE  Keeps
<1>1. CASE UNCHANGED vars
  <2>1. PreparationTypeOK'
    BY <1>1 DEF vars, PreparationInv, PreparationTypeOK, Shas, Commits, Trees, RunStates, Versions
  <2> QED BY <1>1, <2>1, QuietStep DEF vars, PreparationInv
<1>2. ASSUME NEW r \in Runs,
             Fetch(r) \/ ChooseVersion(r) \/ ListPullRequests(r) \/ ReadTopic(r)
               \/ Push(r) \/ OpenPullRequest(r) \/ Stops(r)
      PROVE  Keeps
  BY <1>2, FetchStep, ChooseStep, ListStep, ReadTopicStep, PushStep, OpenStep
<1>3. CASE EditMain
  BY <1>3, EditMainStep
<1>4. ASSUME NEW v \in Versions, EditTopic(v) \/ UpdateBranch(v) PROVE Keeps
  BY <1>4, EditTopicStep, UpdateStep
<1>5. ASSUME NEW v \in Versions, \E squash \in BOOLEAN : Merge(v, squash) PROVE Keeps
  BY <1>5, MergeStep
<1>6. ASSUME NEW v \in Versions,
             (\E branch \in BOOLEAN : Drop(v, branch)) \/ (\E c \in Shas : TagRelease(v, c))
      PROVE  Keeps
  BY <1>6, OthersStep
<1> QED BY <1>1, <1>2, <1>3, <1>4, <1>5, <1>6 DEF Next

LEMMA PreparationInvariant == Spec => []PreparationInv
<1>1. Init => PreparationInv
  BY PreparationAssumption, PreparationInit
<1>2. PreparationInv /\ [Next]_vars => PreparationInv'
  BY PreparationAssumption, PreparationStep DEF Keeps
<1> QED BY <1>1, <1>2, PTL DEF Spec

\* Every state has its types.
THEOREM PreparationTyped == Spec => []PreparationTypeOK
<1>1. PreparationInv => PreparationTypeOK
  BY DEF PreparationInv
<1> QED BY <1>1, PreparationInvariant, PTL

\* Whatever moves between a run's reads and its push, and whoever merges, no work and
\* no version is undone.
THEOREM PreparationUndoesNothing == Spec => NothingUndone
<1>1. PreparationInv /\ [Next]_vars
        => [/\ Within(Tree(main), Tree(main)')
            /\ \A v \in Versions :
                 topic[v] # 0 /\ topic'[v] # 0 => Within(Tree(topic[v]), Tree(topic[v])')]_vars
  BY PreparationAssumption, PreparationStep DEF Keeps
<1> QED BY <1>1, PreparationInvariant, PTL DEF Spec, NothingUndone

LEMMA TopicInit ==
  ASSUME PreparationAssumption, Init
  PROVE  TopicInv
<1>1. Shas = {1} /\ Past(1) = {1}
  BY DEF Init, Shas, Past
<1>2. HistoryOrdered
  BY <1>1 DEF HistoryOrdered
<1>3. \A r \in Runs : KnowsMain(run[r])
  BY IdleKnowsMain DEF Init
<1>4. \A v \in Versions : topic[v] = 0
  BY DEF Init
<1>5. QED
  BY <1>2, <1>3, <1>4 DEF TopicInv

LEMMA TopicStep ==
  ASSUME PreparationInv, TopicInv, PreparationAssumption, [Next]_vars
  PROVE  TopicInv'
<1>1. CASE UNCHANGED vars
  BY <1>1, TopicOthers
<1>2. ASSUME NEW r \in Runs,
             Fetch(r) \/ ChooseVersion(r) \/ ListPullRequests(r) \/ ReadTopic(r)
               \/ Push(r) \/ OpenPullRequest(r) \/ Stops(r)
      PROVE  TopicInv'
  BY <1>2, TopicReadSteps, TopicReadTopic, TopicPush
<1>3. CASE EditMain
  BY <1>3, TopicEditMain
<1>4. ASSUME NEW v \in Versions, EditTopic(v) \/ UpdateBranch(v) PROVE TopicInv'
  BY <1>4, TopicEditTopic, TopicUpdate
<1>5. ASSUME NEW v \in Versions, \E squash \in BOOLEAN : Merge(v, squash) PROVE TopicInv'
  BY <1>5, TopicMerge
<1>6. ASSUME NEW v \in Versions,
             (\E branch \in BOOLEAN : Drop(v, branch)) \/ (\E c \in Shas : TagRelease(v, c))
      PROVE  TopicInv'
  BY <1>6, TopicOthers
<1>7. QED
  BY <1>1, <1>2, <1>3, <1>4, <1>5, <1>6 DEF Next

\* A preparation branch that runs have made, however they ended and whatever was merged
\* since, is taken up by the next (prepare_version.py 136-141, 231-283): one is refused
\* only if it holds somebody's own commit that the run's head of main has not, shares
\* with main what that head has not, or has several merge bases with it.
THEOREM OwnTopicsTakenUp == Spec => []OwnTopicAccepted
<1>1. Init => TopicInv
  BY PreparationAssumption, TopicInit
<1>2. PreparationInv /\ TopicInv /\ [Next]_vars => TopicInv'
  BY PreparationAssumption, TopicStep
<1>3. PreparationInv /\ TopicInv => OwnTopicAccepted
  BY DEF TopicInv, KnowsMain, Excused, OwnTopicAccepted
<1>4. QED
  BY <1>1, <1>2, <1>3, PreparationInvariant, PTL DEF Spec
=============================================================================
