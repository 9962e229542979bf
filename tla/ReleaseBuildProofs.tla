--------------------------- MODULE ReleaseBuildProofs ---------------------------
(***************************************************************************)
(* Proofs about ReleaseBuild, for any policy, any files and fields, any    *)
(* builders and any number of edits and attempts: no edit that could have  *)
(* been seen is written over, what is accepted for publication was built   *)
(* from the commit and the plan, by the attempt that publishes it, and an  *)
(* archive that is linked is whole and passes the verification, but for    *)
(* what that alone asks.                                                   *)
(***************************************************************************)
EXTENDS ReleaseBuild, TLAPS, WellFoundedInduction

USE SyncAssumption

-----------------------------------------------------------------------------
(* The version files *)

\* What a version field can hold: what was committed, what a plan says, or anything else.
Fields ==
  {Hand} \cup {CommittedField(p, s) : p \in Paths, s \in Slots}
         \cup {Value(q, Declared[Max(Owners(p, s))]) : q \in Plans, p \in Paths, s \in Slots}
Contents == [text : Nat, slots : [Slots -> Fields]]

SyncTypeOK ==
  /\ plan \in Plans
  /\ files \in [Paths -> Contents]
  /\ sync \in [at : {"idle", "verified", "replacing", "done", "refused", "killed"},
               seen : [Paths -> Contents], left : SUBSET Paths,
               checked : Paths \cup {NoPath},
               late : BOOLEAN, slipped : BOOLEAN, undone : BOOLEAN]
  /\ faults \in Nat

\* What the command makes, or made, of a file.
Target(p) == Edited(p, sync.seen[p])

\* An edit of a file that the command is through with.  It shows in the file for good.
Spoilt(p) ==
  \/ files[p].text # sync.seen[p].text
  \/ \E s \in Slots : Owners(p, s) # {} /\ files[p].slots[s] = Hand

\* Edits are numbered.
Numbered == \A p \in Paths : files[p].text <= faults /\ sync.seen[p].text <= faults

\* Unless an edit slipped in, each file was read as committed or as planned.
SeenKnown == sync.slipped \/ \A p \in Paths : Known(p, sync.seen[p])

\* The file about to be replaced is as it was read, or was edited at the last moment.
CheckedSeen ==
  sync.at = "replacing" /\ sync.checked # NoPath
    => sync.late \/ files[sync.checked] = sync.seen[sync.checked]

\* A file the command is through with is as planned, or was edited since.
Through ==
  sync.at \in {"replacing", "done"} =>
    \A p \in Paths : p \notin sync.left => files[p] = Target(p) \/ Spoilt(p)

\* Evidence is left by a command that is done, and tells what it made.
EvidenceTrue ==
  IF sync.at = "done"
  THEN sync.left = {} /\ evidence = <<[plan |-> plan, after |-> [p \in Paths |-> Target(p)]]>>
  ELSE evidence = <<>>

SyncInv ==
  SyncTypeOK /\ Numbered /\ SeenKnown /\ CheckedSeen /\ Through /\ EvidenceTrue

-----------------------------------------------------------------------------
(* What edits make of a content *)

\* No plan says what a hand wrote.
LEMMA NoHand ==
  ASSUME NEW q, NEW d
  PROVE  Value(q, d) # Hand
<1>1. \A base, kind, seq : [base |-> base, kind |-> kind, seq |-> seq] # Hand
  BY DEF Hand
<1>2. QED
  BY <1>1 DEF Value, FinalVersion, Version, Package, Number

LEMMA CommittedTyped ==
  Committed \in [Paths -> Contents] /\ \A p \in Paths : Committed[p].text = 0
BY DEF Committed, Contents, Fields

\* An edited content is a content with the same text, and edited again it stays the same.
LEMMA EditedTyped ==
  ASSUME plan \in Plans, NEW p \in Paths, NEW c \in Contents
  PROVE  /\ Edited(p, c) \in Contents
         /\ Edited(p, c).text = c.text
         /\ Edited(p, Edited(p, c)) = Edited(p, c)
         /\ \A s \in Slots : Owners(p, s) # {} => Edited(p, c).slots[s] # Hand
<1> DEFINE planned == [s \in Slots |-> IF Owners(p, s) = {} THEN c.slots[s]
                                       ELSE Value(plan, Declared[Max(Owners(p, s))])]
<1>1. \A s \in Slots : Value(plan, Declared[Max(Owners(p, s))]) \in Fields
  BY DEF Fields
<1>2. planned \in [Slots -> Fields]
  BY <1>1 DEF Contents
<1>3. Edited(p, c) = [text |-> c.text, slots |-> planned]
  BY DEF Edited, Contents
<1>4. Edited(p, c) \in Contents
  BY <1>2, <1>3 DEF Contents
<1>5. Edited(p, Edited(p, c)) = [text |-> c.text,
        slots |-> [s \in Slots |-> IF Owners(p, s) = {} THEN planned[s]
                                   ELSE Value(plan, Declared[Max(Owners(p, s))])]]
  BY <1>3, <1>4 DEF Edited, Contents
<1>6. [s \in Slots |-> IF Owners(p, s) = {} THEN planned[s]
                       ELSE Value(plan, Declared[Max(Owners(p, s))])] = planned
  OBVIOUS
<1>7. \A s \in Slots : Owners(p, s) # {} => planned[s] # Hand
  BY NoHand
<1>8. QED
  BY <1>3, <1>4, <1>5, <1>6, <1>7

\* A spoilt file is not as planned.
LEMMA SpoiltDiffers ==
  ASSUME SyncTypeOK, NEW p \in Paths, Spoilt(p)
  PROVE  files[p] # Target(p)
<1>1. plan \in Plans /\ sync.seen[p] \in Contents
  BY DEF SyncTypeOK
<1>2. QED
  BY <1>1, EditedTyped DEF Spoilt, Target

-----------------------------------------------------------------------------
(* The command and those who edit *)

\* A whole attempt is begun anew, on a fresh checkout; or something else is counted.
Reset == files' = Committed /\ sync' = Fresh /\ evidence' = <<>> /\ UNCHANGED <<plan, faults>>
Counted == faults' = faults + 1 /\ UNCHANGED <<plan, files, sync, evidence>>

LEMMA FreshTyped ==
  ASSUME plan \in Plans
  PROVE  /\ Fresh \in [at : {"idle", "verified", "replacing", "done", "refused", "killed"},
                       seen : [Paths -> Contents], left : SUBSET Paths,
                       checked : Paths \cup {NoPath},
                       late : BOOLEAN, slipped : BOOLEAN, undone : BOOLEAN]
         /\ Fresh.at = "idle" /\ Fresh.seen = Committed /\ Fresh.left = {}
         /\ Fresh.checked = NoPath
BY CommittedTyped DEF Fresh

LEMMA SyncInitially == SyncInit => SyncInv
<1> SUFFICES ASSUME SyncInit PROVE SyncInv
  OBVIOUS
<1> USE DEF SyncInit
<1>1. SyncTypeOK
  BY FreshTyped, CommittedTyped DEF SyncTypeOK
<1>2. Numbered
  BY FreshTyped, CommittedTyped DEF Numbered
<1>3. SeenKnown
  BY FreshTyped DEF SeenKnown, Known
<1>4. CheckedSeen /\ Through /\ EvidenceTrue
  BY FreshTyped DEF CheckedSeen, Through, EvidenceTrue
<1>5. QED
  BY <1>1, <1>2, <1>3, <1>4 DEF SyncInv

LEMMA SyncReset == SyncInv /\ Reset => SyncInv'
<1> SUFFICES ASSUME SyncInv, Reset PROVE SyncInv'
  OBVIOUS
<1>0. plan \in Plans /\ faults \in Nat
  BY DEF SyncInv, SyncTypeOK
<1> USE DEF Reset
<1>1. SyncTypeOK'
  BY <1>0, FreshTyped, CommittedTyped DEF SyncTypeOK
<1>2. Numbered'
  BY <1>0, FreshTyped, CommittedTyped DEF Numbered
<1>3. SeenKnown'
  BY <1>0, FreshTyped DEF SeenKnown, Known
<1>4. CheckedSeen' /\ Through' /\ EvidenceTrue'
  BY <1>0, FreshTyped DEF CheckedSeen, Through, EvidenceTrue
<1>5. QED
  BY <1>1, <1>2, <1>3, <1>4 DEF SyncInv

\* What depends on the plan and on what was read alone.
LEMMA TargetStays ==
  ASSUME NEW p \in Paths, plan' = plan, sync'.seen = sync.seen
  PROVE  Target(p)' = Target(p)
BY DEF Target, Edited, Owners

LEMMA EditedStays ==
  ASSUME NEW p \in Paths, NEW c, plan' = plan
  PROVE  Edited(p, c)' = Edited(p, c)
BY DEF Edited, Owners

\* A step that stops the command, or refuses.
LEMMA Stops ==
  ASSUME SyncInv, NEW at \in {"refused", "killed"}, Busy \/ sync.at \in {"idle", "killed"},
         StopWith(at), UNCHANGED <<plan, files, evidence>>,
         faults' \in Nat, faults' >= faults
  PROVE  SyncInv'
<1> USE DEF SyncInv, StopWith
<1>1. SyncTypeOK'
  BY DEF SyncTypeOK
<1>2. sync'.seen = sync.seen /\ sync'.slipped = sync.slipped /\ sync'.at = at
  BY DEF SyncTypeOK
<1>3. Numbered'
  BY <1>2 DEF Numbered, SyncTypeOK, Contents
<1>4. SeenKnown'
  BY <1>2, EditedStays DEF SeenKnown, Known
<1>5. CheckedSeen' /\ Through' /\ EvidenceTrue'
  BY <1>2 DEF CheckedSeen, Through, EvidenceTrue, Busy
<1>6. QED
  BY <1>1, <1>3, <1>4, <1>5

LEMMA VerifyCheckoutSafe == SyncInv /\ VerifyCheckout => SyncInv'
<1> SUFFICES ASSUME SyncInv, VerifyCheckout PROVE SyncInv'
  OBVIOUS
<1>0. plan \in Plans /\ faults \in Nat /\ sync.at \in {"idle", "killed"} /\ evidence = <<>>
  BY DEF SyncInv, SyncTypeOK, VerifyCheckout, EvidenceTrue
<1>1. CASE Refuse
  BY <1>0, <1>1, Stops DEF Refuse
<1>2. CASE ~Refuse
  <2>0. /\ sync' = [Fresh EXCEPT !.at = "verified", !.left = Paths, !.undone = sync.undone]
        /\ UNCHANGED <<plan, files, evidence, faults>>
    BY <1>2 DEF VerifyCheckout
  <2>1. SyncTypeOK'
    BY <2>0, FreshTyped DEF SyncInv, SyncTypeOK
  <2>2. sync'.at = "verified" /\ sync'.seen = Committed
    BY <1>0, <2>0, FreshTyped
  <2>3. Numbered' /\ SeenKnown'
    BY <2>0, <2>2, <1>0, CommittedTyped DEF SyncInv, Numbered, SeenKnown, Known
  <2>4. CheckedSeen' /\ Through' /\ EvidenceTrue'
    BY <2>0, <2>2, <1>0 DEF CheckedSeen, Through, EvidenceTrue
  <2>5. QED
    BY <2>1, <2>3, <2>4 DEF SyncInv
<1>3. QED
  BY <1>1, <1>2

LEMMA ReadFileSafe ==
  ASSUME SyncInv, NEW path \in Paths, ReadFile(path)
  PROVE  SyncInv'
<1>0. sync.at = "verified" /\ evidence = <<>> /\ Busy /\ faults \in Nat
  BY DEF SyncInv, SyncTypeOK, ReadFile, EvidenceTrue, Busy
<1>1. CASE Refuse
  BY <1>0, <1>1, Stops DEF Refuse
<1>2. CASE ~Refuse
  <2>0. /\ sync' = [sync EXCEPT !.seen[path] = files[path], !.left = @ \ {path},
                                !.slipped = @ \/ ~Known(path, files[path])]
        /\ UNCHANGED <<plan, files, evidence, faults>>
    BY <1>2 DEF ReadFile
  <2>1. SyncTypeOK'
    BY <2>0 DEF SyncInv, SyncTypeOK
  <2>2. /\ sync'.at = "verified"
        /\ sync'.seen = [sync.seen EXCEPT ![path] = files[path]]
        /\ sync'.slipped = (sync.slipped \/ ~Known(path, files[path]))
    BY <1>0, <2>0 DEF SyncInv, SyncTypeOK
  <2>3. Numbered'
    BY <2>0, <2>2 DEF SyncInv, SyncTypeOK, Numbered
  <2>4. \A p \in Paths : Edited(p, Committed[p])' = Edited(p, Committed[p])
    BY <2>0, EditedStays
  <2>5. SeenKnown'
    <3> SUFFICES ASSUME ~sync'.slipped, NEW p \in Paths
                 PROVE  sync'.seen[p] \in {Committed[p], Edited(p, Committed[p])'}
      BY DEF SeenKnown, Known
    <3>1. ~sync.slipped /\ Known(path, files[path])
      BY <2>2
    <3>2. Known(p, sync.seen[p])
      BY <3>1 DEF SyncInv, SeenKnown
    <3>3. sync'.seen[p] = IF p = path THEN files[path] ELSE sync.seen[p]
      BY <2>2 DEF SyncInv, SyncTypeOK
    <3>4. QED
      BY <2>4, <3>1, <3>2, <3>3 DEF Known
  <2>6. CheckedSeen' /\ Through' /\ EvidenceTrue'
    BY <2>0, <2>2, <1>0 DEF CheckedSeen, Through, EvidenceTrue
  <2>7. QED
    BY <2>1, <2>3, <2>5, <2>6 DEF SyncInv
<1>3. QED
  BY <1>1, <1>2

LEMMA StageSafe == SyncInv /\ Stage => SyncInv'
<1> SUFFICES ASSUME SyncInv, Stage PROVE SyncInv'
  OBVIOUS
<1>0. sync.at = "verified" /\ evidence = <<>> /\ Busy /\ faults \in Nat
  BY DEF SyncInv, SyncTypeOK, Stage, EvidenceTrue, Busy
<1>1. CASE Refuse
  BY <1>0, <1>1, Stops DEF Refuse
<1>2. CASE ~Refuse
  <2>0. /\ sync' = [sync EXCEPT !.at = "replacing", !.left = Drifted]
        /\ \A p \in Paths : files[p] = sync.seen[p]
        /\ UNCHANGED <<plan, files, evidence, faults>>
    BY <1>2 DEF Stage
  <2>1. SyncTypeOK'
    BY <2>0 DEF SyncInv, SyncTypeOK, Drifted
  <2>2. /\ sync'.at = "replacing" /\ sync'.seen = sync.seen /\ sync'.left = Drifted
        /\ sync'.slipped = sync.slipped /\ sync'.checked = sync.checked
        /\ sync'.late = sync.late
    BY <2>0 DEF SyncInv, SyncTypeOK
  <2>3. Numbered'
    BY <2>0, <2>2 DEF SyncInv, Numbered
  <2>4. SeenKnown'
    BY <2>0, <2>2, EditedStays DEF SyncInv, SeenKnown, Known
  <2>5. CheckedSeen'
    BY <2>0, <2>2 DEF SyncInv, SyncTypeOK, CheckedSeen
  <2>6. Through'
    BY <2>0, <2>2, TargetStays DEF Through, Drifted, Target
  <2>7. EvidenceTrue'
    BY <2>0, <2>2, <1>0 DEF EvidenceTrue
  <2>8. QED
    BY <2>1, <2>3, <2>4, <2>5, <2>6, <2>7 DEF SyncInv
<1>3. QED
  BY <1>1, <1>2

LEMMA CheckFileSafe ==
  ASSUME SyncInv, NEW path \in Paths, CheckFile(path)
  PROVE  SyncInv'
<1>0. sync.at = "replacing" /\ evidence = <<>> /\ Busy /\ faults \in Nat
  BY DEF SyncInv, SyncTypeOK, CheckFile, EvidenceTrue, Busy
<1>1. CASE Refuse
  BY <1>0, <1>1, Stops DEF Refuse
<1>2. CASE ~Refuse
  <2>0. /\ sync' = [sync EXCEPT !.checked = path, !.late = FALSE]
        /\ files[path] = sync.seen[path]
        /\ UNCHANGED <<plan, files, evidence, faults>>
    BY <1>2 DEF CheckFile, StillSeen
  <2>1. SyncTypeOK'
    BY <2>0 DEF SyncInv, SyncTypeOK
  <2>2. /\ sync'.at = "replacing" /\ sync'.seen = sync.seen /\ sync'.left = sync.left
        /\ sync'.slipped = sync.slipped /\ sync'.checked = path
    BY <2>0, <1>0 DEF SyncInv, SyncTypeOK
  <2>3. Numbered'
    BY <2>0, <2>2 DEF SyncInv, Numbered
  <2>4. SeenKnown'
    BY <2>0, <2>2, EditedStays DEF SyncInv, SeenKnown, Known
  <2>5. CheckedSeen'
    BY <2>0, <2>2 DEF CheckedSeen
  <2>6. Through'
    BY <2>0, <2>2, <1>0, TargetStays DEF SyncInv, Through, Spoilt, Owners
  <2>7. EvidenceTrue'
    BY <2>0, <2>2, <1>0 DEF EvidenceTrue
  <2>8. QED
    BY <2>1, <2>3, <2>4, <2>5, <2>6, <2>7 DEF SyncInv
<1>3. QED
  BY <1>1, <1>2

LEMMA ReplaceFileSafe ==
  ASSUME SyncInv, NEW path \in Paths, ReplaceFile(path)
  PROVE  SyncInv' /\ sync'.left = sync.left \ {path} /\ sync.checked = path
<1>0. /\ sync.at = "replacing" /\ evidence = <<>> /\ sync.checked = path
      /\ files' = [files EXCEPT ![path] = Target(path)]
      /\ sync' = [sync EXCEPT !.left = @ \ {path}, !.checked = NoPath]
      /\ UNCHANGED <<plan, evidence, faults>>
      /\ plan \in Plans /\ sync.seen[path] \in Contents
  BY DEF SyncInv, SyncTypeOK, ReplaceFile, EvidenceTrue, Target
<1>1. Target(path) \in Contents /\ Target(path).text = sync.seen[path].text
  BY <1>0, EditedTyped DEF Target
<1>2. SyncTypeOK'
  BY <1>0, <1>1 DEF SyncInv, SyncTypeOK
<1>3. /\ sync'.at = "replacing" /\ sync'.seen = sync.seen /\ sync'.left = sync.left \ {path}
      /\ sync'.slipped = sync.slipped /\ sync'.checked = NoPath
  BY <1>0 DEF SyncInv, SyncTypeOK
<1>4. Numbered'
  BY <1>0, <1>1, <1>3 DEF SyncInv, SyncTypeOK, Numbered
<1>5. SeenKnown'
  BY <1>0, <1>3, EditedStays DEF SyncInv, SeenKnown, Known
<1>6. CheckedSeen'
  BY <1>3 DEF CheckedSeen
<1>7. Through'
  <2> SUFFICES ASSUME NEW p \in Paths, p \notin sync'.left
               PROVE  files'[p] = Target(p)' \/ Spoilt(p)'
    BY DEF Through
  <2>0. Target(p)' = Target(p)
    BY <1>0, <1>3, TargetStays
  <2>1. CASE p = path
    BY <2>0, <2>1, <1>0 DEF SyncInv, SyncTypeOK
  <2>2. CASE p # path
    <3>1. p \notin sync.left /\ files'[p] = files[p]
      BY <2>2, <1>0, <1>3 DEF SyncInv, SyncTypeOK
    <3>2. files[p] = Target(p) \/ Spoilt(p)
      BY <3>1, <1>0 DEF SyncInv, Through
    <3>3. QED
      BY <3>1, <3>2, <2>0, <1>3 DEF Spoilt, Owners
  <2>3. QED
    BY <2>1, <2>2
<1>8. EvidenceTrue'
  BY <1>0, <1>3 DEF EvidenceTrue
<1>9. QED
  BY <1>0, <1>2, <1>3, <1>4, <1>5, <1>6, <1>7, <1>8 DEF SyncInv

LEMMA WriteEvidenceSafe == SyncInv /\ WriteEvidence => SyncInv'
<1> SUFFICES ASSUME SyncInv, WriteEvidence PROVE SyncInv'
  OBVIOUS
<1>0. /\ sync.at = "replacing" /\ sync.left = {}
      /\ evidence' = <<[plan |-> plan, after |-> [p \in Paths |-> Target(p)]]>>
      /\ sync' = [sync EXCEPT !.at = "done"]
      /\ UNCHANGED <<plan, files, faults>>
  BY DEF WriteEvidence, Target
<1>2. SyncTypeOK'
  BY <1>0 DEF SyncInv, SyncTypeOK
<1>3. /\ sync'.at = "done" /\ sync'.seen = sync.seen /\ sync'.left = {}
      /\ sync'.slipped = sync.slipped
  BY <1>0 DEF SyncInv, SyncTypeOK
<1>4. Numbered'
  BY <1>0, <1>3 DEF SyncInv, Numbered
<1>5. SeenKnown'
  BY <1>0, <1>3, EditedStays DEF SyncInv, SeenKnown, Known
<1>6. CheckedSeen'
  BY <1>3 DEF CheckedSeen
<1>7. Through'
  BY <1>0, <1>3, TargetStays DEF SyncInv, Through, Spoilt, Owners
<1>8. EvidenceTrue'
  BY <1>0, <1>3, TargetStays DEF EvidenceTrue
<1>9. QED
  BY <1>2, <1>4, <1>5, <1>6, <1>7, <1>8 DEF SyncInv

\* An edit leaves a mark: it never makes a file what the command makes of it.
LEMMA EditSpoils ==
  ASSUME SyncInv, NEW path \in Paths, OthersEdit(path)
  PROVE  /\ SyncInv'
         /\ sync'.at = sync.at /\ sync'.seen = sync.seen /\ sync'.left = sync.left
         /\ sync'.slipped = sync.slipped /\ sync'.undone = sync.undone
         /\ Spoilt(path)'
         /\ \A p \in Paths : Spoilt(p) => Spoilt(p)'
<1>0. /\ plan' = plan /\ evidence' = evidence /\ faults' = faults + 1 /\ faults \in Nat
      /\ sync' = [sync EXCEPT !.late = @ \/ sync.checked = path]
      /\ EditText(path) \/ \E s \in Slots : Owners(path, s) # {} /\ EditField(path, s)
  BY DEF SyncInv, SyncTypeOK, OthersEdit
<1>1. /\ sync'.at = sync.at /\ sync'.seen = sync.seen /\ sync'.left = sync.left
      /\ sync'.checked = sync.checked /\ sync'.late = (sync.late \/ sync.checked = path)
      /\ sync'.slipped = sync.slipped /\ sync'.undone = sync.undone
  BY <1>0 DEF SyncInv, SyncTypeOK
<1>2. /\ files' \in [Paths -> Contents]
      /\ \A p \in Paths : p # path => files'[p] = files[p]
      /\ \/ files'[path].text = faults + 1
         \/ /\ files'[path].text = files[path].text
            /\ \E s \in Slots : Owners(path, s) # {} /\ files'[path].slots[s] = Hand
            /\ \A s \in Slots : files'[path].slots[s] \in {files[path].slots[s], Hand}
  <2>0. files \in [Paths -> Contents] /\ files[path] \in Contents
    BY DEF SyncInv, SyncTypeOK
  <2>1. CASE EditText(path)
    <3>1. [files[path] EXCEPT !.text = faults + 1]
            = [text |-> faults + 1, slots |-> files[path].slots]
      BY <2>0 DEF Contents
    <3>2. [text |-> faults + 1, slots |-> files[path].slots] \in Contents
      BY <2>0, <1>0 DEF Contents
    <3>3. QED
      BY <2>0, <2>1, <3>1, <3>2 DEF EditText, Rewrite
  <2>2. CASE \E s \in Slots : Owners(path, s) # {} /\ EditField(path, s)
    <3>1. PICK s \in Slots : Owners(path, s) # {} /\ EditField(path, s)
      BY <2>2
    <3> DEFINE fields == [files[path].slots EXCEPT ![s] = Hand]
    <3>2. fields \in [Slots -> Fields] /\ fields[s] = Hand
          /\ \A q \in Slots : fields[q] \in {files[path].slots[q], Hand}
      <4>1. files[path].slots \in [Slots -> Fields] /\ Hand \in Fields
        BY <2>0 DEF Contents, Fields
      <4>2. QED
        BY <4>1
    <3>3. [files[path] EXCEPT !.slots = fields] = [text |-> files[path].text, slots |-> fields]
      BY <2>0 DEF Contents
    <3>4. [text |-> files[path].text, slots |-> fields] \in Contents
      BY <2>0, <3>2 DEF Contents
    <3>5. files' = [files EXCEPT ![path] = [files[path] EXCEPT !.slots = fields]]
      BY <3>1 DEF EditField, Rewrite
    <3>6. files'[path] = [text |-> files[path].text, slots |-> fields]
      BY <2>0, <3>3, <3>5
    <3> HIDE DEF fields
    <3>7. files' \in [Paths -> Contents] /\ \A p \in Paths : p # path => files'[p] = files[p]
      BY <2>0, <3>3, <3>4, <3>5
    <3>8. QED
      BY <3>1, <3>2, <3>6, <3>7
  <2>3. QED
    BY <2>1, <2>2, <1>0
<1>3. \A p \in Paths : files[p].text \in Nat /\ sync.seen[p].text \in Nat
                      /\ files[p].text <= faults /\ sync.seen[p].text <= faults
  BY DEF SyncInv, SyncTypeOK, Numbered, Contents
<1>4. Spoilt(path)'
  <2>1. CASE files'[path].text = faults + 1
    BY <2>1, <1>0, <1>1, <1>3 DEF Spoilt
  <2>2. CASE \E s \in Slots : Owners(path, s) # {} /\ files'[path].slots[s] = Hand
    BY <2>2 DEF Spoilt, Owners
  <2>3. QED
    BY <2>1, <2>2, <1>2
<1>5. \A p \in Paths : Spoilt(p) => Spoilt(p)'
  <2> SUFFICES ASSUME NEW p \in Paths, Spoilt(p), p # path PROVE Spoilt(p)'
    BY <1>4
  <2>1. files'[p] = files[p]
    BY <1>2
  <2>2. QED
    BY <2>1, <1>1 DEF Spoilt, Owners
<1>6. SyncTypeOK'
  <2>1. files' \in [Paths -> Contents]
    BY <1>2
  <2>2. SyncTypeOK
    BY DEF SyncInv
  <2>3. \E now \in BOOLEAN : sync' = [sync EXCEPT !.late = now]
    <3>1. (sync.late \/ sync.checked = path) \in BOOLEAN
      OBVIOUS
    <3>2. QED
      BY <1>0, <3>1, Zenon
  <2>4. PICK now \in BOOLEAN : sync' = [sync EXCEPT !.late = now]
    BY <2>3
  <2>5. plan' = plan /\ faults' \in Nat
    BY <1>0
  <2>6. QED
    BY <2>1, <2>2, <2>4, <2>5 DEF SyncTypeOK
<1>7. Numbered'
  <2> SUFFICES ASSUME NEW p \in Paths
               PROVE  files'[p].text <= faults' /\ sync'.seen[p].text <= faults'
    BY DEF Numbered
  <2>1. files'[p].text \in {files[p].text, faults + 1}
    BY <1>2, p = path \/ p # path
  <2>2. QED
    BY <2>1, <1>0, <1>1, <1>3
<1>8. SeenKnown'
  BY <1>0, <1>1, EditedStays DEF SyncInv, SeenKnown, Known
<1>9. CheckedSeen'
  BY <1>1, <1>2 DEF SyncInv, SyncTypeOK, CheckedSeen
<1>10. Through'
  <2> SUFFICES ASSUME sync.at \in {"replacing", "done"}, NEW p \in Paths, p \notin sync.left, p # path
               PROVE  files'[p] = Target(p)' \/ Spoilt(p)'
    BY <1>1, <1>4 DEF Through
  <2>1. files[p] = Target(p) \/ Spoilt(p)
    BY DEF SyncInv, Through
  <2>2. QED
    BY <2>1, <1>0, <1>1, <1>2, <1>5, TargetStays
<1>11. EvidenceTrue'
  BY <1>0, <1>1, TargetStays DEF SyncInv, EvidenceTrue
<1>12. QED
  BY <1>1, <1>4, <1>5, <1>6, <1>7, <1>8, <1>9, <1>10, <1>11 DEF SyncInv

LEMMA PutBackSafe ==
  ASSUME SyncInv, NEW path \in Paths, PutBack(path)
  PROVE  /\ SyncInv'
         /\ sync'.at = "done" /\ sync'.seen = sync.seen /\ sync'.left = sync.left
         /\ sync'.slipped = sync.slipped /\ sync'.undone
<1>0. /\ sync.at = "done" /\ evidence # <<>> /\ plan \in Plans
      /\ evidence[1].after[path] = Target(path)
      /\ files' = [files EXCEPT ![path] = Target(path)]
      /\ sync' = [sync EXCEPT !.undone = TRUE] /\ UNCHANGED <<plan, evidence, faults>>
  <2>1. sync.at = "done" /\ evidence = <<[plan |-> plan, after |-> [p \in Paths |-> Target(p)]]>>
    BY DEF SyncInv, EvidenceTrue, PutBack
  <2>2. evidence[1].after[path] = Target(path)
    BY <2>1
  <2>3. QED
    BY <2>1, <2>2 DEF SyncInv, SyncTypeOK, PutBack
<1>1. /\ sync'.at = "done" /\ sync'.seen = sync.seen /\ sync'.left = sync.left
      /\ sync'.slipped = sync.slipped /\ sync'.undone
  BY <1>0 DEF SyncInv, SyncTypeOK
<1>2. Target(path) \in Contents /\ Target(path).text = sync.seen[path].text
  BY <1>0, EditedTyped DEF Target, SyncInv, SyncTypeOK
<1>3. SyncTypeOK'
  BY <1>0, <1>2 DEF SyncInv, SyncTypeOK
<1>4. Numbered'
  BY <1>0, <1>1, <1>2 DEF SyncInv, SyncTypeOK, Numbered
<1>5. SeenKnown'
  BY <1>0, <1>1, EditedStays DEF SyncInv, SeenKnown, Known
<1>6. CheckedSeen'
  BY <1>1 DEF CheckedSeen
<1>7. Through'
  <2> SUFFICES ASSUME NEW p \in Paths, p \notin sync.left
               PROVE  files'[p] = Target(p)' \/ Spoilt(p)'
    BY <1>1 DEF Through
  <2>0. Target(p)' = Target(p)
    BY <1>0, <1>1, TargetStays
  <2>1. CASE p = path
    BY <2>0, <2>1, <1>0 DEF SyncInv, SyncTypeOK
  <2>2. CASE p # path
    <3>1. files'[p] = files[p]
      BY <2>2, <1>0 DEF SyncInv, SyncTypeOK
    <3>2. files[p] = Target(p) \/ Spoilt(p)
      BY <1>0 DEF SyncInv, Through
    <3>3. QED
      BY <3>1, <3>2, <2>0, <1>0, <1>1 DEF Spoilt, Owners
  <2>3. QED
    BY <2>1, <2>2
<1>8. EvidenceTrue'
  BY <1>0, <1>1, TargetStays DEF SyncInv, EvidenceTrue
<1>9. QED
  BY <1>1, <1>3, <1>4, <1>5, <1>6, <1>7, <1>8 DEF SyncInv

\* What any step of a build does to the version files.
LEMMA SyncMoves ==
  Next => SyncStep \/ KillSync \/ (\E path \in Paths : OthersEdit(path) \/ PutBack(path))
          \/ Reset \/ Counted \/ UNCHANGED syncVars
BY DEF Next, Sync, CheckRelease, BuildPackage, BuildExport, Merge, StageInputs,
       InspectStaged, WriteReceipt, Upload, Publish, Others, RerunAll, RerunPublisher,
       Reset, Counted, syncVars

LEMMA SyncUnmoved ==
  ASSUME SyncInv, UNCHANGED <<plan, files, sync, evidence>>, faults' \in Nat, faults' >= faults
  PROVE  SyncInv'
<1>1. SyncTypeOK'
  BY DEF SyncInv, SyncTypeOK
<1>2. Numbered'
  BY DEF SyncInv, SyncTypeOK, Numbered, Contents
<1>3. SeenKnown' /\ CheckedSeen'
  BY EditedStays DEF SyncInv, SeenKnown, Known, CheckedSeen
<1>4. Through'
  BY TargetStays DEF SyncInv, Through, Spoilt, Owners
<1>5. EvidenceTrue'
  BY TargetStays DEF SyncInv, EvidenceTrue
<1>6. QED
  BY <1>1, <1>2, <1>3, <1>4, <1>5 DEF SyncInv

LEMMA KillSafe == SyncInv /\ KillSync => SyncInv'
<1> SUFFICES ASSUME SyncInv, KillSync PROVE SyncInv'
  OBVIOUS
<1>1. faults' \in Nat /\ faults' >= faults /\ Busy
  BY DEF SyncInv, SyncTypeOK, KillSync
<1>2. QED
  BY <1>1, Stops DEF KillSync

LEMMA SyncStepSafe == SyncInv /\ SyncStep => SyncInv'
BY VerifyCheckoutSafe, ReadFileSafe, StageSafe, CheckFileSafe, ReplaceFileSafe,
   WriteEvidenceSafe DEF SyncStep

LEMMA SyncPreserved == SyncInv /\ [Next]_vars => SyncInv'
<1> SUFFICES ASSUME SyncInv, [Next]_vars PROVE SyncInv'
  OBVIOUS
<1>0. faults \in Nat
  BY DEF SyncInv, SyncTypeOK
<1>1. CASE UNCHANGED vars
  BY <1>0, <1>1, SyncUnmoved DEF vars, syncVars
<1>2. CASE Next
  <2>1. CASE Counted \/ UNCHANGED syncVars
    BY <1>0, <2>1, SyncUnmoved DEF Counted, syncVars
  <2>2. QED
    BY <1>2, <2>1, SyncMoves, SyncStepSafe, KillSafe, EditSpoils, PutBackSafe, SyncReset
<1>3. QED
  BY <1>1, <1>2

-----------------------------------------------------------------------------
(* Theorems about the command *)

\* The invariant of the command: what it has read and made, what it left as evidence,
\* and what became of the files since (version_plan.py:1041-1239).
THEOREM SyncInvariant == Spec => []SyncInv
<1>1. Init => SyncInv
  BY SyncInitially DEF Init
<1>2. QED
  BY <1>1, SyncPreserved, PTL DEF Spec

\* Only a replacement takes a file off the list while the command is replacing.
LEMMA ReplacesOnly ==
  ASSUME SyncInv, Next, NEW path \in Paths,
         sync'.at = "replacing", path \in sync.left \ sync'.left
  PROVE  files[path] = sync.seen[path] \/ sync.late
<1>1. ASSUME ReplaceFile(path) PROVE files[path] = sync.seen[path] \/ sync.late
  BY <1>1 DEF SyncInv, CheckedSeen, ReplaceFile
<1>2. CASE SyncStep
  <2>1. CASE VerifyCheckout
    BY <2>1, FreshTyped DEF VerifyCheckout, Refuse, StopWith, SyncInv, SyncTypeOK
  <2>2. CASE Stage
    BY <2>2 DEF Stage, Refuse, StopWith, SyncInv, SyncTypeOK
  <2>3. CASE WriteEvidence
    BY <2>3 DEF WriteEvidence, SyncInv, SyncTypeOK
  <2>4. ASSUME NEW p \in Paths, ReadFile(p) PROVE FALSE
    BY <2>4 DEF ReadFile, Refuse, StopWith, SyncInv, SyncTypeOK
  <2>5. ASSUME NEW p \in Paths, CheckFile(p) PROVE FALSE
    BY <2>5 DEF CheckFile, Refuse, StopWith, SyncInv, SyncTypeOK
  <2>6. ASSUME NEW p \in Paths, ReplaceFile(p) PROVE p = path
    BY <2>6, ReplaceFileSafe
  <2>7. QED
    BY <1>1, <1>2, <2>1, <2>2, <2>3, <2>4, <2>5, <2>6 DEF SyncStep
<1>3. CASE KillSync
  BY <1>3 DEF KillSync, StopWith, SyncInv, SyncTypeOK
<1>4. CASE \E p \in Paths : OthersEdit(p) \/ PutBack(p)
  BY <1>4, EditSpoils, PutBackSafe
<1>5. CASE Reset
  BY <1>5, FreshTyped DEF Reset, SyncInv, SyncTypeOK
<1>6. CASE Counted \/ UNCHANGED syncVars
  BY <1>6 DEF Counted, syncVars
<1>7. QED
  BY SyncMoves, <1>2, <1>3, <1>4, <1>5, <1>6

\* No edit is written over that was made before the last look at a file
\* (version_plan.py:1110-1126).
THEOREM SyncKeepsEdits == Spec => EditsSurvive
<1>1. SyncInv /\ [Next]_vars =>
        [\A path \in Paths : sync'.at = "replacing" /\ path \in sync.left \ sync'.left
           => files[path] = sync.seen[path] \/ sync.late]_syncVars
  BY ReplacesOnly DEF vars
<1>2. QED
  BY <1>1, SyncInvariant, PTL DEF Spec, EditsSurvive

-----------------------------------------------------------------------------
(* What is built *)

IsSeq(s) == \E S : s \in Seq(S)

\* The fields of what the steps put together.
Shapes ==
  /\ exports = [p \in Native |-> [archive |-> exports[p].archive, stamp |-> exports[p].stamp]]
  /\ merge = [at |-> merge.at, stamps |-> merge.stamps, parts |-> merge.parts,
              copies |-> merge.copies]
  /\ IsSeq(merge.parts) /\ IsSeq(merge.copies)
  /\ Len(merge.parts) <= Len(Platforms) /\ Len(merge.copies) <= Len(Platforms)
  /\ merge.at = "walking" => ~AllRead
  /\ merge.at \notin {"idle", "refused"} => \A p \in Native : exports[p].archive # <<>>
  /\ job = [at |-> job.at, staged |-> job.staged, receipt |-> job.receipt]

\* A build begins when the sync is done, with nothing.
Nothing ==
  /\ \A p \in Native : exports[p].archive = <<>>
  /\ merge = Unmerged /\ output = <<>>
InOrder == IF job.at = "new" THEN Nothing ELSE sync.at = "done"

\* A tree taken from the checkout by this attempt: each version file is as planned, or
\* was edited, which still shows, or an edit was undone.
Good(tree) ==
  /\ tree.made = attempt
  /\ tree.files \in [Paths -> Contents]
  /\ sync.undone \/ \A p \in Paths : tree.files[p] = Target(p) \/ Spoilt(p)

\* One that was found in a checkout without an edit.
Pure(tree) ==
  /\ tree.made = attempt
  /\ sync.undone \/ tree.files = [p \in Paths |-> Target(p)]

Live == job.at \in {"new", "checked", "building", "copied", "inspected", "received"}

GoodArchive(archive) == \A tree \in LayerTrees(archive) : Good(tree)
ExportsGood ==
  \A p \in Native : exports[p].archive # <<>> => GoodArchive(exports[p].archive[1])
PartsGood ==
  /\ \A i \in 1 .. Len(merge.parts) : GoodArchive(merge.parts[i])
  /\ \A i \in 1 .. Len(merge.copies) : GoodArchive(merge.copies[i])
\* A package others left at the output name makes the merge stop.
OutputGood ==
  output # <<>> /\ merge.at \in {"idle", "linked"} =>
    \A tree \in TreesOf(output[1]) : Good(tree)
BuiltGood == Live => ExportsGood /\ PartsGood /\ OutputGood

StagedPure ==
  job.at \in {"copied", "inspected", "received"} =>
    /\ \A tree \in TreesOf(job.staged[1]) : Pure(tree)
    /\ job.at = "received" =>
         job.receipt[1].package = job.staged[1] /\ job.receipt[1].producer = attempt

\* A package of the attempt `made`, and of the commit alone if it is untouched.
Planned == [p \in Paths |-> Edited(p, Committed[p])]
TrueTo(package, made, untouched) ==
  \A tree \in TreesOf(package) : tree.made = made /\ (untouched => tree.files = Planned)

UploadsTrue == \A u \in uploads : TrueTo(u.receipt.package, u.receipt.producer, u.untouched)
ShippedTrue == \A s \in shipped : TrueTo(s.package, s.attempt, s.untouched)

BuildInv ==
  SyncInv /\ Shapes /\ InOrder /\ BuiltGood /\ StagedPure /\ UploadsTrue /\ ShippedTrue

-----------------------------------------------------------------------------
(* Sequences and archives *)

LEMMA Appended ==
  ASSUME NEW s, IsSeq(s), NEW e
  PROVE  /\ IsSeq(Append(s, e))
         /\ Len(s) \in Nat /\ Len(Append(s, e)) = Len(s) + 1
         /\ \A i \in 1 .. Len(s) + 1 : Append(s, e)[i] = IF i <= Len(s) THEN s[i] ELSE e
<1>1. PICK S : s \in Seq(S)
  BY DEF IsSeq
<1>2. s \in Seq(S \cup {e})
  BY <1>1
<1>3. Append(s, e) \in Seq(S \cup {e})
  BY <1>2
<1>4. IsSeq(Append(s, e))
  BY <1>3 DEF IsSeq
<1>5. QED
  BY <1>1, <1>2, <1>4

LEMMA EmptyIsSeq == IsSeq(<<>>)
<1>1. <<>> \in Seq({})
  OBVIOUS
<1>2. QED
  BY <1>1, Zenon DEF IsSeq

\* The merged archive has the layers of the inputs.
LEMMA MergedTrees ==
  ASSUME NEW parts, IsSeq(parts), NEW tree \in LayerTrees(Merged(parts))
  PROVE  \E i \in 1 .. Len(parts) : tree \in LayerTrees(parts[i])
<1> DEFINE inner == [kind |-> "index", manifests |-> Manifests(parts)]
<1>1. Merged(parts).blobs = {inner} \cup UNION {parts[i].blobs : i \in DOMAIN parts}
  BY DEF Merged
<1>2. inner.kind # "layer"
  OBVIOUS
<1>3. PICK blob \in Merged(parts).blobs : blob.kind = "layer" /\ tree = blob.tree
  BY DEF LayerTrees
<1>4. PICK i \in DOMAIN parts : blob \in parts[i].blobs
  BY <1>1, <1>2, <1>3
<1>5. i \in 1 .. Len(parts)
  BY <1>4 DEF IsSeq
<1>6. QED
  BY <1>3, <1>4, <1>5 DEF LayerTrees

LEMMA DamagedTrees ==
  ASSUME NEW archive, NEW lost
  PROVE  LayerTrees(Damaged(archive, lost)) = LayerTrees(archive)
BY DEF LayerTrees, Damaged

-----------------------------------------------------------------------------
(* Trees while the version files are edited *)

\* Whatever else happens in an attempt after the sync, an edit shows for good.
Calm ==
  /\ plan' = plan /\ attempt' = attempt
  /\ sync'.at = "done" /\ sync'.seen = sync.seen
  /\ sync.slipped => sync'.slipped
  /\ sync.undone => sync'.undone
  /\ sync'.undone \/ \A p \in Paths : Spoilt(p) => Spoilt(p)'

LEMMA GoodStays ==
  ASSUME Calm, NEW tree, Good(tree)
  PROVE  Good(tree)'
<1>1. \A p \in Paths : Target(p)' = Target(p)
  BY TargetStays DEF Calm
<1>2. QED
  BY <1>1 DEF Calm, Good

LEMMA PureStays ==
  ASSUME Calm, NEW tree, Pure(tree)
  PROVE  Pure(tree)'
<1>1. \A p \in Paths : Target(p)' = Target(p)
  BY TargetStays DEF Calm
<1>2. QED
  BY <1>1 DEF Calm, Pure

\* What a build finds in the checkout is good; and pure, if the files are as the sync
\* left them.
LEMMA TreeGood ==
  ASSUME SyncInv, sync.at = "done"
  PROVE  Good(Tree)
<1>1. \A p \in Paths : files[p] = Target(p) \/ Spoilt(p)
  BY DEF SyncInv, EvidenceTrue, Through
<1>2. QED
  BY <1>1 DEF SyncInv, SyncTypeOK, Good, Tree

LEMMA GoodIsPure ==
  ASSUME SyncInv, sync.at = "done", InputsUnchanged, NEW tree, Good(tree)
  PROVE  Pure(tree)
<1>1. evidence[1].after = [p \in Paths |-> Target(p)]
  BY DEF SyncInv, EvidenceTrue
<1>2. \A p \in Paths : ~Spoilt(p)
  BY <1>1, SpoiltDiffers DEF SyncInv, InputsUnchanged
<1>3. QED
  BY <1>2 DEF Good, Pure

\* Without an edit that slipped in, what the sync made is what the plan makes of the
\* commit.
LEMMA PureIsPlanned ==
  ASSUME SyncInv, ~sync.slipped, ~sync.undone, NEW tree, Pure(tree)
  PROVE  tree.files = Planned
<1>1. ASSUME NEW p \in Paths PROVE Target(p) = Edited(p, Committed[p])
  <2>1. sync.seen[p] \in {Committed[p], Edited(p, Committed[p])}
    BY DEF SyncInv, SeenKnown, Known
  <2>2. plan \in Plans /\ Committed[p] \in Contents
    BY CommittedTyped DEF SyncInv, SyncTypeOK
  <2>3. Edited(p, Edited(p, Committed[p])) = Edited(p, Committed[p])
    BY <2>2, EditedTyped
  <2>4. QED
    BY <2>1, <2>3 DEF Target
<1>2. QED
  BY <1>1 DEF Pure, Planned

-----------------------------------------------------------------------------
(* What a step leaves alone *)

LEMMA CalmStill ==
  ASSUME SyncInv, sync.at = "done", UNCHANGED <<plan, files, sync, attempt>>
  PROVE  Calm
BY DEF Calm, Spoilt, Owners

LEMMA BuiltStays ==
  ASSUME Calm, BuiltGood, UNCHANGED mergeVars, Live' => Live
  PROVE  BuiltGood'
<1> SUFFICES ASSUME Live, ExportsGood, PartsGood, OutputGood
             PROVE  ExportsGood' /\ PartsGood' /\ OutputGood'
  BY DEF BuiltGood
<1> USE DEF mergeVars, GoodArchive, LayerTrees
<1>1. ExportsGood'
  BY GoodStays DEF ExportsGood
<1>2. PartsGood'
  BY GoodStays DEF PartsGood
<1>3. OutputGood'
  BY GoodStays DEF OutputGood, TreesOf
<1>4. QED
  BY <1>1, <1>2, <1>3

LEMMA StagedStays ==
  ASSUME Calm, StagedPure, UNCHANGED job
  PROVE  StagedPure'
BY PureStays DEF StagedPure, TreesOf, LayerTrees, Calm

LEMMA HistoryStays ==
  ASSUME UploadsTrue, ShippedTrue, UNCHANGED <<plan, uploads, shipped>>
  PROVE  UploadsTrue' /\ ShippedTrue'
<1>1. Planned' = Planned
  BY EditedStays DEF Planned
<1>2. QED
  BY <1>1 DEF UploadsTrue, ShippedTrue, TrueTo, TreesOf, LayerTrees

LEMMA ShapesStay ==
  ASSUME Shapes, UNCHANGED <<mergeVars, job>>
  PROVE  Shapes'
BY DEF Shapes, mergeVars, AllRead, IsSeq

\* A step of the sync, or the end of it, before anything is built.
LEMMA BeforeBuilding ==
  ASSUME BuildInv, SyncInv', job.at = "new", UNCHANGED <<plan, mergeVars, job, uploads, shipped>>
  PROVE  BuildInv'
<1>1. Shapes'
  BY ShapesStay DEF BuildInv
<1>2. Nothing /\ Nothing'
  BY DEF BuildInv, InOrder, Nothing, mergeVars, Unmerged
<1>3. InOrder' /\ StagedPure'
  BY <1>2 DEF InOrder, StagedPure
<1>4. merge'.parts = <<>> /\ merge'.copies = <<>>
  BY <1>2 DEF Nothing, Unmerged
<1>5. BuiltGood'
  BY <1>2, <1>4, EmptyIsSeq DEF BuiltGood, ExportsGood, PartsGood, OutputGood, Nothing
<1>6. UploadsTrue' /\ ShippedTrue'
  BY HistoryStays DEF BuildInv
<1>7. QED
  BY <1>1, <1>3, <1>5, <1>6 DEF BuildInv

-----------------------------------------------------------------------------
(* Each step *)

\* Nothing built, and nothing asked of earlier attempts but what they uploaded.
LEMMA NothingSafe ==
  ASSUME SyncInv, exports = NoExports, merge = Unmerged, output = <<>>, job = NewJob,
         UploadsTrue, ShippedTrue
  PROVE  BuildInv
<1>1. /\ merge.at = "idle" /\ merge.parts = <<>> /\ merge.copies = <<>>
      /\ merge = [at |-> merge.at, stamps |-> merge.stamps, parts |-> merge.parts,
                  copies |-> merge.copies]
  BY DEF Unmerged
<1>2. \A p \in Native : exports[p].archive = <<>>
  BY DEF NoExports
<1>3. exports = [p \in Native |-> [archive |-> exports[p].archive, stamp |-> exports[p].stamp]]
  BY DEF NoExports
<1>4. job.at = "new" /\ job = [at |-> job.at, staged |-> job.staged, receipt |-> job.receipt]
  BY DEF NewJob
<1>5. Len(merge.parts) <= Len(Platforms) /\ Len(merge.copies) <= Len(Platforms)
  <2>1. Len(<<>>) = 0
    OBVIOUS
  <2>2. QED
    BY <1>1, <2>1, MergeAssumption
<1>6. Shapes
  BY <1>1, <1>3, <1>4, <1>5, EmptyIsSeq DEF Shapes
<1>7. InOrder /\ StagedPure
  BY <1>2, <1>4 DEF InOrder, Nothing, StagedPure
<1>8. BuiltGood
  BY <1>1, <1>2 DEF BuiltGood, ExportsGood, PartsGood, OutputGood
<1>9. QED
  BY <1>6, <1>7, <1>8 DEF BuildInv

LEMMA BuildInitially == Init => BuildInv
<1> SUFFICES ASSUME Init PROVE BuildInv
  OBVIOUS
<1>1. SyncInv
  BY SyncInitially DEF Init
<1>2. UploadsTrue /\ ShippedTrue
  BY DEF Init, UploadsTrue, ShippedTrue
<1>3. QED
  BY <1>1, <1>2, NothingSafe DEF Init

\* After the sync, the job moves on and nothing else.
LEMMA JobMoves ==
  ASSUME BuildInv, SyncInv', sync.at = "done", UNCHANGED <<syncVars, mergeVars, attempt>>,
         job' = [at |-> job'.at, staged |-> job'.staged, receipt |-> job'.receipt],
         job'.at # "new", Live' => Live, StagedPure', UploadsTrue', ShippedTrue'
  PROVE  BuildInv'
<1>1. Calm
  BY CalmStill DEF BuildInv, syncVars
<1>2. BuiltGood'
  BY <1>1, BuiltStays DEF BuildInv
<1>3. Shapes'
  BY DEF BuildInv, Shapes, mergeVars, AllRead, IsSeq
<1>4. InOrder'
  BY <1>1 DEF Calm, InOrder
<1>5. QED
  BY <1>2, <1>3, <1>4 DEF BuildInv

LEMMA CheckReleaseSafe == BuildInv /\ SyncInv' /\ CheckRelease => BuildInv'
<1> SUFFICES ASSUME BuildInv, SyncInv', CheckRelease PROVE BuildInv'
  OBVIOUS
<1>1. job = [at |-> job.at, staged |-> job.staged, receipt |-> job.receipt]
  BY DEF BuildInv, Shapes
<1>2. /\ job' = [at |-> job'.at, staged |-> job'.staged, receipt |-> job'.receipt]
      /\ job'.at \in {"failed", "checked", "building"} /\ Live
  BY <1>1 DEF CheckRelease, JobAt, Live
<1>3. StagedPure'
  BY <1>2 DEF StagedPure
<1>4. UploadsTrue' /\ ShippedTrue'
  BY HistoryStays DEF BuildInv, CheckRelease, syncVars
<1>5. QED
  BY <1>2, <1>3, <1>4, JobMoves DEF CheckRelease

LEMMA StageInputsSafe == BuildInv /\ SyncInv' /\ StageInputs => BuildInv'
<1> SUFFICES ASSUME BuildInv, SyncInv', StageInputs PROVE BuildInv'
  OBVIOUS
<1>1. job = [at |-> job.at, staged |-> job.staged, receipt |-> job.receipt]
  BY DEF BuildInv, Shapes
<1>2. /\ job' = [at |-> job'.at, staged |-> job'.staged, receipt |-> job'.receipt]
      /\ job'.at \in {"failed", "copied"} /\ Live /\ sync.at = "done"
      /\ job'.at = "copied" => InputsUnchanged /\ job'.staged = output
  BY <1>1 DEF StageInputs, Live, BuildInv, InOrder
<1>3. StagedPure'
  <2> SUFFICES ASSUME job'.at = "copied", NEW tree \in TreesOf(output[1]) PROVE Pure(tree)'
    BY <1>2 DEF StagedPure, TreesOf, LayerTrees
  <2>1. Good(tree)
    BY <1>2 DEF BuildInv, BuiltGood, OutputGood, StageInputs
  <2>2. Pure(tree)
    BY <1>2, <2>1, GoodIsPure DEF BuildInv
  <2>3. QED
    BY <1>2, <2>2, CalmStill, PureStays DEF BuildInv, StageInputs, syncVars
<1>4. UploadsTrue' /\ ShippedTrue'
  BY HistoryStays DEF BuildInv, StageInputs, syncVars
<1>5. QED
  BY <1>2, <1>3, <1>4, JobMoves DEF StageInputs

LEMMA InspectStagedSafe == BuildInv /\ SyncInv' /\ InspectStaged => BuildInv'
<1> SUFFICES ASSUME BuildInv, SyncInv', InspectStaged PROVE BuildInv'
  OBVIOUS
<1>1. job = [at |-> job.at, staged |-> job.staged, receipt |-> job.receipt]
  BY DEF BuildInv, Shapes
<1>2. /\ job' = [at |-> job'.at, staged |-> job.staged, receipt |-> job.receipt]
      /\ job'.at \in {"failed", "inspected"} /\ Live /\ sync.at = "done"
  BY <1>1 DEF InspectStaged, JobAt, Live, BuildInv, InOrder
<1>3. \A tree : Pure(tree) => Pure(tree)'
  BY <1>2, CalmStill, PureStays DEF BuildInv, InspectStaged, syncVars
<1>4. StagedPure'
  BY <1>2, <1>3 DEF BuildInv, StagedPure, InspectStaged, TreesOf, LayerTrees
<1>5. UploadsTrue' /\ ShippedTrue'
  BY HistoryStays DEF BuildInv, InspectStaged, syncVars
<1>6. QED
  BY <1>2, <1>4, <1>5, JobMoves DEF InspectStaged

LEMMA WriteReceiptSafe == BuildInv /\ SyncInv' /\ WriteReceipt => BuildInv'
<1> SUFFICES ASSUME BuildInv, SyncInv', WriteReceipt PROVE BuildInv'
  OBVIOUS
<1>1. job = [at |-> job.at, staged |-> job.staged, receipt |-> job.receipt]
  BY DEF BuildInv, Shapes
<1>2. /\ job' = [at |-> job'.at, staged |-> job.staged, receipt |-> job'.receipt]
      /\ job'.at \in {"failed", "received"} /\ Live /\ sync.at = "done"
      /\ job'.at = "received" =>
           job'.receipt[1].package = job.staged[1] /\ job'.receipt[1].producer = attempt
  BY <1>1 DEF WriteReceipt, Live, BuildInv, InOrder
<1>3. \A tree : Pure(tree) => Pure(tree)'
  BY <1>2, CalmStill, PureStays DEF BuildInv, WriteReceipt, syncVars
<1>4. StagedPure'
  BY <1>2, <1>3 DEF BuildInv, StagedPure, WriteReceipt, TreesOf, LayerTrees
<1>5. UploadsTrue' /\ ShippedTrue'
  BY HistoryStays DEF BuildInv, WriteReceipt, syncVars
<1>6. QED
  BY <1>2, <1>4, <1>5, JobMoves DEF WriteReceipt

LEMMA UploadSafe == BuildInv /\ SyncInv' /\ Upload => BuildInv'
<1> SUFFICES ASSUME BuildInv, SyncInv', Upload PROVE BuildInv'
  OBVIOUS
<1>1. job = [at |-> job.at, staged |-> job.staged, receipt |-> job.receipt]
  BY DEF BuildInv, Shapes
<1>2. /\ job' = [at |-> job'.at, staged |-> job'.staged, receipt |-> job'.receipt]
      /\ job'.at = "uploaded" /\ ~Live' /\ sync.at = "done" /\ job.at = "received"
  BY <1>1 DEF Upload, JobAt, Live, BuildInv, InOrder
<1>3. StagedPure'
  BY <1>2 DEF StagedPure
<1>4. PICK u :
        /\ uploads' = uploads \cup {u}
        /\ u.receipt = job.receipt[1] /\ (u.untouched => ~sync.slipped /\ ~sync.undone)
  <2>1. \E b \in BOOLEAN :
          /\ b => ~sync.slipped /\ ~sync.undone
          /\ uploads' = uploads \cup {[package |-> job.staged[1], receipt |-> job.receipt[1],
                                       untouched |-> b]}
    BY Zenon DEF Upload
  <2>2. PICK b \in BOOLEAN :
          /\ b => ~sync.slipped /\ ~sync.undone
          /\ uploads' = uploads \cup {[package |-> job.staged[1], receipt |-> job.receipt[1],
                                       untouched |-> b]}
    BY <2>1
  <2> DEFINE u == [package |-> job.staged[1], receipt |-> job.receipt[1], untouched |-> b]
  <2>3. u.receipt = job.receipt[1] /\ (u.untouched => ~sync.slipped /\ ~sync.undone)
    BY <2>2
  <2>4. WITNESS u
  <2>5. QED
    BY <2>2, <2>3
<1>5. TrueTo(u.receipt.package, u.receipt.producer, u.untouched)
  <2>1. \A tree \in TreesOf(u.receipt.package) : Pure(tree)
    BY <1>2, <1>4 DEF BuildInv, StagedPure
  <2>2. u.receipt.producer = attempt
    BY <1>2, <1>4 DEF BuildInv, StagedPure
  <2>3. \A tree \in TreesOf(u.receipt.package) : tree.made = attempt
    BY <2>1 DEF Pure
  <2>4. u.untouched => \A tree \in TreesOf(u.receipt.package) : tree.files = Planned
    BY <1>4, <2>1, PureIsPlanned DEF BuildInv
  <2>5. QED
    BY <2>2, <2>3, <2>4 DEF TrueTo
<1>6. UploadsTrue'
  <2>1. Planned' = Planned
    BY EditedStays DEF Planned, Upload, syncVars
  <2>2. \A v \in uploads' : TrueTo(v.receipt.package, v.receipt.producer, v.untouched)
    BY <1>4, <1>5 DEF BuildInv, UploadsTrue
  <2>3. QED
    BY <2>1, <2>2 DEF UploadsTrue, TrueTo, TreesOf, LayerTrees
<1>7. ShippedTrue'
  <2>1. Planned' = Planned /\ shipped' = shipped
    BY EditedStays DEF Planned, Upload, syncVars
  <2>2. QED
    BY <2>1 DEF BuildInv, ShippedTrue, TrueTo, TreesOf, LayerTrees
<1>8. QED
  BY <1>2, <1>3, <1>6, <1>7, JobMoves DEF Upload

\* The receipt binds what is accepted to its producer.
LEMMA PublishSafe == BuildInv /\ SyncInv' /\ Publish => BuildInv'
<1> SUFFICES ASSUME BuildInv, SyncInv', Publish PROVE BuildInv'
  OBVIOUS
<1>1. job = [at |-> job.at, staged |-> job.staged, receipt |-> job.receipt]
  BY DEF BuildInv, Shapes
<1>2. /\ job' = [at |-> job'.at, staged |-> job'.staged, receipt |-> job'.receipt]
      /\ job'.at = "published" /\ ~Live' /\ sync.at = "done"
  BY <1>1 DEF Publish, JobAt, Live, BuildInv, InOrder
<1>3. StagedPure'
  BY <1>2 DEF StagedPure
<1>4. Planned' = Planned
  BY EditedStays DEF Planned, Publish, syncVars
<1>5. \A s \in shipped' : TrueTo(s.package, s.attempt, s.untouched)
  <2> SUFFICES ASSUME NEW s \in shipped', s \notin shipped
               PROVE  TrueTo(s.package, s.attempt, s.untouched)
    BY DEF BuildInv, ShippedTrue
  <2>1. PICK u \in uploads : \E package :
          /\ ReceiptAccepted(u.receipt, package)
          /\ s = [package |-> package, attempt |-> attempt, untouched |-> u.untouched]
    BY DEF Publish
  <2>2. s.package = u.receipt.package /\ s.attempt = u.receipt.producer
    BY <2>1 DEF ReceiptAccepted, ProducedHere
  <2>3. s.untouched = u.untouched
    BY <2>1
  <2>4. TrueTo(u.receipt.package, u.receipt.producer, u.untouched)
    BY DEF BuildInv, UploadsTrue
  <2>5. QED
    BY <2>2, <2>3, <2>4
<1>6. ShippedTrue'
  BY <1>4, <1>5 DEF ShippedTrue, TrueTo, TreesOf, LayerTrees
<1>7. UploadsTrue'
  BY <1>4 DEF BuildInv, Publish, UploadsTrue, TrueTo, TreesOf, LayerTrees
<1>8. QED
  BY <1>2, <1>3, <1>6, <1>7, JobMoves DEF Publish

\* What is built changes, and the job stays where it is.
LEMMA BuildMoves ==
  ASSUME BuildInv, SyncInv', job.at = "building",
         UNCHANGED <<syncVars, attempt, job, uploads, shipped>>,
         Shapes', ExportsGood', PartsGood', OutputGood'
  PROVE  BuildInv'
<1>1. InOrder' /\ StagedPure' /\ BuiltGood'
  BY DEF BuildInv, InOrder, StagedPure, BuiltGood, syncVars
<1>2. UploadsTrue' /\ ShippedTrue'
  BY HistoryStays DEF BuildInv, syncVars
<1>3. QED
  BY <1>1, <1>2 DEF BuildInv

\* While the checkout stands still, a good archive remains one.
LEMMA BuildCalm ==
  ASSUME BuildInv, job.at = "building", UNCHANGED <<syncVars, attempt>>
  PROVE  /\ Calm /\ ExportsGood /\ PartsGood /\ OutputGood /\ Shapes
         /\ Good(Tree)
         /\ \A tree : Good(tree) => Good(tree)'
         /\ \A archive : GoodArchive(archive) => GoodArchive(archive)'
<1>1. sync.at = "done" /\ Live
  BY DEF BuildInv, InOrder, Live
<1>2. Calm /\ Good(Tree)
  BY <1>1, CalmStill, TreeGood DEF BuildInv, syncVars
<1>3. ASSUME NEW tree, Good(tree) PROVE Good(tree)'
  BY <1>2, <1>3, GoodStays
<1>4. ASSUME NEW archive, GoodArchive(archive) PROVE GoodArchive(archive)'
  BY <1>3, <1>4 DEF GoodArchive, LayerTrees
<1>5. QED
  BY <1>1, <1>2, <1>3, <1>4 DEF BuildInv, BuiltGood

LEMMA BuildPackageSafe == BuildInv /\ SyncInv' /\ BuildPackage => BuildInv'
<1> SUFFICES ASSUME BuildInv, SyncInv', BuildPackage PROVE BuildInv'
  OBVIOUS
<1>1. /\ job.at = "building" /\ output' = <<[kind |-> "plain", label |-> Label, tree |-> Tree]>>
      /\ UNCHANGED <<syncVars, exports, merge, attempt, job, uploads, shipped>>
  BY DEF BuildPackage
<1>2. Shapes'
  BY <1>1 DEF BuildInv, Shapes, AllRead, IsSeq
<1>3. ExportsGood' /\ PartsGood'
  BY <1>1, BuildCalm DEF ExportsGood, PartsGood
<1>4. ASSUME NEW tree, tree = Tree PROVE Good(tree)'
  BY <1>1, <1>4, BuildCalm
<1>5. TreesOf(output'[1]) = {Tree}
  BY <1>1 DEF TreesOf
<1>6. OutputGood'
  BY <1>4, <1>5 DEF OutputGood, TreesOf, LayerTrees
<1>7. QED
  BY <1>1, <1>2, <1>3, <1>6, BuildMoves

LEMMA BuildExportSafe ==
  ASSUME BuildInv, SyncInv', NEW p \in Native, BuildExport(p)
  PROVE  BuildInv'
<1>1. PICK archive \in Exports(p, Label, Tree) :
        /\ job.at = "building" /\ exports[p].archive = <<>>
        /\ LayerTrees(archive) \subseteq {Tree}
        /\ exports' = [exports EXCEPT ![p].archive = <<archive>>]
        /\ UNCHANGED <<syncVars, merge, output, attempt, job, uploads, shipped>>
  BY DEF BuildExport
<1>2. /\ exports = [q \in Native |-> exports[q]]
      /\ exports[p] = [archive |-> exports[p].archive, stamp |-> exports[p].stamp]
  BY DEF BuildInv, Shapes
<1>3. /\ exports'[p] = [archive |-> <<archive>>, stamp |-> exports[p].stamp]
      /\ \A q \in Native : q # p => exports'[q] = exports[q]
      /\ exports' = [q \in Native |-> exports'[q]]
  BY <1>1, <1>2
<1>4. /\ exports'[p].archive = <<archive>>
      /\ exports'[p] = [archive |-> exports'[p].archive, stamp |-> exports'[p].stamp]
  BY <1>3
<1>5. \A q \in Native :
        exports'[q] = [archive |-> exports'[q].archive, stamp |-> exports'[q].stamp]
  BY <1>3, <1>4 DEF BuildInv, Shapes
<1>6. Shapes'
  <2>1. exports' = [q \in Native |-> [archive |-> exports'[q].archive,
                                      stamp |-> exports'[q].stamp]]
    BY <1>3, <1>5
  <2>2. <<archive>> # <<>>
    OBVIOUS
  <2>3. \A q \in Native : exports[q].archive # <<>> => exports'[q].archive # <<>>
    BY <1>3, <1>4, <2>2
  <2>4. QED
    BY <1>1, <2>1, <2>3 DEF BuildInv, Shapes, AllRead, IsSeq
<1>7. GoodArchive(archive) /\ <<archive>>[1] = archive
  BY <1>1, BuildCalm DEF GoodArchive
<1>8. ExportsGood'
  <2> SUFFICES ASSUME NEW q \in Native, exports'[q].archive # <<>>,
                      NEW found, found = exports'[q].archive[1]
               PROVE  GoodArchive(found)'
    BY DEF ExportsGood, GoodArchive, LayerTrees
  <2>1. GoodArchive(found)
    BY <1>1, <1>3, <1>4, <1>7, BuildCalm DEF ExportsGood
  <2>2. QED
    BY <1>1, <2>1, BuildCalm
<1>9. PartsGood' /\ OutputGood'
  BY <1>1, BuildCalm DEF PartsGood, OutputGood, TreesOf, LayerTrees
<1>10. QED
  BY <1>1, <1>6, <1>8, <1>9, BuildMoves

-----------------------------------------------------------------------------
(* The merge *)

\* What each step of the merge rests on: the invariant, a build under way, and that the
\* step moves nothing but the merge.
MergeKnown ==
  /\ BuildInv /\ SyncInv' /\ job.at = "building"
  /\ UNCHANGED <<syncVars, format, attempt, job, uploads, shipped>>

\* A step that changes the merge alone, and copies or opens nothing that is not good.
LEMMA MergeMoves ==
  ASSUME MergeKnown, UNCHANGED <<exports, output>>, merge'.at \notin {"idle", "linked"},
         merge' = [at |-> merge'.at, stamps |-> merge'.stamps, parts |-> merge'.parts,
                   copies |-> merge'.copies],
         IsSeq(merge'.parts), IsSeq(merge'.copies),
         Len(merge'.parts) <= Len(Platforms), Len(merge'.copies) <= Len(Platforms),
         merge'.at = "walking" => Len(merge'.parts) # Len(Platforms),
         merge'.at # "refused" => \A p \in Native : exports[p].archive # <<>>,
         \A i \in 1 .. Len(merge'.parts) : GoodArchive(merge'.parts[i]),
         \A i \in 1 .. Len(merge'.copies) : GoodArchive(merge'.copies[i])
  PROVE  BuildInv'
<1> USE DEF MergeKnown
<1>1. Shapes'
  BY DEF BuildInv, Shapes, AllRead, IsSeq
<1>2. ExportsGood'
  BY BuildCalm DEF ExportsGood
<1>3. \A tree : Good(tree) => Good(tree)'
  BY BuildCalm
<1>4. PartsGood'
  BY <1>3 DEF PartsGood, GoodArchive, LayerTrees
<1>5. OutputGood'
  BY DEF OutputGood
<1>6. QED
  BY <1>1, <1>2, <1>4, <1>5, BuildMoves

LEMMA MergeStopsSafe == MergeKnown /\ MergeStops => BuildInv'
<1> SUFFICES ASSUME MergeKnown, MergeStops PROVE BuildInv'
  OBVIOUS
<1>1. /\ merge' = [at |-> "refused", stamps |-> [p \in Native |-> 0], parts |-> <<>>,
                   copies |-> <<>>]
      /\ UNCHANGED <<exports, output>>
  BY DEF MergeStops, Unmerged
<1>2. Len(<<>>) = 0 /\ Len(<<>>) <= Len(Platforms)
  <2>1. Len(<<>>) = 0
    OBVIOUS
  <2>2. QED
    BY <2>1, MergeAssumption
<1>3. /\ merge'.at = "refused" /\ merge'.parts = <<>> /\ merge'.copies = <<>>
      /\ merge' = [at |-> merge'.at, stamps |-> merge'.stamps, parts |-> merge'.parts,
                   copies |-> merge'.copies]
  BY <1>1
<1>4. QED
  BY <1>1, <1>2, <1>3, EmptyIsSeq, MergeMoves

LEMMA StartMergeSafe == MergeKnown /\ StartMerge => BuildInv'
<1> SUFFICES ASSUME MergeKnown, StartMerge, ~MergeStops PROVE BuildInv'
  BY MergeStopsSafe
<1>1. /\ merge' = [at |-> "opening", stamps |-> [p \in Native |-> 0], parts |-> <<>>,
                   copies |-> <<>>]
      /\ UNCHANGED <<exports, output>>
      /\ \A p \in Native : exports[p].archive # <<>>
  BY DEF StartMerge, Unmerged
<1>2. Len(<<>>) = 0 /\ Len(<<>>) <= Len(Platforms)
  <2>1. Len(<<>>) = 0
    OBVIOUS
  <2>2. QED
    BY <2>1, MergeAssumption
<1>3. /\ merge'.at = "opening" /\ merge'.parts = <<>> /\ merge'.copies = <<>>
      /\ merge' = [at |-> merge'.at, stamps |-> merge'.stamps, parts |-> merge'.parts,
                   copies |-> merge'.copies]
  BY <1>1
<1>4. QED
  BY <1>1, <1>2, <1>3, EmptyIsSeq, MergeMoves

\* What the merge is at, and what it knows of its parts.
LEMMA MergeParts ==
  ASSUME MergeKnown
  PROVE  /\ merge = [at |-> merge.at, stamps |-> merge.stamps, parts |-> merge.parts,
                     copies |-> merge.copies]
         /\ IsSeq(merge.parts) /\ IsSeq(merge.copies)
         /\ Len(merge.parts) \in Nat /\ Len(merge.copies) \in Nat
         /\ Len(merge.parts) <= Len(Platforms) /\ Len(merge.copies) <= Len(Platforms)
         /\ merge.at = "walking" => ~AllRead
         /\ merge.at \notin {"idle", "refused"} => \A p \in Native : exports[p].archive # <<>>
         /\ \A i \in 1 .. Len(merge.parts) : GoodArchive(merge.parts[i])
         /\ \A i \in 1 .. Len(merge.copies) : GoodArchive(merge.copies[i])
BY BuildCalm, Appended DEF MergeKnown, BuildInv, Shapes, PartsGood

LEMMA OpenInputSafe == MergeKnown /\ OpenInput => BuildInv'
<1> SUFFICES ASSUME MergeKnown, OpenInput PROVE BuildInv'
  OBVIOUS
<1>1. PICK stamps : merge' = [merge EXCEPT !.at = "walking", !.stamps = stamps]
  BY DEF OpenInput
<1>2. merge' = [at |-> "walking", stamps |-> stamps, parts |-> merge.parts,
                copies |-> merge.copies]
  BY <1>1, MergeParts
<1>3. /\ merge'.at = "walking" /\ merge'.parts = merge.parts /\ merge'.copies = merge.copies
      /\ merge' = [at |-> merge'.at, stamps |-> merge'.stamps, parts |-> merge'.parts,
                   copies |-> merge'.copies]
  BY <1>2
<1>4. QED
  BY <1>3, MergeParts, MergeMoves DEF OpenInput, AllRead

LEMMA WalkInputSafe ==
  ASSUME MergeKnown, NEW label, WalkInput(label)
  PROVE  BuildInv'
<1> SUFFICES ASSUME ~MergeStops PROVE BuildInv'
  BY MergeStopsSafe
<1> DEFINE archive == exports[NextPart].archive[1]
<1>1. /\ merge' = [merge EXCEPT !.at = "opening", !.parts = Append(@, archive)]
      /\ merge.at = "walking" /\ UNCHANGED <<exports, output>>
  BY DEF WalkInput
<1>2. NextPart \in Native /\ Len(merge.parts) + 1 <= Len(Platforms)
  BY <1>1, MergeParts, MergeAssumption DEF NextPart, AllRead
<1>3. GoodArchive(archive)
  BY <1>1, <1>2, MergeParts, BuildCalm DEF ExportsGood, MergeKnown
<1> HIDE DEF archive
<1>4. /\ merge'.at = "opening" /\ merge'.parts = Append(merge.parts, archive)
      /\ merge'.copies = merge.copies
      /\ merge' = [at |-> merge'.at, stamps |-> merge'.stamps, parts |-> merge'.parts,
                   copies |-> merge'.copies]
  <2>1. merge' = [at |-> "opening", stamps |-> merge.stamps,
                  parts |-> Append(merge.parts, archive), copies |-> merge.copies]
    BY <1>1, MergeParts
  <2>2. QED
    BY <2>1
<1>5. /\ IsSeq(merge'.parts) /\ Len(merge'.parts) <= Len(Platforms)
      /\ \A i \in 1 .. Len(merge'.parts) : GoodArchive(merge'.parts[i])
  BY <1>2, <1>3, <1>4, MergeParts, MergeAssumption, Appended
<1>6. QED
  BY <1>1, <1>4, <1>5, MergeParts, MergeMoves

LEMMA CopyBlobsSafe == MergeKnown /\ CopyBlobs => BuildInv'
<1> SUFFICES ASSUME MergeKnown, CopyBlobs PROVE BuildInv'
  OBVIOUS
<1> DEFINE part == merge.parts[Len(merge.copies) + 1]
<1>1. PICK lost : merge' = [merge EXCEPT !.copies = Append(@, Damaged(part, lost))]
  BY DEF CopyBlobs
<1>2. /\ merge.at = "opening" /\ AllRead /\ ~AllCopied /\ UNCHANGED <<exports, output>>
  BY DEF CopyBlobs
<1>3. GoodArchive(Damaged(part, lost))
  BY <1>2, MergeParts, DamagedTrees DEF GoodArchive, AllRead, AllCopied
<1> HIDE DEF part
<1>4. /\ merge'.at = "opening" /\ merge'.parts = merge.parts
      /\ merge'.copies = Append(merge.copies, Damaged(part, lost))
      /\ merge' = [at |-> merge'.at, stamps |-> merge'.stamps, parts |-> merge'.parts,
                   copies |-> merge'.copies]
  <2>1. merge' = [at |-> "opening", stamps |-> merge.stamps, parts |-> merge.parts,
                  copies |-> Append(merge.copies, Damaged(part, lost))]
    BY <1>1, <1>2, MergeParts
  <2>2. QED
    BY <2>1
<1>5. /\ IsSeq(merge'.copies) /\ Len(merge'.copies) = Len(merge.copies) + 1
      /\ \A i \in 1 .. Len(merge'.copies) : GoodArchive(merge'.copies[i])
  BY <1>3, <1>4, MergeParts, Appended
<1>6. Len(merge'.copies) <= Len(Platforms)
  BY <1>2, <1>5, MergeParts, MergeAssumption DEF AllRead, AllCopied
<1>7. QED
  BY <1>2, <1>4, <1>5, <1>6, MergeParts, MergeMoves

LEMMA SealMergeSafe == MergeKnown /\ SealMerge => BuildInv'
<1> SUFFICES ASSUME MergeKnown, SealMerge, ~MergeStops PROVE BuildInv'
  BY MergeStopsSafe
<1>1. /\ merge' = [merge EXCEPT !.at = "sealed"]
      /\ merge.at = "opening" /\ UNCHANGED <<exports, output>>
  BY DEF SealMerge
<1>2. merge' = [at |-> "sealed", stamps |-> merge.stamps, parts |-> merge.parts,
                copies |-> merge.copies]
  BY <1>1, MergeParts
<1>3. /\ merge'.at = "sealed" /\ merge'.parts = merge.parts /\ merge'.copies = merge.copies
      /\ merge' = [at |-> merge'.at, stamps |-> merge'.stamps, parts |-> merge'.parts,
                   copies |-> merge'.copies]
  BY <1>2
<1>4. QED
  BY <1>1, <1>3, MergeParts, MergeMoves

LEMMA LinkOutputSafe == MergeKnown /\ LinkOutput => BuildInv'
<1> SUFFICES ASSUME MergeKnown, LinkOutput, ~MergeStops PROVE BuildInv'
  BY MergeStopsSafe
<1> DEFINE package == [kind |-> "oci", archive |-> Merged(merge.copies)]
<1>1. /\ merge' = [merge EXCEPT !.at = "linked"] /\ output' = <<package>>
      /\ merge.at = "sealed" /\ UNCHANGED exports
  BY DEF LinkOutput
<1>2. merge' = [at |-> "linked", stamps |-> merge.stamps, parts |-> merge.parts,
                copies |-> merge.copies]
  BY <1>1, MergeParts
<1>3. /\ merge'.at = "linked" /\ merge'.parts = merge.parts /\ merge'.copies = merge.copies
      /\ merge' = [at |-> merge'.at, stamps |-> merge'.stamps, parts |-> merge'.parts,
                   copies |-> merge'.copies]
  BY <1>2
<1>4. Shapes'
  BY <1>1, <1>3, MergeParts DEF MergeKnown, BuildInv, Shapes, AllRead, IsSeq
<1>5. ExportsGood' /\ PartsGood'
  BY <1>1, <1>3, BuildCalm DEF MergeKnown, ExportsGood, PartsGood
<1>6. \A tree \in TreesOf(package) : Good(tree)
  BY MergeParts, MergedTrees DEF TreesOf, GoodArchive
<1>7. TreesOf(output'[1]) = TreesOf(package)
  BY <1>1
<1>8. OutputGood'
  BY <1>6, <1>7, BuildCalm DEF MergeKnown, OutputGood, TreesOf, LayerTrees
<1>9. QED
  BY <1>4, <1>5, <1>8, BuildMoves DEF MergeKnown

LEMMA MergeSafe == BuildInv /\ SyncInv' /\ Merge => BuildInv'
<1> SUFFICES ASSUME BuildInv, SyncInv', Merge PROVE BuildInv'
  OBVIOUS
<1>1. MergeKnown /\ MergeStep(Wanted)
  BY DEF Merge, MergeKnown
<1>2. QED
  BY <1>1, StartMergeSafe, OpenInputSafe, WalkInputSafe, CopyBlobsSafe, SealMergeSafe,
     LinkOutputSafe DEF MergeStep

-----------------------------------------------------------------------------
(* The sync, others, and repeated attempts *)

LEMMA SyncSafe == BuildInv /\ SyncInv' /\ Sync => BuildInv'
<1> SUFFICES ASSUME BuildInv, SyncInv', Sync PROVE BuildInv'
  OBVIOUS
<1>1. sync.at # "done" /\ plan' = plan
  BY DEF Sync, SyncStep, VerifyCheckout, ReadFile, Stage, CheckFile, ReplaceFile,
         WriteEvidence, Refuse, StopWith
<1>2. job.at = "new"
  BY <1>1 DEF BuildInv, InOrder
<1>3. QED
  BY <1>1, <1>2, BeforeBuilding DEF Sync, BuildVars

LEMMA OthersSafe ==
  ASSUME BuildInv, SyncInv', UNCHANGED <<mergeVars, BuildVars>>,
         KillSync \/ \E path \in Paths : OthersEdit(path) \/ PutBack(path)
  PROVE  BuildInv'
<1>1. CASE KillSync
  <2>1. sync.at # "done" /\ plan' = plan
    BY <1>1 DEF KillSync, Busy
  <2>2. job.at = "new"
    BY <2>1 DEF BuildInv, InOrder
  <2>3. QED
    BY <2>1, <2>2, BeforeBuilding DEF BuildVars
<1>2. CASE \E path \in Paths : OthersEdit(path) \/ PutBack(path)
  <2>0. plan' = plan
    BY <1>2 DEF OthersEdit, PutBack
  <2>1. CASE job.at = "new"
    BY <2>0, <2>1, BeforeBuilding DEF BuildVars
  <2>2. CASE job.at # "new"
    <3>1. sync.at = "done" /\ SyncInv
      BY <2>2 DEF BuildInv, InOrder
    <3>2. Calm
      BY <1>2, <2>0, <3>1, EditSpoils, PutBackSafe DEF Calm, BuildVars
    <3>3. Shapes' /\ BuiltGood' /\ StagedPure'
      BY <3>2, ShapesStay, BuiltStays, StagedStays DEF BuildInv, BuildVars, Live
    <3>4. InOrder'
      BY <2>2, <3>2 DEF Calm, InOrder, BuildVars
    <3>5. UploadsTrue' /\ ShippedTrue'
      BY <2>0, HistoryStays DEF BuildInv, BuildVars
    <3>6. QED
      BY <3>3, <3>4, <3>5 DEF BuildInv
  <2>3. QED
    BY <2>1, <2>2
<1>3. QED
  BY <1>1, <1>2

\* Nothing that others do to exports or to the output name changes what was built.
LEMMA IntruderSafe ==
  ASSUME BuildInv, SyncInv', UNCHANGED <<plan, files, sync, evidence, BuildVars>>,
         TakeOutput(Foreign) \/ \E p \in Native : WriteOver(p)
  PROVE  BuildInv'
<1>1. /\ merge.at \in {"opening", "walking", "sealed"} /\ merge' = merge
      /\ \A p \in Native : exports[p].archive # <<>>
  BY DEF TakeOutput, WriteOver, BuildInv, Shapes
<1>2. sync.at = "done" /\ job.at # "new" /\ job' = job
  BY <1>1 DEF BuildInv, InOrder, Nothing, Unmerged, BuildVars
<1>3. Calm
  BY <1>2, CalmStill DEF BuildInv, BuildVars
<1>4. InOrder' /\ StagedPure'
  BY <1>2, <1>3, StagedStays DEF BuildInv, InOrder, BuildVars
<1>5. UploadsTrue' /\ ShippedTrue'
  BY HistoryStays DEF BuildInv, BuildVars
<1>6. /\ exports' = [p \in Native |-> [archive |-> exports'[p].archive,
                                       stamp |-> exports'[p].stamp]]
      /\ \A p \in Native : exports'[p].archive # <<>>
      /\ \A p \in Native :
           LayerTrees(exports'[p].archive[1]) = LayerTrees(exports[p].archive[1])
  <2>1. CASE exports' = exports
    BY <2>1, <1>1 DEF BuildInv, Shapes
  <2>2. CASE \E p \in Native : WriteOver(p)
    <3>1. PICK p \in Native : WriteOver(p)
      BY <2>2
    <3>2. PICK lost, stamp :
            exports' = [exports EXCEPT ![p] =
                          [archive |-> <<Damaged(exports[p].archive[1], lost)>>, stamp |-> stamp]]
      BY <3>1 DEF WriteOver
    <3> DEFINE entry == [archive |-> <<Damaged(exports[p].archive[1], lost)>>, stamp |-> stamp]
    <3>3. /\ exports = [q \in Native |-> exports[q]]
          /\ exports[p] = [archive |-> exports[p].archive, stamp |-> exports[p].stamp]
      BY DEF BuildInv, Shapes
    <3>4. exports' = [exports EXCEPT ![p] = entry]
      BY <3>2, <3>3
    <3>5. entry.archive # <<>> /\ entry = [archive |-> entry.archive, stamp |-> entry.stamp]
          /\ entry.archive[1] = Damaged(exports[p].archive[1], lost)
      OBVIOUS
    <3> HIDE DEF entry
    <3>6. \A q \in Native : exports'[q] = IF q = p THEN entry ELSE exports[q]
      BY <3>3, <3>4
    <3>7. \A q \in Native :
            exports'[q] = [archive |-> exports'[q].archive, stamp |-> exports'[q].stamp]
      BY <3>5, <3>6 DEF BuildInv, Shapes
    <3>8. exports' = [q \in Native |-> exports'[q]]
      BY <3>3, <3>4
    <3>9. QED
      BY <1>1, <3>5, <3>6, <3>7, <3>8, DamagedTrees
  <2>3. QED
    BY <2>1, <2>2 DEF TakeOutput
<1>7. Shapes'
  BY <1>1, <1>2, <1>6 DEF BuildInv, Shapes, AllRead, IsSeq
<1>8. ASSUME Live PROVE ExportsGood' /\ PartsGood' /\ OutputGood'
  <2>1. ExportsGood /\ PartsGood
    BY <1>8 DEF BuildInv, BuiltGood
  <2>2. \A tree : Good(tree) => Good(tree)'
    BY <1>3, GoodStays
  <2>3. ExportsGood'
    BY <1>1, <1>6, <2>1, <2>2 DEF ExportsGood, GoodArchive, LayerTrees
  <2>4. PartsGood'
    BY <1>1, <2>1, <2>2 DEF PartsGood, GoodArchive, LayerTrees
  <2>5. OutputGood'
    BY <1>1 DEF OutputGood
  <2>6. QED
    BY <2>3, <2>4, <2>5
<1>9. BuiltGood'
  BY <1>2, <1>8 DEF BuiltGood, Live
<1>10. QED
  BY <1>4, <1>5, <1>7, <1>9 DEF BuildInv

LEMMA RerunAllSafe == BuildInv /\ SyncInv' /\ RerunAll => BuildInv'
<1> SUFFICES ASSUME BuildInv, SyncInv', RerunAll PROVE BuildInv'
  OBVIOUS
<1>1. UploadsTrue' /\ ShippedTrue'
  BY HistoryStays DEF BuildInv, RerunAll
<1>2. /\ exports' = NoExports /\ merge' = Unmerged /\ output' = <<>> /\ job' = NewJob
  BY DEF RerunAll
<1>3. (exports = NoExports /\ merge = Unmerged /\ output = <<>> /\ job = NewJob)'
  BY <1>2 DEF NoExports, Unmerged, NewJob
<1>4. QED
  BY <1>1, <1>3, NothingSafe, PTL

LEMMA RerunPublisherSafe == BuildInv /\ SyncInv' /\ RerunPublisher => BuildInv'
<1> SUFFICES ASSUME BuildInv, SyncInv', RerunPublisher PROVE BuildInv'
  OBVIOUS
<1>1. job' = [at |-> "uploaded", staged |-> job.staged, receipt |-> job.receipt]
  BY DEF RerunPublisher, JobAt, BuildInv, Shapes
<1>2. /\ job' = [at |-> job'.at, staged |-> job'.staged, receipt |-> job'.receipt]
      /\ job'.at = "uploaded" /\ sync'.at = "done"
  BY <1>1 DEF RerunPublisher, BuildInv, InOrder, syncVars
<1>3. Shapes' /\ InOrder' /\ BuiltGood' /\ StagedPure'
  BY <1>2 DEF RerunPublisher, BuildInv, Shapes, InOrder, BuiltGood, Live, StagedPure,
              mergeVars, AllRead, IsSeq
<1>4. UploadsTrue' /\ ShippedTrue'
  BY HistoryStays DEF BuildInv, RerunPublisher, syncVars
<1>5. QED
  BY <1>3, <1>4 DEF BuildInv

LEMMA BuildPreserved == BuildInv /\ [Next]_vars => BuildInv'
<1> SUFFICES ASSUME BuildInv, [Next]_vars PROVE BuildInv'
  OBVIOUS
<1>0. SyncInv'
  BY SyncPreserved DEF BuildInv
<1>1. CASE UNCHANGED vars
  <2>1. UNCHANGED <<syncVars, mergeVars, BuildVars>>
    BY <1>1 DEF vars, BuildVars
  <2>2. CASE job.at = "new"
    BY <1>0, <2>1, <2>2, BeforeBuilding DEF BuildVars, syncVars
  <2>3. CASE job.at # "new"
    <3>1. sync.at = "done"
      BY <2>3 DEF BuildInv, InOrder
    <3>2. Calm
      BY <2>1, <3>1, CalmStill DEF BuildInv, syncVars, BuildVars
    <3>3. Shapes' /\ BuiltGood' /\ StagedPure' /\ UploadsTrue' /\ ShippedTrue'
      BY <2>1, <3>2, ShapesStay, BuiltStays, StagedStays, HistoryStays
         DEF BuildInv, BuildVars, Live, syncVars
    <3>4. QED
      BY <1>0, <2>1, <2>3, <3>2, <3>3 DEF BuildInv, InOrder, Calm, BuildVars
  <2>4. QED
    BY <2>2, <2>3
<1>2. CASE Others
  BY <1>0, <1>2, OthersSafe, IntruderSafe DEF Others
<1>3. ASSUME NEW p \in Native, BuildExport(p) PROVE BuildInv'
  BY <1>0, <1>3, BuildExportSafe
<1>4. QED
  BY <1>0, <1>1, <1>2, <1>3, SyncSafe, CheckReleaseSafe, BuildPackageSafe, MergeSafe,
     StageInputsSafe, InspectStagedSafe, WriteReceiptSafe, UploadSafe, PublishSafe,
     RerunAllSafe, RerunPublisherSafe DEF Next

-----------------------------------------------------------------------------
(* Theorems about what is published *)

\* The invariant of a build: every layer and package of the attempt is a tree the sync
\* left or an edit shows in, and uploads and publications keep their origin
\* (stage_release_assets.py, version_receipt.py, release_versioned.py).
THEOREM BuildInvariant == Spec => []BuildInv
<1>1. QED
  BY BuildInitially, BuildPreserved, PTL DEF Spec

\* What is accepted for publication was built from the commit and the plan alone
\* (stage_release_assets.py:71-103, version_receipt.py:48-110).
THEOREM ShippedAreFromCommit == Spec => []ShippedFromCommit
<1>1. BuildInv => ShippedFromCommit
  BY DEF BuildInv, ShippedTrue, TrueTo, ShippedFromCommit, Planned
<1>2. QED
  BY <1>1, BuildInvariant, PTL

\* What an attempt publishes was built in that attempt (version_receipt.py:74-92).
THEOREM ShippedAreOfThisAttempt == Spec => []ShippedFromThisAttempt
<1>1. BuildInv => ShippedFromThisAttempt
  BY DEF BuildInv, ShippedTrue, TrueTo, ShippedFromThisAttempt
<1>2. QED
  BY <1>1, BuildInvariant, PTL

-----------------------------------------------------------------------------
USE ArchiveAssumption, MergeAssumption

(* Sequences of sequences *)

LEMMA LeastOf ==
  ASSUME NEW T, T \subseteq Nat, T # {}
  PROVE  \E x \in T : \A y \in T : x <= y
<1> DEFINE R == {ss \in Nat \X Nat : ss[1] < ss[2]}
<1>1. IsWellFoundedOn(R, Nat)
  BY NatLessThanWellFounded DEF OpToRel
<1>2. PICK x \in T : \A y \in T : ~ (<<y, x>> \in R)
  <2> HIDE DEF R
  <2>1. QED
    BY <1>1, WFMin
<1>3. ASSUME NEW y \in T PROVE x <= y
  <2>1. <<y, x>> \notin R /\ x \in Nat /\ y \in Nat
    BY <1>2
  <2>2. ~ (y < x)
    BY <2>1, Zenon
  <2>3. QED
    BY <2>1, <2>2
<1>4. QED
  BY <1>3

\* FlattenSeq is defined by recursion; it is what the recursion says.
Flattens(f, seqs, n) ==
  f = [i \in 1 .. n |-> IF i = 1 THEN seqs[i] ELSE f[i - 1] \o seqs[i]]

LEMMA FlattenGoesOn ==
  ASSUME NEW seqs, NEW n \in Nat \ {0}, NEW f, Flattens(f, seqs, n - 1)
  PROVE  \E g : Flattens(g, seqs, n)
<1> DEFINE last == IF n = 1 THEN seqs[n] ELSE f[n - 1] \o seqs[n]
           g == [i \in 1 .. n |-> IF i = n THEN last ELSE f[i]]
<1>1. ASSUME NEW i \in 1 .. n
      PROVE  g[i] = IF i = 1 THEN seqs[i] ELSE g[i - 1] \o seqs[i]
  <2>1. CASE i = n
    <3>1. n # 1 => n - 1 \in 1 .. n /\ n - 1 # n
      OBVIOUS
    <3>2. n # 1 => g[n - 1] = f[n - 1]
      BY <3>1
    <3>3. QED
      BY <2>1, <3>2
  <2>2. CASE i # n
    <3>1. i \in 1 .. n - 1 /\ g[i] = f[i]
      BY <2>2
    <3>2. f[i] = IF i = 1 THEN seqs[i] ELSE f[i - 1] \o seqs[i]
      BY <3>1 DEF Flattens
    <3>3. i # 1 => g[i - 1] = f[i - 1]
      BY <3>1
    <3>4. QED
      BY <3>1, <3>2, <3>3
  <2>3. QED
    BY <2>1, <2>2
<1>2. Flattens(g, seqs, n)
  <2>1. g = [i \in 1 .. n |-> g[i]]
    OBVIOUS
  <2> HIDE DEF g
  <2>2. QED
    BY <1>1, <2>1 DEF Flattens
<1>3. QED
  BY <1>2

LEMMA FlattenExists ==
  ASSUME NEW seqs, NEW n \in Nat
  PROVE  \E f : Flattens(f, seqs, n)
<1> DEFINE T == {k \in Nat : ~\E f : Flattens(f, seqs, k)}
<1>1. SUFFICES ASSUME T # {} PROVE FALSE
  OBVIOUS
<1>2. PICK x \in T : \A y \in T : x <= y
  <2> HIDE DEF T
  <2>1. T \subseteq Nat
    BY DEF T
  <2>2. QED
    BY <1>1, <2>1, LeastOf
<1>3. x # 0
  <2>1. ASSUME x = 0 PROVE FALSE
    <3>1. Flattens(<<>>, seqs, 0)
      BY DEF Flattens
    <3>2. QED
      BY <2>1, <3>1
  <2>2. QED
    BY <2>1
<1>4. x - 1 \in Nat /\ ~ (x <= x - 1)
  BY <1>3
<1>5. PICK f : Flattens(f, seqs, x - 1)
  BY <1>2, <1>4
<1>6. QED
  BY <1>3, <1>5, FlattenGoesOn

LEMMA FlattenIs ==
  ASSUME NEW seqs, Len(seqs) \in Nat \ {0}
  PROVE  \E f : Flattens(f, seqs, Len(seqs)) /\ FlattenSeq(seqs) = f[Len(seqs)]
<1> DEFINE f == CHOOSE f : Flattens(f, seqs, Len(seqs))
<1>1. Flattens(f, seqs, Len(seqs))
  BY FlattenExists
<1>2. FlattenSeq(seqs) = f[Len(seqs)]
  BY DEF FlattenSeq, Flattens
<1>3. QED
  BY <1>1, <1>2

\* What it holds, and that it is no shorter than any of its parts.
Joins(flat, seqs, S, n) ==
  /\ flat \in Seq(S)
  /\ \A x : x \in ToSet(flat) <=> \E i \in 1 .. n : x \in ToSet(seqs[i])
  /\ \A i \in 1 .. n : Len(seqs[i]) <= Len(flat)

LEMMA JoinsGoesOn ==
  ASSUME NEW S, NEW seqs \in Seq(Seq(S)), NEW n \in Nat \ {0}, n + 1 <= Len(seqs),
         NEW flat, Joins(flat, seqs, S, n)
  PROVE  Joins(flat \o seqs[n + 1], seqs, S, n + 1)
<1>1. PICK next : next = seqs[n + 1]
  OBVIOUS
<1>2. next \in Seq(S) /\ flat \in Seq(S) /\ n + 1 \in 1 .. Len(seqs)
  BY <1>1 DEF Joins
<1>3. PICK all : all = flat \o next
  OBVIOUS
<1>4. /\ all \in Seq(S) /\ Len(all) = Len(flat) + Len(next)
      /\ \A i \in 1 .. Len(all) :
           all[i] = IF i <= Len(flat) THEN flat[i] ELSE next[i - Len(flat)]
      /\ DOMAIN all = 1 .. Len(all) /\ DOMAIN flat = 1 .. Len(flat) /\ DOMAIN next = 1 .. Len(next)
      /\ Len(flat) \in Nat /\ Len(next) \in Nat
  BY <1>2, <1>3
<1>5. ASSUME NEW x PROVE x \in ToSet(all) <=> x \in ToSet(flat) \/ x \in ToSet(next)
  <2>1. ASSUME x \in ToSet(all) PROVE x \in ToSet(flat) \/ x \in ToSet(next)
    <3>1. PICK i \in 1 .. Len(all) : x = all[i]
      BY <1>4, <2>1 DEF ToSet
    <3>2. CASE i <= Len(flat)
      <4>1. i \in 1 .. Len(flat) /\ all[i] = flat[i]
        BY <1>4, <3>1, <3>2
      <4>2. QED
        BY <1>4, <3>1, <4>1 DEF ToSet
    <3>3. CASE ~(i <= Len(flat))
      <4>1. i - Len(flat) \in 1 .. Len(next)
        BY <1>4, <3>3
      <4>2. QED
        BY <1>4, <3>1, <3>3, <4>1 DEF ToSet
    <3>4. QED
      BY <3>2, <3>3
  <2>2. ASSUME x \in ToSet(flat) PROVE x \in ToSet(all)
    <3>1. PICK i \in 1 .. Len(flat) : x = flat[i]
      BY <1>4, <2>2 DEF ToSet
    <3>2. i \in 1 .. Len(all) /\ all[i] = x
      BY <1>4, <3>1
    <3>3. QED
      BY <1>4, <3>2 DEF ToSet
  <2>3. ASSUME x \in ToSet(next) PROVE x \in ToSet(all)
    <3>1. PICK i \in 1 .. Len(next) : x = next[i]
      BY <1>4, <2>3 DEF ToSet
    <3>2. PICK j : j = i + Len(flat)
      OBVIOUS
    <3>3. j \in 1 .. Len(all) /\ ~(j <= Len(flat)) /\ j - Len(flat) = i
      BY <1>4, <3>1, <3>2
    <3>4. all[j] = x
      BY <1>4, <3>1, <3>3
    <3>5. QED
      BY <1>4, <3>3, <3>4 DEF ToSet
  <2>4. QED
    BY <2>1, <2>2, <2>3
<1>6. ASSUME NEW x PROVE x \in ToSet(all) <=> \E i \in 1 .. n + 1 : x \in ToSet(seqs[i])
  <2>1. x \in ToSet(flat) <=> \E i \in 1 .. n : x \in ToSet(seqs[i])
    BY DEF Joins
  <2>2. \A i : i \in 1 .. n + 1 <=> i \in 1 .. n \/ i = n + 1
    OBVIOUS
  <2>3. QED
    BY <1>1, <1>5, <2>1, <2>2, Zenon
<1>7. ASSUME NEW i \in 1 .. n + 1 PROVE Len(seqs[i]) <= Len(all)
  <2>1. CASE i = n + 1
    BY <1>1, <1>4, <2>1
  <2>2. CASE i # n + 1
    <3>1. i \in 1 .. n /\ seqs[i] \in Seq(S)
      BY <2>2
    <3>2. Len(seqs[i]) <= Len(flat) /\ Len(seqs[i]) \in Nat
      BY <3>1 DEF Joins
    <3>3. QED
      BY <1>4, <3>2
  <2>3. QED
    BY <2>1, <2>2
<1>8. QED
  BY <1>1, <1>3, <1>4, <1>6, <1>7 DEF Joins

LEMMA FlattenJoins ==
  ASSUME NEW S, NEW seqs \in Seq(Seq(S))
  PROVE  Joins(FlattenSeq(seqs), seqs, S, Len(seqs))
<1>1. CASE Len(seqs) = 0
  <2>1. FlattenSeq(seqs) = <<>> /\ seqs = <<>>
    BY <1>1 DEF FlattenSeq
  <2>2. ToSet(<<>>) = {} /\ <<>> \in Seq(S)
    BY DEF ToSet
  <2>3. QED
    BY <1>1, <2>1, <2>2 DEF Joins
<1>2. CASE Len(seqs) # 0
  <2>1. Len(seqs) \in Nat \ {0}
    BY <1>2
  <2>2. PICK f : Flattens(f, seqs, Len(seqs)) /\ FlattenSeq(seqs) = f[Len(seqs)]
    BY <2>1, FlattenIs
  <2> DEFINE T == {k \in 1 .. Len(seqs) : ~Joins(f[k], seqs, S, k)}
  <2>3. SUFFICES ASSUME T # {} PROVE FALSE
    BY <2>1, <2>2
  <2>4. PICK k \in T : \A j \in T : k <= j
    <3> HIDE DEF T
    <3>1. T \subseteq Nat
      BY DEF T
    <3>2. QED
      BY <2>3, <3>1, LeastOf
  <2>5. k \in 1 .. Len(seqs) /\ ~Joins(f[k], seqs, S, k)
    BY <2>4
  <2>6. f[k] = IF k = 1 THEN seqs[k] ELSE f[k - 1] \o seqs[k]
    BY <2>2, <2>5 DEF Flattens
  <2>7. CASE k = 1
    <3>1. f[k] = seqs[1] /\ seqs[1] \in Seq(S) /\ \A i : i \in 1 .. k <=> i = 1
      BY <2>5, <2>6, <2>7
    <3>2. Len(seqs[1]) \in Nat /\ k = 1
      BY <2>7, <3>1
    <3>3. Joins(seqs[1], seqs, S, 1)
      <4>1. \A i \in 1 .. 1 : i = 1
        OBVIOUS
      <4>2. \A i \in 1 .. 1 : Len(seqs[i]) <= Len(seqs[1])
        BY <3>2, <4>1
      <4>3. QED
        BY <3>1, <4>1, <4>2 DEF Joins
    <3>4. QED
      BY <2>5, <3>1, <3>2, <3>3
  <2>8. CASE k # 1
    <3>1. k - 1 \in 1 .. Len(seqs) /\ ~(k <= k - 1) /\ k - 1 \in Nat \ {0} /\ (k - 1) + 1 = k
          /\ k <= Len(seqs)
      BY <2>1, <2>5, <2>8
    <3>2. Joins(f[k - 1], seqs, S, k - 1)
      BY <2>4, <3>1
    <3>3. Joins(f[k - 1] \o seqs[k - 1 + 1], seqs, S, k - 1 + 1)
      BY <3>1, <3>2, JoinsGoesOn
    <3>4. QED
      BY <2>5, <2>6, <2>8, <3>1, <3>3
  <2>9. QED
    BY <2>7, <2>8
<1>3. QED
  BY <1>1, <1>2

LEMMA AmongIs ==
  ASSUME NEW S, NEW s \in Seq(S), NEW T
  PROVE  /\ Among(s, T) \in Seq(S)
         /\ \A x : x \in ToSet(Among(s, T)) <=> x \in ToSet(s) /\ x \in T
<1>1. PICK parts : parts = [i \in DOMAIN s |-> IF s[i] \in T THEN <<s[i]>> ELSE <<>>]
  OBVIOUS
<1>2. parts \in Seq(Seq(S)) /\ Len(parts) = Len(s) /\ DOMAIN s = 1 .. Len(s)
  <2>1. \A i \in 1 .. Len(s) : s[i] \in S
    OBVIOUS
  <2>2. \A i \in 1 .. Len(s) : <<s[i]>> \in Seq(S) /\ <<>> \in Seq(S)
    BY <2>1
  <2>3. parts = [i \in 1 .. Len(s) |-> IF s[i] \in T THEN <<s[i]>> ELSE <<>>]
    BY <1>1
  <2>4. QED
    BY <2>2, <2>3
<1>3. Joins(Among(s, T), parts, S, Len(s))
  BY <1>1, <1>2, FlattenJoins DEF Among
<1>4. \A i \in 1 .. Len(s) : \A x : x \in ToSet(parts[i]) <=> x = s[i] /\ x \in T
  <2>1. \A e : ToSet(<<e>>) = {e} /\ ToSet(<<>>) = {}
    BY DEF ToSet
  <2>2. QED
    BY <1>1, <1>2, <2>1
<1>5. \A x : x \in ToSet(s) <=> \E i \in 1 .. Len(s) : x = s[i]
  BY <1>2 DEF ToSet
<1>6. QED
  BY <1>3, <1>4, <1>5 DEF Joins

LEMMA ListIs ==
  ASSUME NEW s
  PROVE  /\ IsList(s) <=> IsSeq(s)
         /\ IsList(s) => Len(s) \in Nat /\ DOMAIN s = 1 .. Len(s)
<1>1. ASSUME NEW S, s \in Seq(S) PROVE s \in Seq(ToSet(s))
  <2>1. \A i \in 1 .. Len(s) : s[i] \in ToSet(s)
    BY <1>1 DEF ToSet
  <2>2. s = [i \in 1 .. Len(s) |-> s[i]] /\ Len(s) \in Nat
    BY <1>1
  <2>3. QED
    BY <2>1, <2>2
<1>2. IsList(s) <=> IsSeq(s)
  BY <1>1, Zenon DEF IsList, IsSeq
<1>3. IsList(s) => Len(s) \in Nat /\ DOMAIN s = 1 .. Len(s)
  BY DEF IsList
<1>4. QED
  BY <1>2, <1>3

\* What a flattened list of lists holds.
Gathers(flat, seqs) ==
  /\ IsList(flat)
  /\ \A x : x \in ToSet(flat) <=> \E i \in DOMAIN seqs : x \in ToSet(seqs[i])
  /\ \A i \in DOMAIN seqs : Len(seqs[i]) <= Len(flat)

LEMMA FlattenGathers ==
  ASSUME NEW seqs, IsList(seqs), \A i \in DOMAIN seqs : IsList(seqs[i])
  PROVE  Gathers(FlattenSeq(seqs), seqs)
<1>1. Len(seqs) \in Nat /\ DOMAIN seqs = 1 .. Len(seqs) /\ \E T : seqs \in Seq(T)
  BY ListIs DEF IsList
<1>2. PICK S : S = UNION {ToSet(seqs[i]) : i \in DOMAIN seqs}
  OBVIOUS
<1>3. ASSUME NEW i \in DOMAIN seqs PROVE seqs[i] \in Seq(S)
  <2>1. seqs[i] \in Seq(ToSet(seqs[i])) /\ ToSet(seqs[i]) \subseteq S
    BY <1>2 DEF IsList
  <2>2. PICK s, T : s = seqs[i] /\ T = ToSet(seqs[i])
    OBVIOUS
  <2>3. s \in Seq(T) /\ T \subseteq S
    BY <2>1, <2>2
  <2>4. s \in Seq(S)
    BY <2>3
  <2>5. QED
    BY <2>2, <2>4
<1>4. seqs \in Seq(Seq(S))
  <2>1. \A i \in 1 .. Len(seqs) : seqs[i] \in Seq(S)
    BY <1>1, <1>3
  <2>2. QED
    BY <1>1, <2>1
<1>5. Joins(FlattenSeq(seqs), seqs, S, Len(seqs))
  BY <1>4, FlattenJoins
<1>6. IsList(FlattenSeq(seqs))
  BY <1>5, ListIs, Zenon DEF Joins, IsSeq
<1>7. QED
  BY <1>1, <1>5, <1>6 DEF Joins, Gathers

LEMMA ListOf ==
  ASSUME NEW n \in Nat, NEW s, s = [i \in 1 .. n |-> s[i]]
  PROVE  IsList(s) /\ Len(s) = n /\ DOMAIN s = 1 .. n
<1>1. PICK S : S = {s[i] : i \in 1 .. n}
  OBVIOUS
<1>2. \A i \in 1 .. n : s[i] \in S
  BY <1>1
<1>3. s \in Seq(S) /\ Len(s) = n /\ DOMAIN s = 1 .. n
  BY <1>2
<1>4. IsSeq(s)
  BY <1>3 DEF IsSeq
<1>5. QED
  BY <1>3, <1>4, ListIs

LEMMA SmallLists ==
  /\ IsList(<<>>) /\ ToSet(<<>>) = {} /\ Len(<<>>) = 0
  /\ \A e : IsList(<<e>>) /\ ToSet(<<e>>) = {e} /\ Len(<<e>>) = 1
<1>1. IsSeq(<<>>) /\ ToSet(<<>>) = {} /\ Len(<<>>) = 0
  BY EmptyIsSeq DEF ToSet
<1>2. ASSUME NEW e PROVE IsSeq(<<e>>) /\ ToSet(<<e>>) = {e} /\ Len(<<e>>) = 1
  <2>1. <<e>> \in Seq({e}) /\ DOMAIN <<e>> = 1 .. 1 /\ <<e>>[1] = e /\ Len(<<e>>) = 1
    OBVIOUS
  <2>2. \A i \in 1 .. 1 : i = 1
    OBVIOUS
  <2>3. IsSeq(<<e>>)
    BY <2>1, Zenon DEF IsSeq
  <2>4. QED
    BY <2>1, <2>2, <2>3 DEF ToSet
<1>3. QED
  BY <1>1, <1>2, ListIs

LEMMA NothingListed ==
  ASSUME NEW s, IsList(s)
  PROVE  ToSet(s) = {} <=> s = <<>>
<1>1. s \in Seq(ToSet(s))
  BY DEF IsList
<1>2. PICK S : S = ToSet(s)
  OBVIOUS
<1>3. s \in Seq(S) /\ (s # <<>> => s[1] \in S)
  BY <1>1, <1>2
<1>4. ToSet(<<>>) = {}
  BY DEF ToSet
<1>5. QED
  BY <1>2, <1>3, <1>4

LEMMA AmongLists ==
  ASSUME NEW s, IsList(s), NEW T
  PROVE  /\ IsList(Among(s, T))
         /\ \A x : x \in ToSet(Among(s, T)) <=> x \in ToSet(s) /\ x \in T
<1>1. PICK S : S = ToSet(s)
  OBVIOUS
<1>2. s \in Seq(S)
  BY <1>1 DEF IsList
<1>3. /\ Among(s, T) \in Seq(S)
      /\ \A x : x \in ToSet(Among(s, T)) <=> x \in ToSet(s) /\ x \in T
  BY <1>2, AmongIs
<1>4. IsSeq(Among(s, T))
  BY <1>3, Zenon DEF IsSeq
<1>5. QED
  BY <1>3, <1>4, ListIs

LEMMA TwoLists ==
  ASSUME NEW s, NEW t, IsList(s), IsList(t)
  PROVE  IsList(s \o t) /\ ToSet(s \o t) = ToSet(s) \cup ToSet(t)
<1>1. PICK S : S = ToSet(s) \cup ToSet(t)
  OBVIOUS
<1>2. PICK A, B : A = ToSet(s) /\ B = ToSet(t)
  OBVIOUS
<1>3. s \in Seq(A) /\ t \in Seq(B) /\ A \subseteq S /\ B \subseteq S
  BY <1>1, <1>2 DEF IsList
<1>4. s \in Seq(S) /\ t \in Seq(S)
  BY <1>3
<1>5. PICK seqs : seqs = <<s, t>>
  OBVIOUS
<1>6. /\ seqs \in Seq(Seq(S)) /\ Len(seqs) = 2 /\ seqs[1] = s /\ seqs[2] = t
  BY <1>4, <1>5
<1>7. Joins(s, seqs, S, 1)
  <2>1. \A i \in 1 .. 1 : i = 1
    OBVIOUS
  <2>2. Len(s) \in Nat
    BY <1>4
  <2>3. \A x : x \in ToSet(s) <=> \E i \in 1 .. 1 : x \in ToSet(seqs[i])
    BY <1>6, <2>1
  <2>4. \A i \in 1 .. 1 : Len(seqs[i]) <= Len(s)
    BY <1>6, <2>1, <2>2
  <2>5. QED
    BY <1>4, <2>3, <2>4 DEF Joins
<1>8. PICK n \in Nat \ {0} : n = 1
  OBVIOUS
<1>9. Joins(s \o t, seqs, S, 2)
  <2>1. Joins(s, seqs, S, n) /\ n + 1 <= Len(seqs) /\ n + 1 = 2
    BY <1>6, <1>7, <1>8
  <2>2. Joins(s \o seqs[n + 1], seqs, S, n + 1)
    BY <1>6, <2>1, JoinsGoesOn
  <2>3. QED
    BY <1>6, <2>1, <2>2
<1>10. IsSeq(s \o t)
  BY <1>9, Zenon DEF IsSeq, Joins
<1>11. \A x : x \in ToSet(s \o t) <=> x \in ToSet(s) \/ x \in ToSet(t)
  <2>1. \A i : i \in 1 .. 2 <=> i = 1 \/ i = 2
    OBVIOUS
  <2>2. QED
    BY <1>6, <1>9, <2>1 DEF Joins
<1>12. QED
  BY <1>10, <1>11, ListIs

-----------------------------------------------------------------------------
(* Walking an archive *)

Descends(f, a, n) == f = [i \in 0 .. n |-> IF i = 0 THEN a.root ELSE Below(f[i - 1])]

LEMMA DescendsOn ==
  ASSUME NEW a, NEW n \in Nat \ {0}, NEW f, Descends(f, a, n - 1)
  PROVE  \E g : Descends(g, a, n)
<1> DEFINE g == [i \in 0 .. n |-> IF i = n THEN Below(f[n - 1]) ELSE f[i]]
<1>1. ASSUME NEW i \in 0 .. n
      PROVE  g[i] = IF i = 0 THEN a.root ELSE Below(g[i - 1])
  <2>1. CASE i = n
    <3>1. n - 1 \in 0 .. n /\ n - 1 # n /\ n # 0
      OBVIOUS
    <3>2. g[n - 1] = f[n - 1] /\ g[n] = Below(f[n - 1])
      BY <3>1
    <3>3. QED
      BY <2>1, <3>1, <3>2
  <2>2. CASE i # n
    <3>1. i \in 0 .. n - 1 /\ g[i] = f[i]
      BY <2>2
    <3>2. f[i] = IF i = 0 THEN a.root ELSE Below(f[i - 1])
      BY <3>1 DEF Descends
    <3>3. i # 0 => g[i - 1] = f[i - 1]
      BY <3>1
    <3>4. QED
      BY <3>1, <3>2, <3>3
  <2>3. QED
    BY <2>1, <2>2
<1>2. Descends(g, a, n)
  <2>1. g = [i \in 0 .. n |-> g[i]]
    OBVIOUS
  <2> HIDE DEF g
  <2>2. QED
    BY <1>1, <2>1 DEF Descends
<1>3. QED
  BY <1>2

LEMMA DescentExists ==
  ASSUME NEW a, NEW n \in Nat
  PROVE  \E f : Descends(f, a, n)
<1> DEFINE T == {k \in Nat : ~\E f : Descends(f, a, k)}
<1>1. SUFFICES ASSUME T # {} PROVE FALSE
  OBVIOUS
<1>2. PICK x \in T : \A y \in T : x <= y
  <2> HIDE DEF T
  <2>1. T \subseteq Nat
    BY DEF T
  <2>2. QED
    BY <1>1, <2>1, LeastOf
<1>3. x # 0
  <2>1. ASSUME x = 0 PROVE FALSE
    <3> DEFINE f == [i \in 0 .. 0 |-> a.root]
    <3>1. Descends(f, a, 0)
      BY DEF Descends
    <3>2. QED
      BY <2>1, <3>1
  <2>2. QED
    BY <2>1
<1>4. x - 1 \in Nat /\ ~ (x <= x - 1)
  BY <1>3
<1>5. PICK f : Descends(f, a, x - 1)
  BY <1>2, <1>4
<1>6. QED
  BY <1>3, <1>5, DescendsOn

LEMMA LevelsAre ==
  ASSUME NEW a
  PROVE  /\ Levels(a)[0] = a.root
         /\ \A n \in 1 .. MaxDepth + 1 : Levels(a)[n] = Below(Levels(a)[n - 1])
<1>1. \E f : Descends(f, a, MaxDepth + 1)
  <2>1. MaxDepth + 1 \in Nat
    OBVIOUS
  <2>2. QED
    BY <2>1, DescentExists
<1>2. Levels(a) = CHOOSE f : Descends(f, a, MaxDepth + 1)
  BY DEF Levels, Descends
<1>3. Descends(Levels(a), a, MaxDepth + 1)
  BY <1>1, <1>2
<1>4. QED
  BY <1>3 DEF Descends

LEMMA BelowGathers ==
  ASSUME NEW s, IsList(s), \A i \in DOMAIN s : IsList(Children(s[i]))
  PROVE  Gathers(Below(s), [i \in DOMAIN s |-> Children(s[i])])
<1>1. PICK seqs : seqs = [i \in DOMAIN s |-> Children(s[i])]
  OBVIOUS
<1>2. Len(s) \in Nat /\ DOMAIN s = 1 .. Len(s)
  BY ListIs
<1>3. seqs = [i \in 1 .. Len(s) |-> seqs[i]]
  BY <1>1, <1>2
<1>4. IsList(seqs) /\ DOMAIN seqs = DOMAIN s
  BY <1>2, <1>3, ListOf
<1>5. Gathers(FlattenSeq(seqs), seqs)
  BY <1>1, <1>4, FlattenGathers
<1>6. QED
  BY <1>1, <1>5 DEF Below

Listed(a) == \A n \in 0 .. MaxDepth + 1 : IsList(Levels(a)[n])

LEMMA WalkIs ==
  ASSUME NEW a, Listed(a)
  PROVE  /\ IsList(Walked(a)) /\ IsList(Leaves(a))
         /\ \A x : x \in ToSet(Walked(a)) <=> \E n \in 0 .. MaxDepth + 1 : x \in ToSet(Levels(a)[n])
         /\ \A n \in 0 .. MaxDepth + 1 : Len(Levels(a)[n]) <= Len(Walked(a))
         /\ \A x : x \in ToSet(Leaves(a)) <=> x \in ToSet(Walked(a)) /\ x.media # "index"
<1>1. PICK seqs : seqs = [n \in 1 .. MaxDepth + 2 |-> Levels(a)[n - 1]]
  OBVIOUS
<1>2. MaxDepth + 2 \in Nat /\ seqs = [n \in 1 .. MaxDepth + 2 |-> seqs[n]]
  BY <1>1
<1>3. IsList(seqs) /\ DOMAIN seqs = 1 .. MaxDepth + 2
  BY <1>2, ListOf
<1>4. \A n \in 1 .. MaxDepth + 2 : n - 1 \in 0 .. MaxDepth + 1 /\ seqs[n] = Levels(a)[n - 1]
  BY <1>1
<1>5. \A n \in 0 .. MaxDepth + 1 : n + 1 \in 1 .. MaxDepth + 2 /\ seqs[n + 1] = Levels(a)[n]
  BY <1>1
<1>6. Gathers(FlattenSeq(seqs), seqs)
  BY <1>3, <1>4, FlattenGathers DEF Listed
<1>7. Walked(a) = FlattenSeq(seqs)
  BY <1>1 DEF Walked
<1>8. IsList(Walked(a))
  BY <1>6, <1>7 DEF Gathers
<1>9. \A x : x \in ToSet(Walked(a)) <=> \E n \in 0 .. MaxDepth + 1 : x \in ToSet(Levels(a)[n])
  BY <1>3, <1>4, <1>5, <1>6, <1>7 DEF Gathers
<1>10. \A n \in 0 .. MaxDepth + 1 : Len(Levels(a)[n]) <= Len(Walked(a))
  BY <1>3, <1>5, <1>6, <1>7 DEF Gathers
<1>11. /\ IsList(Leaves(a))
       /\ \A x : x \in ToSet(Leaves(a)) <=> x \in ToSet(Walked(a)) /\ x.media # "index"
  <2>1. PICK T : T = {d \in ToSet(Walked(a)) : d.media # "index"}
    OBVIOUS
  <2>2. Leaves(a) = Among(Walked(a), T)
    BY <2>1 DEF Leaves
  <2>3. QED
    BY <1>8, <2>1, <2>2, AmongLists
<1>12. QED
  BY <1>8, <1>9, <1>10, <1>11

\* What a reader accepts consists of lists at every level.
LEMMA AcceptedListed ==
  ASSUME NEW a, WithinLimits(a)
  PROVE  Listed(a)
<1> DEFINE T == {n \in 0 .. MaxDepth + 1 : ~IsList(Levels(a)[n])}
<1>1. SUFFICES ASSUME T # {} PROVE FALSE
  BY DEF Listed
<1>2. PICK n \in T : \A k \in T : n <= k
  <2> HIDE DEF T
  <2>1. T \subseteq Nat
    BY DEF T
  <2>2. QED
    BY <1>1, <2>1, LeastOf
<1>3. n # 0
  BY <1>2, LevelsAre DEF WithinLimits
<1>4. /\ n - 1 \in 0 .. MaxDepth /\ n - 1 \in 0 .. MaxDepth + 1 /\ ~ (n <= n - 1)
      /\ n \in 1 .. MaxDepth + 1 /\ ~IsList(Levels(a)[n])
  BY <1>2, <1>3
<1>5. IsList(Levels(a)[n - 1])
  BY <1>2, <1>4
<1>6. PICK s : s = Levels(a)[n - 1]
  OBVIOUS
<1>7. ASSUME NEW i \in DOMAIN s PROVE IsList(Children(s[i]))
  <2>1. s[i] \in ToSet(s)
    BY DEF ToSet
  <2>2. s[i].media = "index" => s[i].doc.kind = "index" /\ IsList(s[i].doc.manifests)
    BY <1>4, <1>6, <2>1 DEF WithinLimits
  <2>3. QED
    BY <2>2, SmallLists DEF Children
<1>8. IsList(Below(s))
  BY <1>5, <1>6, <1>7, BelowGathers DEF Gathers
<1>9. QED
  BY <1>4, <1>6, <1>8, LevelsAre

-----------------------------------------------------------------------------
(* What a merge makes *)

LEMMA ManifestsAre ==
  ASSUME NEW parts, IsList(parts), \A i \in DOMAIN parts : IsList(Leaves(parts[i]))
  PROVE  /\ IsList(Manifests(parts))
         /\ \A x : x \in ToSet(Manifests(parts)) <=>
                   \E i \in DOMAIN parts : x \in ToSet(Leaves(parts[i]))
<1>1. PICK seqs : seqs = [i \in DOMAIN parts |-> Leaves(parts[i])]
  OBVIOUS
<1>2. Len(parts) \in Nat /\ DOMAIN parts = 1 .. Len(parts)
  BY ListIs
<1>3. seqs = [i \in 1 .. Len(parts) |-> seqs[i]]
  BY <1>1, <1>2
<1>4. IsList(seqs) /\ DOMAIN seqs = DOMAIN parts
  BY <1>2, <1>3, ListOf
<1>5. PICK leaves : leaves = FlattenSeq(seqs)
  OBVIOUS
<1>6. Gathers(leaves, seqs)
  BY <1>1, <1>4, <1>5, FlattenGathers
<1>7. PICK images : images = {d \in ToSet(leaves) : d.platform # "unknown"}
  OBVIOUS
<1>8. PICK rest : rest = ToSet(leaves) \ images
  OBVIOUS
<1>9. Manifests(parts) = Among(leaves, images) \o Among(leaves, rest)
  BY <1>1, <1>5, <1>7, <1>8 DEF Manifests
<1>10. IsList(leaves)
  BY <1>6 DEF Gathers
<1>11. /\ IsList(Manifests(parts))
       /\ ToSet(Manifests(parts)) = ToSet(Among(leaves, images)) \cup ToSet(Among(leaves, rest))
  BY <1>9, <1>10, AmongLists, TwoLists
<1>12. \A x : x \in ToSet(Manifests(parts)) <=> x \in ToSet(leaves)
  BY <1>7, <1>8, <1>10, <1>11, AmongLists
<1>13. \A x : x \in ToSet(leaves) <=> \E i \in DOMAIN parts : x \in ToSet(Leaves(parts[i]))
  BY <1>1, <1>4, <1>6 DEF Gathers
<1>14. QED
  BY <1>11, <1>12, <1>13

\* The one descriptor of a merged archive's root.
Top(parts) == [media |-> "index", doc |-> [kind |-> "index", manifests |-> Manifests(parts)],
               platform |-> "any", mark |-> FALSE, about |-> <<>>]

LEMMA TopIs ==
  ASSUME NEW parts
  PROVE  /\ Merged(parts).root = <<Top(parts)>>
         /\ Merged(parts).blobs = {Top(parts).doc} \cup UNION {parts[i].blobs : i \in DOMAIN parts}
         /\ Merged(parts).damaged = UNION {parts[i].damaged : i \in DOMAIN parts}
         /\ Children(Top(parts)) = Manifests(parts)
         /\ Top(parts).media = "index" /\ Top(parts).doc.kind = "index"
         /\ Top(parts).doc.manifests = Manifests(parts)
         /\ ~Attests(Top(parts))
  BY DEF Merged, Top, Children, Attests

\* Of the lists below descriptors that are no indexes, nothing remains.
LEMMA NothingBelow ==
  ASSUME NEW s, IsList(s), \A d \in ToSet(s) : d.media # "index"
  PROVE  Below(s) = <<>>
<1>1. ASSUME NEW i \in DOMAIN s PROVE Children(s[i]) = <<>>
  BY DEF Children, ToSet
<1>2. Gathers(Below(s), [i \in DOMAIN s |-> Children(s[i])])
  BY <1>1, SmallLists, BelowGathers
<1>3. ToSet(Below(s)) = {} /\ IsList(Below(s))
  <2>1. \A x : x \notin ToSet(Below(s))
    BY <1>1, <1>2, SmallLists DEF Gathers
  <2>2. QED
    BY <1>2, <2>1 DEF Gathers
<1>4. QED
  BY <1>3, NothingListed

Leafy(parts) ==
  /\ IsList(parts)
  /\ \A i \in DOMAIN parts :
       IsList(Leaves(parts[i])) /\ \A d \in ToSet(Leaves(parts[i])) : d.media # "index"

\* The levels of a merged archive: the one index, the leaves, and nothing.
LEMMA MergedLevels ==
  ASSUME NEW parts, Leafy(parts)
  PROVE  /\ Levels(Merged(parts))[0] = <<Top(parts)>>
         /\ IsList(Levels(Merged(parts))[1])
         /\ ToSet(Levels(Merged(parts))[1]) = ToSet(Manifests(parts))
         /\ Len(Manifests(parts)) <= Len(Levels(Merged(parts))[1])
         /\ \A n \in 2 .. MaxDepth + 1 : Levels(Merged(parts))[n] = <<>>
<1>1. PICK top, all : top = Top(parts) /\ all = Manifests(parts)
  OBVIOUS
<1>2. PICK level : level = Levels(Merged(parts))
  OBVIOUS
<1>3. IsList(all) /\ \A d \in ToSet(all) : d.media # "index"
  BY <1>1, ManifestsAre DEF Leafy
<1>4. /\ level[0] = <<top>> /\ \A n \in 1 .. MaxDepth + 1 : level[n] = Below(level[n - 1])
  BY <1>1, <1>2, LevelsAre, TopIs
<1>5. /\ 1 \in 1 .. MaxDepth + 1
      /\ \A n \in 2 .. MaxDepth + 1 : n \in 1 .. MaxDepth + 1 /\ n - 1 \in 1 .. MaxDepth + 1
  OBVIOUS
<1>6. level[1] = Below(<<top>>)
  <2>1. level[1] = Below(level[1 - 1]) /\ 1 - 1 = 0
    BY <1>4, <1>5
  <2>2. QED
    BY <1>4, <2>1
<1>7. PICK s : s = <<top>>
  OBVIOUS
<1>8. /\ IsList(s) /\ DOMAIN s = {1} /\ s[1] = top /\ Children(s[1]) = all
  <2>1. IsList(<<top>>)
    BY SmallLists
  <2>2. DOMAIN <<top>> = {1} /\ <<top>>[1] = top
    OBVIOUS
  <2>3. QED
    BY <1>1, <1>7, <2>1, <2>2, TopIs
<1>9. Gathers(Below(s), [i \in DOMAIN s |-> Children(s[i])])
  BY <1>3, <1>8, BelowGathers
<1>10. /\ IsList(level[1]) /\ Len(all) <= Len(level[1])
       /\ \A x : x \in ToSet(level[1]) <=> x \in ToSet(all)
  BY <1>6, <1>7, <1>8, <1>9 DEF Gathers
<1>11. ToSet(level[1]) = ToSet(all)
  BY <1>10
<1> DEFINE T == {n \in 2 .. MaxDepth + 1 : level[n] # <<>>}
<1>12. T = {}
  <2>1. SUFFICES ASSUME T # {} PROVE FALSE
    OBVIOUS
  <2>2. PICK n \in T : \A k \in T : n <= k
    <3> HIDE DEF T
    <3>1. T \subseteq Nat
      BY DEF T
    <3>2. QED
      BY <2>1, <3>1, LeastOf
  <2>3. n \in 2 .. MaxDepth + 1 /\ level[n] = Below(level[n - 1]) /\ level[n] # <<>>
    BY <1>4, <1>5, <2>2
  <2>4. CASE n = 2
    <3>1. Below(level[1]) = <<>>
      BY <1>3, <1>10, <1>11, NothingBelow
    <3>2. n - 1 = 1
      BY <2>4
    <3>3. QED
      BY <2>3, <3>1, <3>2
  <2>5. CASE n # 2
    <3>1. n - 1 \in 2 .. MaxDepth + 1 /\ ~ (n <= n - 1)
      BY <2>3, <2>5
    <3>2. level[n - 1] = <<>>
      BY <2>2, <3>1
    <3>3. Below(<<>>) = <<>>
      BY SmallLists, NothingBelow
    <3>4. QED
      BY <2>3, <3>2, <3>3
  <2>6. QED
    BY <2>4, <2>5
<1>13. \A n \in 2 .. MaxDepth + 1 : level[n] = <<>>
  BY <1>12
<1>14. QED
  BY <1>1, <1>2, <1>4, <1>10, <1>11, <1>13

LEMMA MergedWalk ==
  ASSUME NEW parts, Leafy(parts)
  PROVE  /\ Levels(Merged(parts))[MaxDepth + 1] = <<>>
         /\ ToSet(Walked(Merged(parts))) = {Top(parts)} \cup ToSet(Manifests(parts))
         /\ Len(Manifests(parts)) <= Len(Walked(Merged(parts)))
         /\ ToSet(Leaves(Merged(parts))) = ToSet(Manifests(parts))
         /\ IsList(Walked(Merged(parts)))
         /\ \A n \in 0 .. MaxDepth + 1 :
              ToSet(Levels(Merged(parts))[n]) \subseteq ToSet(Walked(Merged(parts)))
<1>1. PICK m, level, all : m = Merged(parts) /\ level = Levels(m) /\ all = Manifests(parts)
  OBVIOUS
<1>2. /\ level[0] = <<Top(parts)>> /\ IsList(level[1]) /\ ToSet(level[1]) = ToSet(all)
      /\ Len(all) <= Len(level[1]) /\ \A n \in 2 .. MaxDepth + 1 : level[n] = <<>>
  BY <1>1, MergedLevels
<1>3. /\ \A n \in 0 .. MaxDepth + 1 : n = 0 \/ n = 1 \/ n \in 2 .. MaxDepth + 1
      /\ 0 \in 0 .. MaxDepth + 1 /\ 1 \in 0 .. MaxDepth + 1 /\ MaxDepth + 1 \in 2 .. MaxDepth + 1
  OBVIOUS
<1>4. Listed(m)
  BY <1>1, <1>2, <1>3, SmallLists DEF Listed
<1>5. \A x : x \in ToSet(Walked(m)) <=> \E n \in 0 .. MaxDepth + 1 : x \in ToSet(level[n])
  BY <1>1, <1>4, WalkIs
<1>6. ToSet(level[0]) = {Top(parts)} /\ \A n \in 2 .. MaxDepth + 1 : ToSet(level[n]) = {}
  BY <1>2, SmallLists
<1>7. \A x : x \in ToSet(Walked(m)) <=> x = Top(parts) \/ x \in ToSet(all)
  BY <1>2, <1>3, <1>5, <1>6
<1>8. Len(level[1]) <= Len(Walked(m)) /\ IsList(Walked(m))
  BY <1>1, <1>3, <1>4, WalkIs
<1>9. Len(all) <= Len(Walked(m))
  <2>1. Len(level[1]) \in Nat /\ Len(Walked(m)) \in Nat /\ Len(all) \in Nat
    <3>1. IsList(all)
      BY <1>1, ManifestsAre DEF Leafy
    <3>2. QED
      BY <1>2, <1>8, <3>1, ListIs
  <2>2. QED
    BY <1>2, <1>8, <2>1
<1>10. \A d \in ToSet(all) : d.media # "index"
  BY <1>1, ManifestsAre DEF Leafy
<1>11. \A x : x \in ToSet(Leaves(m)) <=> x \in ToSet(all)
  BY <1>4, <1>7, <1>10, WalkIs, TopIs
<1>12. \A n \in 0 .. MaxDepth + 1 : ToSet(level[n]) \subseteq ToSet(Walked(m))
  BY <1>5
<1>13. ToSet(Walked(m)) = {Top(parts)} \cup ToSet(all) /\ ToSet(Leaves(m)) = ToSet(all)
  BY <1>7, <1>11
<1>14. QED
  BY <1>1, <1>2, <1>3, <1>8, <1>9, <1>12, <1>13

-----------------------------------------------------------------------------
(* What the merge accepts, the verification accepts, but for what it alone asks *)

\* Parts of a merge that were accepted, each for some platform.
Accepted(parts, label) ==
  /\ IsList(parts)
  /\ \A i \in DOMAIN parts : \E p : InputAccepted(parts[i], p, label, Revision)

LEMMA AcceptedIs ==
  ASSUME NEW a, NEW p, NEW label, InputAccepted(a, p, label, Revision)
  PROVE  /\ IsList(Leaves(a))
         /\ \A d \in ToSet(Leaves(a)) : d.media = "manifest" /\ d.doc \in a.blobs
         /\ a.damaged = {}
         /\ \A d \in ToSet(Leaves(a)) :
              IF Attests(d) THEN AttestationFits(d, a) ELSE ImageFits(d, a, p, label, Revision)
         /\ OneImage(ToSet(Leaves(a)))
<1>1. Listed(a)
  BY AcceptedListed DEF InputAccepted
<1>2. /\ IsList(Leaves(a))
      /\ \A d : d \in ToSet(Leaves(a)) <=> d \in ToSet(Walked(a)) /\ d.media # "index"
  BY <1>1, WalkIs
<1>3. \A d \in ToSet(Leaves(a)) : d.media = "manifest" /\ d.doc \in a.blobs
  BY <1>2 DEF InputAccepted
<1>. QED  BY <1>2, <1>3 DEF InputAccepted

LEMMA AcceptedLeafy ==
  ASSUME NEW parts, NEW label, Accepted(parts, label)
  PROVE  Leafy(parts)
<1>1. ASSUME NEW i \in DOMAIN parts
      PROVE  IsList(Leaves(parts[i])) /\ \A d \in ToSet(Leaves(parts[i])) : d.media # "index"
  <2>1. PICK p : InputAccepted(parts[i], p, label, Revision)
    BY DEF Accepted
  <2>. QED  BY <2>1, AcceptedIs
<1>. QED  BY <1>1 DEF Leafy, Accepted

\* What holds in an input holds in any archive that has its blobs.
LEMMA ImageStillFits ==
  ASSUME NEW d, NEW a, NEW b, NEW p, NEW label, ImageFits(d, a, p, label, Revision),
         a.blobs \subseteq b.blobs
  PROVE  RunnableFits(d, b, label)
BY DEF ImageFits, RunnableFits

LEMMA AttestationStillFits ==
  ASSUME NEW d, NEW a, NEW b, AttestationFits(d, a), d.media = "manifest",
         a.blobs \subseteq b.blobs, d.doc.form = "artifact" => ~d.doc.typed
  PROVE  AttestationKnown(d, b)
BY DEF AttestationFits, AttestationKnown, SubjectOf

\* The one image of an input, and what its attestations speak of.
LEMMA SubjectsOf ==
  ASSUME NEW leaves, OneImage(leaves)
  PROVE  \E d \in leaves : ~Attests(d) /\ \A e \in leaves : Attests(e) => ToSet(SubjectOf(e)) = {d.doc}
<1>1. PICK d \in leaves : ~Attests(d) /\ \A e \in leaves \ {d} : Attests(e) /\ SubjectOf(e) = <<d.doc>>
  BY DEF OneImage
<1>2. \A e \in leaves : Attests(e) => ToSet(SubjectOf(e)) = {d.doc}
  BY <1>1, SmallLists
<1>. QED  BY <1>1, <1>2

\* A merged archive is within the limits if it holds no more than may be walked.
LEMMA MergedWithin ==
  ASSUME NEW parts, Leafy(parts), ToSet(Manifests(parts)) # {},
         Len(Walked(Merged(parts))) <= MaxVisited
  PROVE  WithinLimits(Merged(parts))
<1>. PICK a : a = Merged(parts)
  OBVIOUS
<1>. PICK list : list = Manifests(parts)
  OBVIOUS
<1>. PICK top : top = Top(parts)
  OBVIOUS
<1>1. /\ Levels(a)[MaxDepth + 1] = <<>>
      /\ ToSet(Walked(a)) = {top} \cup ToSet(list)
      /\ Len(list) <= Len(Walked(a))
      /\ \A n \in 0 .. MaxDepth + 1 : ToSet(Levels(a)[n]) \subseteq ToSet(Walked(a))
  BY MergedWalk
<1>2. /\ a.root = <<top>> /\ top.media = "index" /\ top.doc.kind = "index"
      /\ top.doc.manifests = list
  BY TopIs
<1>3. /\ IsList(list)
      /\ \A d \in ToSet(list) : d.media # "index"
  BY ManifestsAre DEF Leafy
<1>4. Len(list) \in 1 .. MaxVisited
  <2>1. Len(list) \in Nat /\ DOMAIN list = 1 .. Len(list)
    BY <1>3, ListIs
  <2>2. Len(list) # 0
    BY <2>1 DEF ToSet
  <2>3. IsList(Walked(a)) /\ Len(Walked(a)) \in Nat
    BY MergedWalk, ListIs
  <2>. QED  BY <2>1, <2>2, <2>3, <1>1
<1>5. ASSUME NEW n \in 0 .. MaxDepth, NEW d \in ToSet(Levels(a)[n]), d.media = "index"
      PROVE  d.doc.kind = "index" /\ IsList(d.doc.manifests) /\ Len(d.doc.manifests) \in 1 .. MaxVisited
  <2>1. n \in 0 .. MaxDepth + 1
    OBVIOUS
  <2>2. d \in {top} \cup ToSet(list)
    BY <2>1, <1>1
  <2>3. d \notin ToSet(list)
    <3>1. d.media = "index"
      BY <1>5
    <3>2. d \in ToSet(list) => d.media # "index"
      BY <1>3
    <3>. QED  BY <3>1, <3>2
  <2>4. d = top
    BY <2>2, <2>3
  <2>. QED  BY <2>4, <1>2, <1>3, <1>4
<1>6. IsList(a.root) /\ a.root # <<>>
  BY <1>2, SmallLists
<1>. QED  BY <1>1, <1>5, <1>6 DEF WithinLimits

LEMMA MergedIsAccepted ==
  ASSUME NEW parts, NEW label, Accepted(parts, label), parts # <<>>,
         OnlyVerified(Merged(parts))
  PROVE  ArtifactAccepted(Merged(parts), label)
<1>. PICK a : a = Merged(parts)
  OBVIOUS
<1>. PICK list : list = Manifests(parts)
  OBVIOUS
<1>. PICK top : top = Top(parts)
  OBVIOUS
<1>. DEFINE walked == ToSet(Walked(a))
            runnable == {d \in walked : d.media # "index" /\ ~Attests(d)}
            images == {d.doc : d \in runnable}
<1>0. Leafy(parts)
  BY AcceptedLeafy
<1>00. /\ Len(Walked(a)) <= MaxVisited /\ WithinBudget(a, Metadata(a))
       /\ \A d \in walked : Legible(d.doc) /\ (Attests(d) /\ d.doc.form = "artifact" => ~d.doc.typed)
  BY DEF OnlyVerified
<1>1. walked = {top} \cup ToSet(list)
  BY <1>0, MergedWalk
<1>2. /\ a.blobs = {top.doc} \cup UNION {parts[i].blobs : i \in DOMAIN parts}
      /\ a.damaged = UNION {parts[i].damaged : i \in DOMAIN parts}
      /\ top.media = "index" /\ ~Attests(top)
  BY TopIs
<1>3. \A d : d \in ToSet(list) <=> \E i \in DOMAIN parts : d \in ToSet(Leaves(parts[i]))
  BY <1>0, ManifestsAre DEF Leafy
<1>4. ASSUME NEW i \in DOMAIN parts
      PROVE  /\ parts[i].damaged = {} /\ parts[i].blobs \subseteq a.blobs
             /\ \A d \in ToSet(Leaves(parts[i])) :
                  /\ d.media = "manifest" /\ d.doc \in a.blobs /\ d \in walked
                  /\ IF Attests(d) THEN AttestationKnown(d, a) ELSE RunnableFits(d, a, label)
             /\ \E d \in ToSet(Leaves(parts[i])) :
                  /\ ~Attests(d)
                  /\ \A e \in ToSet(Leaves(parts[i])) : Attests(e) => ToSet(SubjectOf(e)) = {d.doc}
  <2>. PICK part : part = parts[i]
    OBVIOUS
  <2>1. PICK p : InputAccepted(part, p, label, Revision)
    BY DEF Accepted
  <2>2. /\ \A d \in ToSet(Leaves(part)) : d.media = "manifest" /\ d.doc \in part.blobs
        /\ part.damaged = {}
        /\ \A d \in ToSet(Leaves(part)) :
             IF Attests(d) THEN AttestationFits(d, part)
             ELSE ImageFits(d, part, p, label, Revision)
        /\ OneImage(ToSet(Leaves(part)))
    BY <2>1, AcceptedIs
  <2>3. part.blobs \subseteq a.blobs
    BY <1>2
  <2>4. ASSUME NEW d \in ToSet(Leaves(part))
        PROVE  /\ d.media = "manifest" /\ d.doc \in a.blobs /\ d \in walked
               /\ IF Attests(d) THEN AttestationKnown(d, a) ELSE RunnableFits(d, a, label)
    <3>1. d \in walked
      BY <1>1, <1>3
    <3>2. CASE Attests(d)
      <4>1. d.doc.form = "artifact" => ~d.doc.typed
        BY <1>00, <3>1, <3>2
      <4>2. AttestationFits(d, part) /\ d.media = "manifest"
        BY <2>2, <3>2
      <4>3. AttestationKnown(d, a)
        BY <2>3, <4>1, <4>2, AttestationStillFits
      <4>. QED  BY <4>3, <3>1, <3>2, <2>2, <2>3
    <3>3. CASE ~Attests(d)
      <4>1. RunnableFits(d, a, label)
        BY <2>2, <2>3, <3>3, ImageStillFits
      <4>. QED  BY <4>1, <3>1, <3>3, <2>2, <2>3
    <3>. QED  BY <3>2, <3>3
  <2>5. \E d \in ToSet(Leaves(part)) :
          /\ ~Attests(d)
          /\ \A e \in ToSet(Leaves(part)) : Attests(e) => ToSet(SubjectOf(e)) = {d.doc}
    BY <2>2, SubjectsOf
  <2>. QED  BY <2>2, <2>3, <2>4, <2>5
<1>5. a.damaged = {}
  BY <1>2, <1>4
<1>6. PICK i \in DOMAIN parts : TRUE
  <2>1. DOMAIN parts = 1 .. Len(parts) /\ Len(parts) \in Nat
    BY ListIs DEF Accepted
  <2>2. ToSet(parts) # {}
    BY NothingListed DEF Accepted
  <2>. QED  BY <2>2 DEF ToSet
<1>7. PICK image \in ToSet(Leaves(parts[i])) : ~Attests(image)
  BY <1>4
<1>8. image \in runnable /\ images # {}
  BY <1>4, <1>7
<1>9. WithinLimits(a)
  <2>1. ToSet(list) # {}
    BY <1>3, <1>7
  <2>. QED  BY <2>1, <1>0, <1>00, MergedWithin
<1>10. \A d \in walked : Readable(a, d.doc)
  BY <1>00, <1>1, <1>2, <1>3, <1>4, <1>5 DEF Readable
<1>11. \A d \in runnable : RunnableFits(d, a, label)
  BY <1>1, <1>2, <1>3, <1>4
<1>12. ASSUME NEW e \in walked, Attests(e)
       PROVE  AttestationKnown(e, a) /\ ToSet(SubjectOf(e)) \subseteq images
  <2>1. e \in ToSet(list)
    BY <1>1, <1>2, <1>12
  <2>2. PICK j \in DOMAIN parts : e \in ToSet(Leaves(parts[j]))
    BY <2>1, <1>3
  <2>3. PICK d \in ToSet(Leaves(parts[j])) : ~Attests(d) /\ ToSet(SubjectOf(e)) = {d.doc}
    BY <2>2, <1>4, <1>12
  <2>4. d \in walked /\ d.media # "index"
    BY <1>4
  <2>5. d.doc \in images
    BY <2>3, <2>4
  <2>. QED  BY <2>2, <2>3, <2>5, <1>4, <1>12
<1>. QED  BY <1>00, <1>8, <1>9, <1>10, <1>11, <1>12 DEF ArtifactAccepted

\* What the verification accepts, of whatever origin, is what it alone asks for.
LEMMA AcceptedIsAsked ==
  ASSUME NEW a, NEW label, ArtifactAccepted(a, label)
  PROVE  OnlyVerified(a)
<1>1. Len(Walked(a)) <= MaxVisited /\ WithinBudget(a, Metadata(a))
  BY DEF ArtifactAccepted, WithinLimits
<1>2. \A d \in ToSet(Walked(a)) : Legible(d.doc)
  BY DEF ArtifactAccepted, Readable
<1>3. ASSUME NEW d \in ToSet(Walked(a)), Attests(d), d.doc.form = "artifact"
      PROVE  ~d.doc.typed
  <2>1. AttestationKnown(d, a)
    BY <1>3 DEF ArtifactAccepted
  <2>. QED  BY <1>3, <2>1 DEF AttestationKnown
<1>. QED  BY <1>1, <1>2, <1>3 DEF OnlyVerified

-----------------------------------------------------------------------------
(* What the merge has read *)

\* An input was written over since it was opened; a blob was copied as it was checked.
Moved(p) == merge.stamps[p] < exports[p].stamp
WholeCopy(i) == merge.copies[i] = Damaged(merge.parts[i], {})

StampsGrow ==
  /\ merge.stamps = [p \in Native |-> merge.stamps[p]]
  /\ \A p \in Native :
       exports[p].stamp \in Nat /\ merge.stamps[p] \in Nat /\ merge.stamps[p] <= exports[p].stamp
PartsAccepted ==
  \A i \in 1 .. Len(merge.parts) : InputAccepted(merge.parts[i], Platforms[i], Wanted, Revision)
CopiesKnown ==
  /\ merge.copies # <<>> => AllRead
  /\ \A i \in 1 .. Len(merge.copies) : WholeCopy(i) \/ Moved(Platforms[i])
SealedWhole ==
  merge.at \in {"sealed", "linked"} =>
    AllRead /\ AllCopied /\ \A i \in 1 .. Len(merge.copies) : WholeCopy(i)
LinkedOutput ==
  merge.at = "linked" => output = <<[kind |-> "oci", archive |-> Merged(merge.copies)]>>
MergeInv == StampsGrow /\ PartsAccepted /\ CopiesKnown /\ SealedWhole /\ LinkedOutput

LEMMA MergeFresh == exports = NoExports /\ merge = Unmerged => MergeInv
<1> SUFFICES ASSUME exports = NoExports, merge = Unmerged PROVE MergeInv
  OBVIOUS
<1>1. /\ \A p \in Native : exports[p].stamp = 0 /\ merge.stamps[p] = 0
      /\ merge.stamps = [p \in Native |-> 0]
      /\ merge.at = "idle" /\ merge.parts = <<>> /\ merge.copies = <<>>
  BY DEF NoExports, Unmerged
<1>2. StampsGrow
  BY <1>1 DEF StampsGrow
<1>3. Len(<<>>) = 0
  OBVIOUS
<1>4. QED
  BY <1>1, <1>2, <1>3 DEF MergeInv, PartsAccepted, CopiesKnown, SealedWhole, LinkedOutput

LEMMA MergeStill ==
  ASSUME MergeInv, plan' = plan, UNCHANGED mergeVars
  PROVE  MergeInv'
BY DEF MergeInv, StampsGrow, PartsAccepted, CopiesKnown, SealedWhole, LinkedOutput, WholeCopy,
       Moved, AllRead, AllCopied, Wanted, mergeVars

\* A refusal leaves nothing of what was read.
LEMMA StopsKnown ==
  ASSUME MergeInv, MergeStops
  PROVE  MergeInv'
<1>1. /\ merge' = [at |-> "refused", stamps |-> [p \in Native |-> 0], parts |-> <<>>,
                   copies |-> <<>>]
      /\ exports' = exports
  BY DEF MergeStops, Unmerged
<1>2. /\ merge'.stamps = [p \in Native |-> 0] /\ merge'.at = "refused"
      /\ merge'.parts = <<>> /\ merge'.copies = <<>>
  BY <1>1
<1>3. StampsGrow'
  BY <1>1, <1>2 DEF MergeInv, StampsGrow
<1>4. Len(<<>>) = 0
  OBVIOUS
<1>5. QED
  BY <1>2, <1>3, <1>4 DEF MergeInv, PartsAccepted, CopiesKnown, SealedWhole, LinkedOutput

LEMMA StartKnown ==
  ASSUME MergeInv, StartMerge
  PROVE  MergeInv'
<1>1. SUFFICES ASSUME ~MergeStops PROVE MergeInv'
  BY StopsKnown
<1>2. /\ merge' = [at |-> "opening", stamps |-> [p \in Native |-> 0], parts |-> <<>>,
                   copies |-> <<>>]
      /\ exports' = exports
  BY <1>1 DEF StartMerge, Unmerged
<1>3. /\ merge'.stamps = [p \in Native |-> 0] /\ merge'.at = "opening"
      /\ merge'.parts = <<>> /\ merge'.copies = <<>>
  BY <1>2
<1>4. StampsGrow'
  BY <1>2, <1>3 DEF MergeInv, StampsGrow
<1>5. Len(<<>>) = 0
  OBVIOUS
<1>6. QED
  BY <1>3, <1>4, <1>5 DEF MergeInv, PartsAccepted, CopiesKnown, SealedWhole, LinkedOutput

LEMMA OpenKnown ==
  ASSUME MergeInv, BuildInv, plan' = plan, OpenInput
  PROVE  MergeInv'
<1>. PICK p : p = NextPart
  OBVIOUS
<1>. PICK stamp : stamp = exports[NextPart].stamp
  OBVIOUS
<1>. PICK stamps : stamps = [merge.stamps EXCEPT ![p] = stamp]
  OBVIOUS
<1>1. /\ merge.at = "opening" /\ ~AllRead /\ UNCHANGED <<exports, output>>
      /\ merge' = [merge EXCEPT !.at = "walking", !.stamps = stamps]
  <2>1. merge' = [merge EXCEPT !.at = "walking", !.stamps[NextPart] = exports[NextPart].stamp]
    BY DEF OpenInput
  <2>2. merge' = [merge EXCEPT !.at = "walking", !.stamps = stamps]
    BY <2>1 DEF BuildInv, Shapes
  <2>. QED  BY <2>2 DEF OpenInput
<1>2. merge' = [at |-> "walking", stamps |-> stamps, parts |-> merge.parts,
                copies |-> merge.copies]
  BY <1>1 DEF BuildInv, Shapes
<1>3. /\ merge'.at = "walking" /\ merge'.stamps = stamps /\ merge'.parts = merge.parts
      /\ merge'.copies = merge.copies
  BY <1>2
<1>4. merge.copies = <<>>
  BY <1>1 DEF MergeInv, CopiesKnown
<1>5. p \in Native
  <2>1. Len(merge.parts) \in Nat /\ Len(merge.parts) < Len(Platforms)
    BY <1>1, Appended DEF BuildInv, Shapes, AllRead
  <2>. QED  BY <2>1 DEF NextPart
<1>6. \A q \in Native : stamps[q] = IF q = p THEN stamp ELSE merge.stamps[q]
  BY <1>5 DEF MergeInv, StampsGrow
<1>7. stamps = [q \in Native |-> stamps[q]]
  BY DEF MergeInv, StampsGrow
<1>8. StampsGrow'
  <2>1. \A q \in Native : exports'[q].stamp = exports[q].stamp /\ exports[q].stamp \in Nat
    BY <1>1 DEF MergeInv, StampsGrow
  <2>2. \A q \in Native : stamps[q] \in Nat /\ stamps[q] <= exports[q].stamp
    BY <1>5, <1>6, <2>1 DEF MergeInv, StampsGrow
  <2>. QED  BY <1>3, <1>7, <2>1, <2>2 DEF StampsGrow
<1>9. Len(<<>>) = 0
  OBVIOUS
<1>10. CopiesKnown'
  BY <1>3, <1>4, <1>9 DEF CopiesKnown
<1>11. PartsAccepted'
  BY <1>3 DEF MergeInv, PartsAccepted, Wanted
<1>12. QED
  BY <1>3, <1>8, <1>10, <1>11 DEF MergeInv, SealedWhole, LinkedOutput

\* A walk that ends well adds an archive that is accepted.
LEMMA WalkKnown ==
  ASSUME MergeInv, BuildInv, plan' = plan, WalkInput(Wanted)
  PROVE  MergeInv'
<1>1. SUFFICES ASSUME ~MergeStops PROVE MergeInv'
  BY StopsKnown
<1>. PICK archive : archive = exports[NextPart].archive[1]
  OBVIOUS
<1>. PICK n : n = Len(merge.parts)
  OBVIOUS
<1>2. /\ merge.at = "walking" /\ UNCHANGED <<exports, output>>
      /\ merge' = [merge EXCEPT !.at = "opening", !.parts = Append(@, archive)]
      /\ InputAccepted(archive, Platforms[n + 1], Wanted, Revision)
  BY <1>1 DEF WalkInput, NextPart
<1>3. merge' = [at |-> "opening", stamps |-> merge.stamps,
                parts |-> Append(merge.parts, archive), copies |-> merge.copies]
  BY <1>2 DEF BuildInv, Shapes
<1>4. /\ merge'.at = "opening" /\ merge'.stamps = merge.stamps
      /\ merge'.parts = Append(merge.parts, archive) /\ merge'.copies = merge.copies
  BY <1>3
<1>5. merge.copies = <<>>
  BY <1>2 DEF MergeInv, CopiesKnown, BuildInv, Shapes
<1>6. StampsGrow'
  BY <1>2, <1>4 DEF MergeInv, StampsGrow
<1>7. Len(<<>>) = 0
  OBVIOUS
<1>8. CopiesKnown'
  BY <1>4, <1>5, <1>7 DEF CopiesKnown
<1>9. PartsAccepted'
  <2>1. /\ n \in Nat /\ Len(merge'.parts) = n + 1
        /\ \A i \in 1 .. n + 1 : merge'.parts[i] = IF i <= n THEN merge.parts[i] ELSE archive
    BY <1>4, Appended DEF BuildInv, Shapes
  <2>2. ASSUME NEW i \in 1 .. n + 1
        PROVE  InputAccepted(merge'.parts[i], Platforms[i], Wanted, Revision)
    <3>1. CASE i <= n
      <4>1. i \in 1 .. n
        BY <2>1, <3>1
      <4>. QED  BY <2>1, <3>1, <4>1 DEF MergeInv, PartsAccepted
    <3>2. CASE i = n + 1
      BY <1>2, <2>1, <3>2
    <3>. QED  BY <2>1, <3>1, <3>2
  <2>3. Wanted' = Wanted
    BY DEF Wanted
  <2>. QED  BY <2>1, <2>2, <2>3 DEF PartsAccepted
<1>10. QED
  BY <1>4, <1>6, <1>8, <1>9 DEF MergeInv, SealedWhole, LinkedOutput

\* A copy is whole, or its input shows that it was written over.
LEMMA CopyKnown ==
  ASSUME MergeInv, BuildInv, plan' = plan, CopyBlobs
  PROVE  MergeInv'
<1>. PICK n : n = Len(merge.copies)
  OBVIOUS
<1>. PICK part : part = merge.parts[n + 1]
  OBVIOUS
<1>. PICK p : p = Platforms[n + 1]
  OBVIOUS
<1>1. PICK lost : /\ merge' = [merge EXCEPT !.copies = Append(@, Damaged(part, lost))]
                  /\ exports[p].stamp = merge.stamps[p] => lost = {}
  BY DEF CopyBlobs, NextCopy
<1>2. merge.at = "opening" /\ AllRead /\ ~AllCopied /\ UNCHANGED <<exports, output>>
  BY DEF CopyBlobs
<1>3. merge' = [at |-> "opening", stamps |-> merge.stamps, parts |-> merge.parts,
                copies |-> Append(merge.copies, Damaged(part, lost))]
  BY <1>1, <1>2 DEF BuildInv, Shapes
<1>4. /\ merge'.at = "opening" /\ merge'.stamps = merge.stamps /\ merge'.parts = merge.parts
      /\ merge'.copies = Append(merge.copies, Damaged(part, lost))
  BY <1>3
<1>5. /\ n \in Nat /\ Len(merge'.copies) = n + 1
      /\ \A i \in 1 .. n + 1 :
           merge'.copies[i] = IF i <= n THEN merge.copies[i] ELSE Damaged(part, lost)
  BY <1>4, Appended DEF BuildInv, Shapes
<1>6. p \in Native
  <2>1. n < Len(Platforms)
    BY <1>2, <1>5 DEF BuildInv, Shapes, AllCopied
  <2>. QED  BY <1>5, <2>1
<1>7. StampsGrow'
  BY <1>2, <1>4 DEF MergeInv, StampsGrow
<1>8. PartsAccepted'
  BY <1>4 DEF MergeInv, PartsAccepted, Wanted
<1>9. ASSUME NEW i \in 1 .. n + 1
      PROVE  WholeCopy(i)' \/ Moved(Platforms[i])'
  <2>1. CASE i <= n
    <3>1. i \in 1 .. n
      BY <1>5, <2>1
    <3>2. WholeCopy(i) \/ Moved(Platforms[i])
      BY <3>1 DEF MergeInv, CopiesKnown
    <3>3. merge'.copies[i] = merge.copies[i]
      BY <1>5, <2>1
    <3>. QED  BY <1>2, <1>4, <3>2, <3>3 DEF WholeCopy, Moved
  <2>2. CASE i = n + 1
    <3>1. merge'.copies[i] = Damaged(part, lost)
      BY <1>5, <2>2
    <3>2. CASE lost = {}
      BY <1>4, <2>2, <3>1, <3>2 DEF WholeCopy
    <3>3. CASE lost # {}
      <4>1. /\ exports[p].stamp \in Nat /\ merge.stamps[p] \in Nat
            /\ merge.stamps[p] <= exports[p].stamp
        BY <1>6 DEF MergeInv, StampsGrow
      <4>2. exports[p].stamp # merge.stamps[p]
        BY <1>1, <3>3
      <4>3. merge.stamps[p] < exports[p].stamp
        BY <4>1, <4>2
      <4>. QED  BY <1>4, <2>2, <4>3, <1>2 DEF Moved
    <3>. QED  BY <3>2, <3>3
  <2>. QED  BY <1>5, <2>1, <2>2
<1>10. CopiesKnown'
  BY <1>2, <1>4, <1>5, <1>9 DEF CopiesKnown, AllRead
<1>11. QED
  BY <1>4, <1>7, <1>8, <1>10 DEF MergeInv, SealedWhole, LinkedOutput

\* What is sealed was whole: an input that was written over shows it.
LEMMA SealKnown ==
  ASSUME MergeInv, BuildInv, plan' = plan, SealMerge
  PROVE  MergeInv'
<1>1. SUFFICES ASSUME ~MergeStops PROVE MergeInv'
  BY StopsKnown
<1>2. /\ merge.at = "opening" /\ AllRead /\ AllCopied /\ UNCHANGED <<exports, output>>
      /\ \A p \in Native : exports[p].stamp = merge.stamps[p]
      /\ merge' = [merge EXCEPT !.at = "sealed"]
  BY <1>1 DEF SealMerge, Unchanged
<1>3. merge' = [at |-> "sealed", stamps |-> merge.stamps, parts |-> merge.parts,
                copies |-> merge.copies]
  BY <1>2 DEF BuildInv, Shapes
<1>4. /\ merge'.at = "sealed" /\ merge'.stamps = merge.stamps /\ merge'.parts = merge.parts
      /\ merge'.copies = merge.copies
  BY <1>3
<1>5. ASSUME NEW i \in 1 .. Len(merge.copies)
      PROVE  WholeCopy(i)
  <2>1. Platforms[i] \in Native
    BY <1>2 DEF AllCopied
  <2>2. ~Moved(Platforms[i])
    BY <1>2, <2>1 DEF Moved, MergeInv, StampsGrow
  <2>. QED  BY <2>2 DEF MergeInv, CopiesKnown
<1>6. StampsGrow' /\ PartsAccepted' /\ CopiesKnown'
  BY <1>2, <1>4 DEF MergeInv, StampsGrow, PartsAccepted, CopiesKnown, WholeCopy, Moved,
                    AllRead, Wanted
<1>7. SealedWhole'
  BY <1>2, <1>4, <1>5 DEF SealedWhole, AllRead, AllCopied, WholeCopy
<1>8. QED
  BY <1>4, <1>6, <1>7 DEF MergeInv, LinkedOutput

LEMMA LinkKnown ==
  ASSUME MergeInv, BuildInv, plan' = plan, LinkOutput
  PROVE  MergeInv'
<1>1. SUFFICES ASSUME ~MergeStops PROVE MergeInv'
  BY StopsKnown
<1>2. /\ merge.at = "sealed" /\ exports' = exports
      /\ output' = <<[kind |-> "oci", archive |-> Merged(merge.copies)]>>
      /\ merge' = [merge EXCEPT !.at = "linked"]
  BY <1>1 DEF LinkOutput
<1>3. merge' = [at |-> "linked", stamps |-> merge.stamps, parts |-> merge.parts,
                copies |-> merge.copies]
  BY <1>2 DEF BuildInv, Shapes
<1>4. /\ merge'.at = "linked" /\ merge'.stamps = merge.stamps /\ merge'.parts = merge.parts
      /\ merge'.copies = merge.copies
  BY <1>3
<1>5. StampsGrow' /\ PartsAccepted' /\ CopiesKnown'
  BY <1>2, <1>4 DEF MergeInv, StampsGrow, PartsAccepted, CopiesKnown, WholeCopy, Moved,
                    AllRead, Wanted
<1>6. SealedWhole'
  BY <1>2, <1>4 DEF MergeInv, SealedWhole, AllRead, AllCopied, WholeCopy
<1>7. LinkedOutput'
  BY <1>2, <1>4 DEF LinkedOutput
<1>8. QED
  BY <1>5, <1>6, <1>7 DEF MergeInv

\* A native export changes no stamp; who writes into one raises it.
LEMMA ExportKnown ==
  ASSUME MergeInv, BuildInv, NEW p \in Native, BuildExport(p)
  PROVE  MergeInv'
<1>1. PICK archive : exports' = [exports EXCEPT ![p].archive = <<archive>>]
  BY DEF BuildExport
<1>2. /\ exports = [q \in Native |-> exports[q]]
      /\ exports[p] = [archive |-> exports[p].archive, stamp |-> exports[p].stamp]
  BY DEF BuildInv, Shapes
<1>3. /\ exports'[p] = [archive |-> <<archive>>, stamp |-> exports[p].stamp]
      /\ \A q \in Native : q # p => exports'[q] = exports[q]
  BY <1>1, <1>2
<1>4. \A q \in Native : exports'[q].stamp = exports[q].stamp
  BY <1>3
<1>5. merge' = merge /\ output' = output /\ plan' = plan
  BY DEF BuildExport, syncVars
<1>6. StampsGrow'
  BY <1>4, <1>5 DEF MergeInv, StampsGrow
<1>7. ASSUME NEW i \in 1 .. Len(merge.copies), AllRead
      PROVE  WholeCopy(i)' \/ Moved(Platforms[i])'
  <2>1. Platforms[i] \in Native
    BY <1>7, Appended DEF BuildInv, Shapes
  <2>. QED  BY <2>1, <1>4, <1>5 DEF MergeInv, CopiesKnown, WholeCopy, Moved
<1>8. CopiesKnown'
  <2>1. CASE merge.copies = <<>>
    <3>1. Len(<<>>) = 0
      OBVIOUS
    <3>. QED  BY <2>1, <3>1, <1>5 DEF CopiesKnown
  <2>2. CASE merge.copies # <<>>
    BY <2>2, <1>5, <1>7 DEF MergeInv, CopiesKnown, AllRead
  <2>. QED  BY <2>1, <2>2
<1>9. PartsAccepted' /\ SealedWhole' /\ LinkedOutput'
  BY <1>5 DEF MergeInv, PartsAccepted, SealedWhole, LinkedOutput, WholeCopy, AllRead, AllCopied, Wanted
<1>. QED  BY <1>6, <1>8, <1>9 DEF MergeInv

LEMMA WriteOverKnown ==
  ASSUME MergeInv, BuildInv, NEW p \in Native, WriteOver(p), plan' = plan
  PROVE  MergeInv'
<1>. PICK entry : /\ entry.stamp = exports[p].stamp + 1
                  /\ exports' = [exports EXCEPT ![p] = entry]
  <2>. DEFINE archive == exports[p].archive[1]
              new == [archive |-> <<Damaged(archive, archive.blobs)>>, stamp |-> exports[p].stamp + 1]
  <2>1. exports' = [exports EXCEPT ![p] = new]
    BY DEF WriteOver, BuildInv, Shapes
  <2>2. new.stamp = exports[p].stamp + 1
    OBVIOUS
  <2>. QED  BY <2>1, <2>2
<1>1. exports = [q \in Native |-> exports[q]]
  BY DEF BuildInv, Shapes
<1>2. \A q \in Native : exports'[q].stamp = IF q = p THEN exports[q].stamp + 1 ELSE exports[q].stamp
  BY <1>1
<1>3. \A q \in Native : /\ exports[q].stamp \in Nat /\ merge.stamps[q] \in Nat
                        /\ merge.stamps[q] <= exports[q].stamp
  BY DEF MergeInv, StampsGrow
<1>4. \A q \in Native : exports'[q].stamp \in Nat /\ exports[q].stamp <= exports'[q].stamp
  BY <1>2, <1>3
<1>5. merge' = merge /\ output' = output
  BY DEF WriteOver
<1>6. \A q \in Native : merge.stamps[q] <= exports'[q].stamp
  BY <1>3, <1>4
<1>7. StampsGrow'
  BY <1>3, <1>4, <1>5, <1>6 DEF MergeInv, StampsGrow
<1>8. ASSUME NEW i \in 1 .. Len(merge.copies), AllRead
      PROVE  WholeCopy(i)' \/ Moved(Platforms[i])'
  <2>1. Platforms[i] \in Native
    BY <1>8, Appended DEF BuildInv, Shapes
  <2>2. Moved(Platforms[i]) => Moved(Platforms[i])'
    BY <1>3, <1>4, <1>5, <2>1 DEF Moved
  <2>. QED  BY <2>2, <1>5 DEF MergeInv, CopiesKnown, WholeCopy
<1>9. CopiesKnown'
  <2>1. CASE merge.copies = <<>>
    <3>1. Len(<<>>) = 0
      OBVIOUS
    <3>. QED  BY <2>1, <3>1, <1>5 DEF CopiesKnown
  <2>2. CASE merge.copies # <<>>
    BY <2>2, <1>5, <1>8 DEF MergeInv, CopiesKnown, AllRead
  <2>. QED  BY <2>1, <2>2
<1>10. PartsAccepted' /\ SealedWhole' /\ LinkedOutput'
  BY <1>5 DEF MergeInv, PartsAccepted, SealedWhole, LinkedOutput, WholeCopy, AllRead, AllCopied, Wanted
<1>. QED  BY <1>7, <1>9, <1>10 DEF MergeInv

\* Only a merge that is not yet linked sees its output name taken.
LEMMA TakenKnown ==
  ASSUME MergeInv, plan' = plan, UNCHANGED <<exports, merge>>,
         output' = output \/ merge.at # "linked"
  PROVE  MergeInv'
<1>1. StampsGrow' /\ PartsAccepted' /\ CopiesKnown' /\ SealedWhole'
  BY DEF MergeInv, StampsGrow, PartsAccepted, CopiesKnown, SealedWhole, WholeCopy,
         Moved, AllRead, AllCopied, Wanted
<1>2. LinkedOutput'
  BY DEF MergeInv, LinkedOutput
<1>. QED  BY <1>1, <1>2 DEF MergeInv

LEMMA MergePreserved == BuildInv /\ MergeInv /\ [Next]_vars => MergeInv'
<1> SUFFICES ASSUME BuildInv, MergeInv, [Next]_vars PROVE MergeInv'
  OBVIOUS
<1>1. CASE Merge
  <2>1. MergeStep(Wanted) /\ plan' = plan
    BY <1>1 DEF Merge, syncVars
  <2>. QED
    BY <2>1, StartKnown, OpenKnown, WalkKnown, CopyKnown, SealKnown, LinkKnown DEF MergeStep
<1>2. ASSUME NEW p \in Native, BuildExport(p) PROVE MergeInv'
  BY <1>2, ExportKnown
<1>3. CASE BuildPackage
  <2>1. output = <<>> /\ plan' = plan /\ UNCHANGED <<exports, merge>>
    BY <1>3 DEF BuildPackage, syncVars
  <2>2. \A e : <<e>> # <<>>
    OBVIOUS
  <2>3. merge.at # "linked"
    BY <2>1, <2>2 DEF MergeInv, LinkedOutput
  <2>. QED  BY <2>1, <2>3, TakenKnown
<1>4. CASE Others
  <2>1. CASE UNCHANGED mergeVars /\ plan' = plan
    BY <2>1, MergeStill
  <2>2. CASE plan' = plan /\ \E p \in Native : WriteOver(p)
    BY <2>2, WriteOverKnown
  <2>3. CASE plan' = plan /\ TakeOutput(Foreign)
    BY <2>3, TakenKnown DEF TakeOutput
  <2>. QED
    BY <1>4, <2>1, <2>2, <2>3 DEF Others, KillSync, OthersEdit, PutBack
<1>5. CASE RerunAll
  <2>1. (exports = NoExports /\ merge = Unmerged)'
    BY <1>5 DEF RerunAll, NoExports, Unmerged
  <2>. QED  BY <2>1, MergeFresh, PTL
<1>6. CASE \/ Sync \/ CheckRelease \/ StageInputs \/ InspectStaged \/ WriteReceipt
           \/ Upload \/ Publish \/ RerunPublisher \/ UNCHANGED vars
  <2>1. UNCHANGED mergeVars /\ plan' = plan
    BY <1>6 DEF Sync, SyncStep, VerifyCheckout, ReadFile, Stage, CheckFile, ReplaceFile,
         WriteEvidence, Refuse, CheckRelease, StageInputs, InspectStaged, WriteReceipt, Upload, Publish,
         RerunPublisher, vars, syncVars
  <2>. QED  BY <2>1, MergeStill
<1>. QED
  BY <1>1, <1>2, <1>3, <1>4, <1>5, <1>6 DEF Next

\* The invariant of a merge: its parts were accepted, each copy is whole or its input
\* shows that it was written over, and what is linked is the copies
\* (merge_oci_archives.py:534-640).
THEOREM MergeInvariant == Spec => []MergeInv
<1>1. Init => MergeInv
  BY MergeFresh DEF Init
<1>2. QED
  BY <1>1, MergePreserved, BuildInvariant, PTL DEF Spec

-----------------------------------------------------------------------------
(* What a merged archive is *)

\* A copy that is whole has the levels of what it was copied from.
LEMMA CopyLevels ==
  ASSUME NEW a
  PROVE  \A n \in 0 .. MaxDepth + 1 : Levels(Damaged(a, {}))[n] = Levels(a)[n]
<1>. PICK copy : copy = Damaged(a, {})
  OBVIOUS
<1>0. copy.root = a.root
  BY DEF Damaged
<1>. DEFINE T == {n \in 0 .. MaxDepth + 1 : Levels(copy)[n] # Levels(a)[n]}
<1>1. SUFFICES ASSUME T # {} PROVE FALSE
  OBVIOUS
<1>2. T \subseteq Nat
  OBVIOUS
<1>3. PICK n \in T : \A m \in T : n <= m
  <2>. HIDE DEF T
  <2>. QED  BY <1>1, <1>2, LeastOf
<1>4. n # 0
  BY <1>0, LevelsAre
<1>5. n \in 1 .. MaxDepth + 1 /\ n - 1 \in 0 .. MaxDepth + 1 /\ ~(n <= n - 1)
  BY <1>4
<1>6. Levels(copy)[n - 1] = Levels(a)[n - 1]
  BY <1>3, <1>5
<1>7. Levels(copy)[n] = Levels(a)[n]
  BY <1>5, <1>6, LevelsAre
<1>. QED  BY <1>7

LEMMA CopyAccepted ==
  ASSUME NEW a, NEW p, NEW label, InputAccepted(a, p, label, Revision)
  PROVE  /\ InputAccepted(Damaged(a, {}), p, label, Revision)
         /\ Leaves(Damaged(a, {})) = Leaves(a)
<1>. PICK copy : copy = Damaged(a, {})
  OBVIOUS
<1>0. copy.root = a.root /\ copy.blobs = a.blobs /\ copy.damaged = {}
  BY DEF Damaged
<1>1. \A n \in 0 .. MaxDepth + 1 : Levels(copy)[n] = Levels(a)[n]
  BY CopyLevels
<1>2. [n \in 1 .. MaxDepth + 2 |-> Levels(copy)[n - 1]] = [n \in 1 .. MaxDepth + 2 |-> Levels(a)[n - 1]]
  <2>1. \A n \in 1 .. MaxDepth + 2 : n - 1 \in 0 .. MaxDepth + 1
    OBVIOUS
  <2>. QED  BY <1>1, <2>1
<1>3. Walked(copy) = Walked(a)
  BY <1>2 DEF Walked
<1>4. Leaves(copy) = Leaves(a)
  BY <1>3 DEF Leaves
<1>5. WithinLimits(copy)
  <2>1. \A n \in 0 .. MaxDepth : n \in 0 .. MaxDepth + 1
    OBVIOUS
  <2>. QED  BY <1>0, <1>1, <1>3, <2>1 DEF WithinLimits, InputAccepted
<1>6. \A d : ImageFits(d, a, p, label, Revision) => ImageFits(d, copy, p, label, Revision)
  BY <1>0 DEF ImageFits
<1>7. \A d : AttestationFits(d, a) => AttestationFits(d, copy)
  BY <1>0 DEF AttestationFits
<1>8. PICK read : read = Metadata(a) \o Statements(a)
  OBVIOUS
<1>9. Metadata(copy) \o Statements(copy) = read
  <2>1. Root(copy) = Root(a)
    BY <1>0 DEF Root
  <2>2. Metadata(copy) = Metadata(a)
    BY <1>3, <2>1 DEF Metadata
  <2>3. Statements(copy) = Statements(a)
    BY <1>4 DEF Statements
  <2>. QED  BY <1>8, <2>2, <2>3
<1>10. WithinBudget(copy, Metadata(copy) \o Statements(copy))
  <2>1. WithinBudget(a, read)
    BY <1>8 DEF InputAccepted
  <2>. QED  BY <1>0, <1>9, <2>1 DEF WithinBudget
<1>11. InputAccepted(copy, p, label, Revision)
  BY <1>0, <1>3, <1>4, <1>5, <1>6, <1>7, <1>10 DEF InputAccepted
<1>. QED  BY <1>4, <1>11

\* What is linked was made of copies that are accepted, one of each input.
LEMMA LinkedCopies ==
  ASSUME BuildInv, MergeInv, merge.at = "linked"
  PROVE  /\ output[1].archive = Merged(merge.copies)
         /\ Accepted(merge.copies, Wanted) /\ merge.copies # <<>>
         /\ DOMAIN merge.copies = DOMAIN merge.parts
         /\ \A i \in DOMAIN merge.parts : /\ merge.copies[i].damaged = {}
                                          /\ Leaves(merge.copies[i]) = Leaves(merge.parts[i])
<1>1. /\ IsList(merge.copies) /\ IsList(merge.parts)
      /\ Len(merge.copies) = Len(Platforms) /\ Len(merge.parts) = Len(Platforms)
      /\ DOMAIN merge.copies = 1 .. Len(Platforms) /\ DOMAIN merge.parts = 1 .. Len(Platforms)
  BY ListIs DEF BuildInv, Shapes, MergeInv, SealedWhole, AllRead, AllCopied
<1>2. Len(Platforms) # 0
  OBVIOUS
<1>3. merge.copies # <<>>
  BY <1>1, <1>2, SmallLists
<1>4. ASSUME NEW i \in DOMAIN merge.parts
      PROVE  /\ InputAccepted(merge.copies[i], Platforms[i], Wanted, Revision)
             /\ merge.copies[i].damaged = {}
             /\ Leaves(merge.copies[i]) = Leaves(merge.parts[i])
  <2>1. InputAccepted(merge.parts[i], Platforms[i], Wanted, Revision)
    BY <1>1 DEF MergeInv, PartsAccepted
  <2>2. merge.copies[i] = Damaged(merge.parts[i], {})
    BY <1>1 DEF MergeInv, SealedWhole, WholeCopy
  <2>3. Damaged(merge.parts[i], {}).damaged = {}
    BY DEF Damaged
  <2>. QED  BY <2>1, <2>2, <2>3, CopyAccepted
<1>5. Accepted(merge.copies, Wanted)
  BY <1>1, <1>4 DEF Accepted
<1>6. output[1].archive = Merged(merge.copies)
  BY DEF MergeInv, LinkedOutput
<1>. QED  BY <1>1, <1>3, <1>4, <1>5, <1>6

\* Whoever wrote into an input while it was read, an archive that is linked is whole and
\* names exactly the images and attestations that were accepted
\* (merge_oci_archives.py:534-640).
THEOREM MergedAreWhole == Spec => []MergedWhole
<1>1. BuildInv /\ MergeInv => MergedWhole
  <2>1. SUFFICES ASSUME BuildInv, MergeInv, merge.at = "linked"
        PROVE  /\ output[1].archive.damaged = {}
               /\ ToSet(Leaves(output[1].archive))
                    = UNION {ToSet(Leaves(merge.parts[i])) : i \in DOMAIN merge.parts}
    BY DEF MergedWhole
  <2>. PICK copies : copies = merge.copies
    OBVIOUS
  <2>2. /\ output[1].archive = Merged(copies) /\ Accepted(copies, Wanted)
        /\ DOMAIN copies = DOMAIN merge.parts
        /\ \A i \in DOMAIN merge.parts : /\ copies[i].damaged = {}
                                         /\ Leaves(copies[i]) = Leaves(merge.parts[i])
    BY <2>1, LinkedCopies
  <2>3. Leafy(copies)
    BY <2>2, AcceptedLeafy
  <2>4. output[1].archive.damaged = {}
    BY <2>2, TopIs
  <2>5. ToSet(Leaves(output[1].archive)) = ToSet(Manifests(copies))
    BY <2>2, <2>3, MergedWalk
  <2>6. \A d : d \in ToSet(Manifests(copies)) <=> \E i \in DOMAIN copies : d \in ToSet(Leaves(copies[i]))
    BY <2>3, ManifestsAre DEF Leafy
  <2>. QED  BY <2>2, <2>4, <2>5, <2>6
<1>2. QED
  BY <1>1, BuildInvariant, MergeInvariant, PTL

\* How far the two readers of OCI archives agree, for every archive: of what the merge
\* accepts and links, version_plan.py:1366-1627 refuses what exceeds its limits as a
\* whole, what its parser cannot read, and an attestation that types its subject, and
\* nothing for any other reason.
THEOREM MergedAreAccepted == Spec => []MergedVerifies
<1>1. BuildInv /\ MergeInv => MergedVerifies
  <2>1. SUFFICES ASSUME BuildInv, MergeInv, merge.at = "linked"
        PROVE  ArtifactAccepted(output[1].archive, Wanted) <=> OnlyVerified(output[1].archive)
    BY DEF MergedVerifies
  <2>. PICK copies : copies = merge.copies
    OBVIOUS
  <2>2. output[1].archive = Merged(copies) /\ Accepted(copies, Wanted) /\ copies # <<>>
    BY <2>1, LinkedCopies
  <2>3. ArtifactAccepted(Merged(copies), Wanted) => OnlyVerified(Merged(copies))
    BY AcceptedIsAsked
  <2>4. OnlyVerified(Merged(copies)) => ArtifactAccepted(Merged(copies), Wanted)
    BY <2>2, MergedIsAccepted
  <2>. QED  BY <2>2, <2>3, <2>4
<1>2. QED
  BY <1>1, BuildInvariant, MergeInvariant, PTL
================================================================================
