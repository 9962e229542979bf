------------------------------ MODULE VersionSync ------------------------------
(***************************************************************************)
(* `version_plan.py sync`: a frozen plan is written into the version files *)
(* of a checkout (scripts/version_plan.py).                                *)
(*                                                                         *)
(* The command verifies the checkout against its commit, reads the files,  *)
(* edits them in memory, looks at all of them again, stages the edited     *)
(* copies, and then looks at each file once more and replaces it.  Nothing *)
(* locks the files: others may edit them between any two steps, and the    *)
(* command may be killed between any two.  What it leaves when it is done  *)
(* is `evidence` of what the files were made to hold.                      *)
(*                                                                         *)
(* A file's content is its version fields and the rest of its text.  An    *)
(* edit of the rest by others is counted, so that every content is new;    *)
(* they may also change a version field, or put back what was there.       *)
(***************************************************************************)
EXTENDS VersionPlan, FiniteSets, SequencesExt

CONSTANTS Paths,      \* declared version files
          Slots,      \* version fields within a file
          Declared,   \* the policy's declarations, in order
          Base,       \* the base version committed in every field
          Policy, Source,  \* digest of the policy file, commit checked out
          Plans,      \* plans the command may be given
          MaxFaults   \* bound: edits, failures and replacements in a behaviour

NoPath == "no path"

ASSUME SyncAssumption ==
  /\ MaxFaults \in Nat
  /\ NoPath \notin Paths
  /\ \A i \in DOMAIN Declared : Declared[i].path \in Paths /\ Declared[i].slots \subseteq Slots

VARIABLES plan,     \* the plan the command is given
          files,    \* path -> content in the working tree
          sync,     \* what the command is at
          evidence, \* <<what the last finished command recorded>>, or <<>>
          faults    \* edits, failures and replacements so far

syncVars == <<plan, files, sync, evidence, faults>>

-----------------------------------------------------------------------------
(* Contents *)

\* What somebody wrote into a field is no version of any plan.
Hand == [by |-> "hand"]

\* The checkout as committed: every field at the base, counters at no number yet.
CommittedField(path, slot) ==
  IF \E d \in ToSet(Declared) : d.path = path /\ slot \in d.slots /\ Counter(d)
  THEN Number(<<NoBuild>>) ELSE FinalVersion(Base)
Committed == [path \in Paths |-> [text |-> 0,
                slots |-> [slot \in Slots |-> CommittedField(path, slot)]]]

\* One selector's edit, in whatever syntax: the fields it owns get the value, and
\* nothing else changes.
Edit(content, d, value) ==
  [content EXCEPT !.slots = [slot \in Slots |-> IF slot \in d.slots THEN value ELSE @[slot]]]

\* All of a file's edits, one after another: a field has what the last of them wrote.
Owners(path, slot) ==
  {i \in DOMAIN Declared : Declared[i].path = path /\ slot \in Declared[i].slots}
Edited(path, content) ==
  [content EXCEPT !.slots = [slot \in Slots |->
     IF Owners(path, slot) = {} THEN @[slot]
     ELSE Value(plan, Declared[Max(Owners(path, slot))])]]

\* Afterwards every declaration must still hold: no selector undoes another's edit.
Consistent(path, content) ==
  \A d \in ToSet(Declared) : d.path = path => Edit(content, d, Value(plan, d)) = content

InSync == \A path \in Paths : Consistent(path, files[path])

-----------------------------------------------------------------------------
(* The command *)

\* History: an edit came after the last look at the file being replaced (late), or
\* between the look at the checkout and the reading (slipped), or was undone later on
\* (undone).
Fresh == [at |-> "idle", seen |-> Committed, left |-> {}, checked |-> NoPath,
          late |-> FALSE, slipped |-> FALSE, undone |-> FALSE]

\* The commit's own fields are at the plan's base, and each file is as committed or
\* as this plan would leave it: nothing, half or all of an earlier attempt.
BaseMatches ==
  \A d \in ToSet(Declared) :
    LET value == Value([plan EXCEPT !.channel = "stable", !.seq = <<>>], d)
    IN ~Counter(d) => Edit(Committed[d.path], d, value) = Committed[d.path]

\* A plausible slip: only an untouched checkout will do.
MutKnown(path, content) == content = Committed[path]
Known(path, content) == content \in {Committed[path], Edited(path, Committed[path])}

Busy == sync.at \in {"verified", "replacing"}
StopWith(at) == sync' = [sync EXCEPT !.at = at, !.left = {}, !.checked = NoPath]
Refuse == StopWith("refused") /\ UNCHANGED <<plan, files, evidence, faults>>

VerifyCheckout ==
  /\ sync.at \in {"idle", "killed"}
  /\ IF /\ ValidPlan(plan, Policy, Declared, Source)
        /\ BaseMatches
        /\ \A path \in Paths : Known(path, files[path])
     THEN /\ sync' = [Fresh EXCEPT !.at = "verified", !.left = Paths, !.undone = sync.undone]
          /\ UNCHANGED <<plan, files, evidence, faults>>
     ELSE Refuse

ReadFile(path) ==
  /\ sync.at = "verified" /\ path \in sync.left
  /\ IF Consistent(path, Edited(path, files[path]))
     THEN /\ sync' = [sync EXCEPT !.seen[path] = files[path], !.left = @ \ {path},
                                  !.slipped = @ \/ ~Known(path, files[path])]
          /\ UNCHANGED <<plan, files, evidence, faults>>
     ELSE Refuse

Drifted == {path \in Paths : Edited(path, sync.seen[path]) # sync.seen[path]}

\* Every file is looked at again before the first is touched, and the edited copies
\* are written beside the files that need them.
Stage ==
  /\ sync.at = "verified" /\ sync.left = {}
  /\ IF \A path \in Paths : files[path] = sync.seen[path]
     THEN /\ sync' = [sync EXCEPT !.at = "replacing", !.left = Drifted]
          /\ UNCHANGED <<plan, files, evidence, faults>>
     ELSE Refuse

\* A plausible slip: the look just before a file is replaced is left out.
MutStillSeen(path) == TRUE
StillSeen(path) == files[path] = sync.seen[path]

CheckFile(path) ==
  /\ sync.at = "replacing" /\ path \in sync.left /\ sync.checked = NoPath
  /\ IF StillSeen(path)
     THEN /\ sync' = [sync EXCEPT !.checked = path, !.late = FALSE]
          /\ UNCHANGED <<plan, files, evidence, faults>>
     ELSE Refuse

\* os.replace: the edited copy takes the file's place, whatever it holds by now.
ReplaceFile(path) ==
  /\ sync.at = "replacing" /\ sync.checked = path /\ path \in sync.left
  /\ files' = [files EXCEPT ![path] = Edited(path, sync.seen[path])]
  /\ sync' = [sync EXCEPT !.left = @ \ {path}, !.checked = NoPath]
  /\ UNCHANGED <<plan, evidence, faults>>

WriteEvidence ==
  /\ sync.at = "replacing" /\ sync.left = {}
  /\ evidence' = <<[plan |-> plan,
                    after |-> [path \in Paths |-> Edited(path, sync.seen[path])]]>>
  /\ sync' = [sync EXCEPT !.at = "done"]
  /\ UNCHANGED <<plan, files, faults>>

\* The process is killed: what it replaced stays replaced, and it may be run again.
KillSync ==
  /\ Busy /\ faults < MaxFaults
  /\ StopWith("killed")
  /\ faults' = faults + 1
  /\ UNCHANGED <<plan, files, evidence>>

SyncStep ==
  \/ VerifyCheckout \/ Stage \/ WriteEvidence
  \/ \E path \in Paths : ReadFile(path) \/ CheckFile(path) \/ ReplaceFile(path)

-----------------------------------------------------------------------------
(* Others *)

Rewrite(path, content) == files' = [files EXCEPT ![path] = content]
EditText(path) == Rewrite(path, [files[path] EXCEPT !.text = faults + 1])
EditField(path, slot) ==
  Rewrite(path, [files[path] EXCEPT !.slots = [files[path].slots EXCEPT ![slot] = Hand]])

OthersEdit(path) ==
  /\ faults < MaxFaults /\ faults' = faults + 1
  /\ \/ EditText(path)
     \/ \E slot \in Slots : Owners(path, slot) # {} /\ EditField(path, slot)
  /\ sync' = [sync EXCEPT !.late = @ \/ sync.checked = path]
  /\ UNCHANGED <<plan, evidence>>

\* An edit is undone again: the file is what the command had made of it.
PutBack(path) ==
  /\ evidence # <<>> /\ files[path] # evidence[1].after[path]
  /\ files' = [files EXCEPT ![path] = evidence[1].after[path]]
  /\ sync' = [sync EXCEPT !.undone = TRUE]
  /\ UNCHANGED <<plan, evidence, faults>>

SyncInit ==
  /\ plan \in Plans
  /\ files = Committed
  /\ sync = Fresh
  /\ evidence = <<>>
  /\ faults = 0

SyncNext == SyncStep \/ KillSync \/ \E path \in Paths : OthersEdit(path) \/ PutBack(path)

-----------------------------------------------------------------------------
(* Properties *)

\* The command never writes over an edit it could have seen: a file it replaces is
\* as it was read, or was edited after the last look at it, which is all that stands
\* between that look and the replacement (1110-1126).  An edit made earlier, however
\* late in the run, survives and stops the command.
EditsSurvive ==
  [][\A path \in Paths :
       sync'.at = "replacing" /\ path \in sync.left \ sync'.left
         => files[path] = sync.seen[path] \/ sync.late]_syncVars

\* A run that was killed half way can be repeated: as long as nobody edits the files,
\* the mixture it left is recognised and completed (1184-1239).
KilledSyncCompletes ==
  sync.at = "killed" ~>
    \/ sync.at = "done"
    \/ \E path \in Paths : files[path] \notin {Committed[path], Edited(path, Committed[path])}
=============================================================================
