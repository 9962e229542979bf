----------------------------- MODULE SwopSession -----------------------------
(***************************************************************************)
(* The Durable Object behind each short code (src/session.ts).             *)
(*                                                                         *)
(* Every operation is one storage transaction, hence one action.  A record *)
(* is read, dropped if its deadline has passed, and then acted on, so each *)
(* action works on Current(c) and writes back at least that.  Captions and *)
(* drafts are left out: no decision of the object depends on them.  Tokens *)
(* are fresh 256-bit random strings compared by hash: the token of session *)
(* s is the number s, 0 stands for an absent token.                        *)
(*                                                                         *)
(* `book` and `latest` are history: the object stores neither.             *)
(***************************************************************************)
EXTENDS Naturals

CONSTANTS Codes,       \* short codes: one object each
          Clients,     \* owner ids (Device UUIDs)
          Installs,    \* authenticated installations
          NoInst,      \* installation of a legacy, allowlisted caller
          Values, NoValue, NoClient,
          TTLs,        \* lifetimes the deployment may configure
          MaxFailures, \* wrong manual codes tolerated (8 in the code)
          MaxSessions, \* bound: sessions ever created
          MaxTime      \* bound: deadlines lie within 0 .. MaxTime

ASSUME SessionAssumption ==
  /\ MaxSessions \in Nat
  /\ MaxTime \in Nat
  /\ TTLs \subseteq Nat \ {0}
  /\ MaxFailures \in Nat \ {0}
  /\ NoInst \notin Installs
  /\ NoValue \notin Values
  /\ NoClient \notin Clients

VARIABLES now,     \* Date.now()
          record,  \* code -> the object's stored "session" record
          alarm,   \* code -> time its alarm is set for, 0 when none is
          firing,  \* code -> an alarm has gone off and alarm() has yet to run
          born,    \* sessions created so far
          latest,  \* code -> the session last created there, 0 if none
          book     \* session -> what happened in it

vars == <<now, record, alarm, firing, born, latest, book>>

Sessions == 1 .. MaxSessions
Tokens == 0 .. MaxSessions
Times == 0 .. MaxTime
Callers == Installs \cup {NoInst}

Blank == [status |-> "absent", client |-> NoClient, inst |-> NoInst,
          read |-> 0, submit |-> 0, entry |-> 0, failures |-> 0,
          value |-> NoValue, expiresAt |-> 0]

\* The capability a phone presents, as QR token or as typed entry code.
Passes == [path : {"qr", "manual"}, key : Tokens]

Records ==
  [status : {"absent", "waiting", "ready", "consumed"},
   client : Clients \cup {NoClient}, inst : Callers,
   read : Tokens, submit : Tokens, entry : Tokens, failures : 0 .. MaxFailures,
   value : Values \cup {NoValue}, expiresAt : Times]

Blotter == [client |-> NoClient, inst |-> NoInst, value |-> NoValue,
            deadline |-> 0, wrong |-> 0, late |-> FALSE,
            accepted |-> 0, handed |-> 0, strayed |-> FALSE]

Pages ==
  [client : Clients \cup {NoClient}, inst : Callers, \* who created it
   value : Values \cup {NoValue},  \* the value last accepted
   deadline : Times,               \* when the session runs out
   wrong : 0 .. MaxFailures,       \* manual codes rejected, counted up to the limit
   late : BOOLEAN,                 \* a manual code was honoured beyond the limit
   accepted : Nat, handed : Nat,   \* values taken in, values given out
   strayed : BOOLEAN]              \* one was given out that was not rightful

SessionTypeOK ==
  /\ now \in Times
  /\ record \in [Codes -> Records]
  /\ alarm \in [Codes -> Times]
  /\ firing \in [Codes -> BOOLEAN]
  /\ born \in Tokens
  /\ latest \in [Codes -> Tokens]
  /\ book \in [Sessions -> Pages]

Init ==
  /\ now = 0
  /\ record = [c \in Codes |-> Blank]
  /\ alarm = [c \in Codes |-> 0]
  /\ firing = [c \in Codes |-> FALSE]
  /\ born = 0
  /\ latest = [c \in Codes |-> 0]
  /\ book = [s \in Sessions |-> Blotter]

\* A plausible slip: the instant of the deadline still counts as before it.
MutExpired(r) == r.status # "absent" /\ r.expiresAt < now
\* Every operation first deletes a record whose deadline has been reached.
Expired(r) == r.status # "absent" /\ r.expiresAt <= now
Current(c) == IF Expired(record[c]) THEN Blank ELSE record[c]

\* The record is a session that the form, submit and read operations act on.
Active(c) == Current(c).status \in {"waiting", "ready"}

Store(c, r) == record' = [record EXCEPT ![c] = r]
SetAlarm(c, t) == alarm' = [alarm EXCEPT ![c] = t]
Note(s, page) == book' = [book EXCEPT ![s] = page]

-----------------------------------------------------------------------------
(* POST /create.  Legacy callers get no capabilities at all. *)

Capability(s, inst) == IF inst = NoInst THEN 0 ELSE s

Fresh(s, client, inst, deadline) ==
  [Blank EXCEPT !.status = "waiting", !.client = client, !.inst = inst,
                !.read = Capability(s, inst), !.submit = Capability(s, inst),
                !.entry = Capability(s, inst), !.expiresAt = deadline]

Free(c) == Current(c).status = "absent"

\* A plausible slip: the alarm of a new record is not set.
MutArm(c, t) == UNCHANGED alarm
Arm(c, t) == SetAlarm(c, t)

Create(c, client, inst, ttl) ==
  /\ Free(c)
  /\ born < MaxSessions /\ now + ttl <= MaxTime
  /\ Store(c, Fresh(born + 1, client, inst, now + ttl))
  /\ Arm(c, now + ttl)
  /\ born' = born + 1
  /\ latest' = [latest EXCEPT ![c] = born + 1]
  /\ Note(born + 1, [Blotter EXCEPT !.client = client, !.inst = inst,
                                    !.deadline = now + ttl])
  /\ UNCHANGED <<now, firing>>

\* 409 "code occupied": a waiting, ready or consumed record is still there.
CreateOccupied(c) == ~Free(c) /\ UNCHANGED vars

-----------------------------------------------------------------------------
(* What the phone may do: /form and /submit. *)

\* A plausible slip: `failures > 8`.
MutManualOpens(r, key) == r.entry # 0 /\ r.failures <= MaxFailures /\ r.entry = key
ManualOpens(r, key) == r.entry # 0 /\ r.failures < MaxFailures /\ r.entry = key

\* A plausible slip: the manual lockout closes the QR path too.
MutQrOpens(r, key) == (r.submit = 0 \/ r.submit = key) /\ r.failures < MaxFailures
QrOpens(r, key) == r.submit = 0 \/ r.submit = key

\* An entry code, when supplied, is decisive: the QR token is then not looked at.
Admits(r, pass) ==
  \/ pass.path = "manual" /\ ManualOpens(r, pass.key)
  \/ pass.path = "qr" /\ QrOpens(r, pass.key)

Count(r) == [r EXCEPT !.failures =
               IF r.entry # 0 /\ r.failures < MaxFailures THEN @ + 1 ELSE @]

\* 410 (200 for a read): no record, or only the tombstone of a taken session.
Gone(c) ==
  /\ ~Active(c)
  /\ Store(c, Current(c))
  /\ UNCHANGED <<now, alarm, firing, born, latest, book>>

\* 403, and the failure is stored; also when the session is already ready.
EntryRefused(c, pass) ==
  /\ Active(c)
  /\ pass.path = "manual" /\ ~Admits(Current(c), pass)
  /\ Store(c, Count(Current(c)))
  /\ Note(latest[c], [book[latest[c]] EXCEPT !.wrong =
            IF Current(c).entry # 0 /\ @ < MaxFailures THEN @ + 1 ELSE @])
  /\ UNCHANGED <<now, alarm, firing, born, latest>>

\* 403: not the QR token of this installation session.
QrRefused(c, pass) ==
  /\ Active(c)
  /\ pass.path = "qr" /\ ~Admits(Current(c), pass)
  /\ UNCHANGED vars

\* History of a granted pass.
Honour(page, pass) ==
  IF pass.path = "manual" /\ page.wrong = MaxFailures THEN [page EXCEPT !.late = TRUE] ELSE page

\* /form: nothing stored changes.
Form(c, pass) ==
  /\ Active(c) /\ Admits(Current(c), pass)
  /\ Current(c).status = "waiting"
  /\ Note(latest[c], Honour(book[latest[c]], pass))
  /\ UNCHANGED <<now, record, alarm, firing, born, latest>>

OpenForValue(r) == r.status = "waiting"

\* 409: the session has its value, for the form and for a second submission.
AlreadyReady(c, pass) ==
  /\ Active(c) /\ Admits(Current(c), pass)
  /\ ~OpenForValue(Current(c))
  /\ UNCHANGED vars

\* An installation session always ends at its original deadline.
Deadline(r, ttl) == IF r.inst # NoInst THEN r.expiresAt ELSE now + ttl

Submit(c, pass, value, ttl) ==
  LET r == Current(c)
      deadline == Deadline(r, ttl)
      page == Honour(book[latest[c]], pass)
  IN /\ Active(c) /\ Admits(r, pass)
     /\ OpenForValue(r)
     /\ deadline <= MaxTime
     /\ Store(c, [r EXCEPT !.status = "ready", !.value = value, !.expiresAt = deadline])
     /\ SetAlarm(c, deadline)
     /\ Note(latest[c], [page EXCEPT !.accepted = @ + 1, !.value = value,
                                     !.deadline = deadline])
     /\ UNCHANGED <<now, firing, born, latest>>

-----------------------------------------------------------------------------
(* What the player may do: /consume. *)

Owns(r, who) == /\ r.client = who.client /\ r.inst = who.inst
                /\ r.read = 0 \/ r.read = who.key

\* 403 "client mismatch" or "session token invalid".
ConsumeRefused(c, who) == Active(c) /\ ~Owns(Current(c), who) /\ UNCHANGED vars

ConsumeWaiting(c, who) ==
  /\ Active(c) /\ Owns(Current(c), who)
  /\ Current(c).status = "waiting"
  /\ UNCHANGED vars

\* A plausible slip: the value is returned and the record is left as it is.
MutTombstone(r) == r
\* Only the deadline is kept: the value is gone and the code stays occupied.
Tombstone(r) == [Blank EXCEPT !.status = "consumed", !.expiresAt = r.expiresAt]

\* History: session s accepted this value, and the reader is the one it is for.
Rightful(s, who, value) ==
  /\ book[s].accepted > 0 /\ book[s].value = value
  /\ book[s].client = who.client /\ book[s].inst = who.inst
  /\ who.inst # NoInst => who.key = s

HandOver(s, who, value) ==
  LET page == [book[s] EXCEPT !.handed = @ + 1]
  IN IF Rightful(s, who, value) THEN page ELSE [page EXCEPT !.strayed = TRUE]

Consume(c, who) ==
  /\ Active(c) /\ Owns(Current(c), who)
  /\ Current(c).status = "ready"
  /\ Store(c, Tombstone(Current(c)))
  /\ Note(latest[c], HandOver(latest[c], who, Current(c).value))
  /\ UNCHANGED <<now, alarm, firing, born, latest>>

-----------------------------------------------------------------------------
(* Time and the alarm.  The platform calls alarm() at or after the time that *)
(* was set, at least once; it clears the setting before it calls.            *)

Tick ==
  /\ now < MaxTime
  /\ now' = now + 1
  /\ UNCHANGED <<record, alarm, firing, born, latest, book>>

AlarmGoesOff(c) ==
  /\ alarm[c] # 0 /\ alarm[c] <= now
  /\ SetAlarm(c, 0)
  /\ firing' = [firing EXCEPT ![c] = TRUE]
  /\ UNCHANGED <<now, record, born, latest, book>>

\* A plausible slip: the handler trusts that its alarm is not an old one.
MutOutlived(r) == FALSE
\* Since the alarm was queued the code may have got a record that lives on.
Outlived(r) == r.status # "absent" /\ r.expiresAt > now

RunAlarm(c, again) ==
  /\ firing[c]
  /\ firing' = [firing EXCEPT ![c] = again]
  /\ \/ /\ Outlived(record[c])
        /\ SetAlarm(c, record[c].expiresAt)
        /\ UNCHANGED record
     \/ /\ ~Outlived(record[c])
        /\ Store(c, Blank)
        /\ UNCHANGED alarm
  /\ UNCHANGED <<now, born, latest, book>>

Next ==
  \/ Tick
  \/ \E c \in Codes :
       \/ \E client \in Clients, inst \in Callers, ttl \in TTLs : Create(c, client, inst, ttl)
       \/ CreateOccupied(c)
       \/ Gone(c)
       \/ \E pass \in Passes :
            \/ EntryRefused(c, pass)
            \/ QrRefused(c, pass)
            \/ Form(c, pass)
            \/ AlreadyReady(c, pass)
            \/ \E value \in Values, ttl \in TTLs : Submit(c, pass, value, ttl)
       \/ \E client \in Clients, inst \in Callers, key \in Tokens :
            LET who == [client |-> client, inst |-> inst, key |-> key] IN
              \/ ConsumeRefused(c, who)
              \/ ConsumeWaiting(c, who)
              \/ Consume(c, who)
       \/ AlarmGoesOff(c)
       \/ \E again \in BOOLEAN : RunAlarm(c, again)

Spec == Init /\ [][Next]_vars

(* Time passes, and a due alarm is delivered and its handler completes: the  *)
(* platform retries alarms.  Nothing is assumed of players and phones.       *)
Fairness ==
  /\ WF_vars(Tick)
  /\ \A c \in Codes : WF_vars(AlarmGoesOff(c)) /\ WF_vars(\E again \in BOOLEAN : RunAlarm(c, again))

FairSpec == Spec /\ Fairness

-----------------------------------------------------------------------------
(* Safety *)

\* One value in and once out: of all submissions racing for a session, by QR or entry
\* code, one at most is accepted (session.ts 75); and whatever polls, repeats and late
\* requests arrive, its value is given out by /consume at most once (93-96), as this very
\* session accepted it, and only to the client and installation that created the
\* session, holding its read token (85-91).
OnceInOnceOut ==
  \A s \in Sessions : book[s].accepted <= 1 /\ book[s].handed <= 1 /\ ~book[s].strayed

\* Capabilities do not outlive their session: at any moment a code in use by an
\* installation opens to its present session's own QR token, manual lockout or
\* not, to its own entry code until the lockout, and to nothing issued for an
\* earlier tenant of the code (55-69).
KeysOpenOnlyTheirSession ==
  \A c \in Codes : Active(c) /\ Current(c).inst # NoInst =>
    \A pass \in Passes :
      Admits(Current(c), pass) <=>
        /\ pass.key = latest[c]
        /\ pass.path = "manual" => book[latest[c]].wrong < MaxFailures

\* The manual code is dead once MaxFailures attempts were rejected, however they
\* interleave with correct ones, with submissions and with time (58-64).
LockoutHolds == \A s \in Sessions : ~book[s].late

\* A stored record is never without an alarm that will clean it up: one is set for
\* no later than its deadline, or has gone off and is about to be handled, even
\* when submissions move deadlines or a code is taken over from an expired
\* session whose alarm is still queued (48, 82, 102-111).
AlarmCoversRecord ==
  \A c \in Codes : record[c].status # "absent" =>
    \/ firing[c]
    \/ alarm[c] # 0 /\ alarm[c] <= record[c].expiresAt

(* Action properties *)

\* A session keeps its code and its record until its deadline: no other session is
\* created on the code before, even if the value was consumed at once (36, 93), and no
\* alarm queued for an earlier tenant or deadline takes the record away (104-109).
NotEndedEarly ==
  [][\A c \in Codes :
       /\ latest'[c] # latest[c] /\ latest[c] # 0 => book[latest[c]].deadline <= now
       /\ record[c].status # "absent" /\ record'[c].status = "absent" =>
            record[c].expiresAt <= now]_vars

\* From its deadline on, cleaned up or not, a session takes no value in and gives
\* none out: every operation checks expiry even before an alarm runs (31-34).  And no
\* submission, retry or clean-up moves the deadline of an installation session (78-79).
NothingAfterDeadline ==
  [][\A s \in Sessions :
       /\ book'[s].handed # book[s].handed \/ (book'[s].accepted # book[s].accepted)
            => now < book[s].deadline
       /\ s <= born /\ book[s].inst # NoInst => book'[s].deadline = book[s].deadline]_vars

-----------------------------------------------------------------------------
(* Why: record and history stay in step.  SessionInv is inductive; the proofs   *)
(* in SwopWorkerProofs rest on it.                                            *)

\* Record r, at time t, is what is left of session s with page p.
Matched(r, s, p, t) ==
  /\ r.status = "absent" => p.deadline <= t
  /\ r.status # "absent" => r.expiresAt = p.deadline
  /\ r.status \in {"waiting", "ready"} =>
       /\ r.client = p.client /\ r.inst = p.inst
       /\ r.read = Capability(s, r.inst)
       /\ r.submit = Capability(s, r.inst)
       /\ r.entry = Capability(s, r.inst)
       /\ r.entry # 0 => r.failures = p.wrong
       /\ p.handed = 0
  /\ r.status = "waiting" => p.accepted = 0
  /\ r.status = "ready" => p.accepted = 1 /\ p.value = r.value

Sound(p) == p.handed <= p.accepted /\ p.accepted <= 1 /\ ~p.late /\ ~p.strayed

\* A code whose record is there has had a session; no session is at two codes.
LatestBorn == \A c \in Codes : record[c].status # "absent" => latest[c] # 0
OneCodeEach ==
  /\ \A c \in Codes : latest[c] <= born
  /\ \A c, d \in Codes : latest[c] = latest[d] /\ latest[c] # 0 => c = d

\* The pages of sessions to come are empty.
UnbornBlank == \A s \in Sessions : s > born => book[s] = Blotter

SessionInv ==
  /\ LatestBorn
  /\ UnbornBlank
  /\ OneCodeEach
  /\ \A c \in Codes : latest[c] # 0 => Matched(record[c], latest[c], book[latest[c]], now)
  /\ \A s \in Sessions : Sound(book[s])

-----------------------------------------------------------------------------
(* Liveness *)

\* No payload stays behind: every stored record is erased, or replaced by that of
\* a later session, even if nobody ever asks for the code again (102-111).
EventuallyErased ==
  \A c \in Codes : \A s \in Sessions :
    (latest[c] = s /\ record[c].status # "absent")
      ~> (latest[c] # s \/ record[c].status = "absent")

-----------------------------------------------------------------------------
(* Refinement: lazy expiry and alarms implement a store in which sessions end   *)
(* exactly when their time has run out.                                         *)

\* The code at which session s is the latest holds s itself, still live.
Standing(s) == \E c \in Codes : latest[c] = s /\ Current(c).status # "absent"

StageOf(s) ==
  CASE s > born -> "unborn"
    [] s <= born /\ book[s].handed > 0 -> "taken"
    [] s <= born /\ book[s].handed = 0 /\ ~Standing(s) -> "over"
    [] s <= born /\ book[s].handed = 0 /\ Standing(s) ->
         IF book[s].accepted > 0 THEN "offered" ELSE "open"

Handoff == INSTANCE SwopHandoff WITH
  stage <- [s \in Sessions |-> StageOf(s)],
  tenant <- [c \in Codes |-> IF Current(c).status = "absent" THEN 0 ELSE latest[c]],
  offer <- [s \in Sessions |-> book[s].value],
  handed <- [s \in Sessions |-> book[s].handed]

\* The object implements SwopHandoff: its clock tick is where sessions run out.
ImplementsHandoff == Handoff!HandoffSpec
=============================================================================
