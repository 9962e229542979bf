------------------------------ MODULE SwopWorker ------------------------------
(***************************************************************************)
(* The front Worker (src/index.ts) over the session objects.               *)
(*                                                                         *)
(* A request is admitted (credentials, rate limit, body bound, allowlist), *)
(* then calls a session object, once or, for a new session, in a loop over *)
(* random codes.  The call and its answer are two steps: in between, other *)
(* requests and the clock go on, and the answer may be lost (the platform  *)
(* throws and the Worker answers 500) although the object has acted.       *)
(*                                                                         *)
(* Admission reads nothing that the session objects change, so it happens  *)
(* in the same step as the first call.  A slot serves one request after    *)
(* another.  The edge's own view of the rate limiter and of the allowlist  *)
(* is eventually consistent: what they say is any answer.                  *)
(***************************************************************************)
EXTENDS SwopSession

CONSTANTS Slots,     \* requests being served at a time
          MaxTries,  \* codes tried for one new session (12 in the code)
          NoCode

ASSUME WorkerAssumption ==
  /\ MaxTries \in Nat \ {0}
  /\ NoCode \notin Codes

VARIABLES slot, \* what each request being served is at
          told  \* session -> the code its entry code begins with, and history:
                \* what its player and phones have been told

workerVars == <<slot, told>>
allVars == <<vars, workerVars>>

Statuses == {"none", "ok", "occupied", "refused", "already", "gone"}

Idle == [at |-> "idle", kind |-> "none", client |-> NoClient,
         inst |-> NoInst, tries |-> 0, code |-> NoCode, prefix |-> NoCode,
         reply |-> "none", session |-> 0, value |-> NoValue, made |-> 0]

Untold == [code |-> NoCode, prefix |-> NoCode, oks |-> 0, okValue |-> NoValue]

SlotStates ==
  [at : {"idle", "allocating", "answering"},
   kind : {"none", "create", "submit", "form", "read"},
   client : Clients \cup {NoClient}, inst : Callers,
   tries : 0 .. MaxTries, code : Codes \cup {NoCode},
   prefix : Codes \cup {NoCode}, \* code the entry code was drawn for
   reply : Statuses, session : Tokens, value : Values \cup {NoValue},
   made : 0 .. MaxSessions]       \* history: sessions created for this request

Tellings == [code : Codes \cup {NoCode}, prefix : Codes \cup {NoCode},
             oks : Nat, okValue : Values \cup {NoValue}]

WorkerTypeOK ==
  /\ slot \in [Slots -> SlotStates]
  /\ told \in [Sessions -> Tellings]

WorkerInit ==
  /\ Init
  /\ slot = [r \in Slots |-> Idle]
  /\ told = [s \in Sessions |-> Untold]

Become(r, s) == slot' = [slot EXCEPT ![r] = s]

-----------------------------------------------------------------------------
(* Admission.  `auth` is what requireInstallation finds: no Authorization    *)
(* header, an installation, or a header it rejects.                          *)

Auths == Installs \cup {"absent", "rejected"}

\* Routes whose credentials are checked before anything is read.
Protected(kind) == kind \in {"create", "read"}

Quotas == {"granted", "denied", "unconfigured"}
Bodies == {"fits", "tooLarge", "malformed"}

\* Explicit credentials never downgrade; without any, the client must be listed.
Authorised(kind, auth, listed) ==
  ~Protected(kind) \/ auth \in Installs \/ (auth = "absent" /\ listed)

\* The order of the early returns decides which error is reported: quota, then
\* rejected credentials, then size, then owner id and allowlist, then the body.
\* `named`: a valid owner id, or none at all where an installation creates.
Verdict(kind, auth, quota, body, named, listed) ==
  CASE quota = "unconfigured" -> "unavailable"
    [] quota = "denied" -> "tooManyRequests"
    [] quota = "granted" ->
         IF Protected(kind) /\ auth = "rejected" /\ ~Authorised(kind, auth, listed)
           THEN "unauthorized"
         ELSE IF body = "tooLarge" THEN "payloadTooLarge"
         ELSE IF Protected(kind) /\ ~named THEN "missingClientId"
         ELSE IF ~Authorised(kind, auth, listed) THEN "clientNotAllowed"
         ELSE IF body = "malformed" THEN "badRequest"
         ELSE "admitted"

\* The installation on whose behalf an admitted request runs.
InstOf(auth) == IF auth \in Installs THEN auth ELSE NoInst

\* What may be answered before any session object is called, and by route and
\* credentials what may get further, whatever the edge says of quota and allowlist.
Refusable ==
  \E kind \in {"create", "submit", "form", "read"}, auth \in Auths, quota \in Quotas,
     body \in Bodies, named, listed \in BOOLEAN :
    Verdict(kind, auth, quota, body, named, listed) # "admitted"

Admissible ==
  {call \in {"create", "submit", "form", "read"} \X Auths :
     \E named, listed \in BOOLEAN :
       Verdict(call[1], call[2], "granted", "fits", named, listed) = "admitted"}

Refuse(r) == slot[r].at = "idle" /\ Refusable /\ UNCHANGED allVars

Admitted(r, kind, auth) == slot[r].at = "idle" /\ <<kind, auth>> \in Admissible

-----------------------------------------------------------------------------
(* POST /session: tokens once, then up to MaxTries random codes. *)

MayTry(s) == s.tries < MaxTries

\* A plausible slip: the entry code is drawn once, before the loop.
MutEntryPrefix(s, c) == IF s.prefix = NoCode THEN c ELSE s.prefix
\* Each attempt draws a new entry code that begins with the code it tries.
EntryPrefix(s, c) == c

StartCreate(r, auth, client) ==
  /\ Admitted(r, "create", auth)
  /\ Become(r, [Idle EXCEPT !.at = "allocating", !.kind = "create",
                  !.client = client, !.inst = InstOf(auth)])
  /\ UNCHANGED <<vars, told>>

Tried(r, c, reply) ==
  [slot[r] EXCEPT !.at = "answering", !.code = c, !.prefix = EntryPrefix(slot[r], c),
                  !.tries = @ + 1, !.reply = reply]

Allocate(r, c, ttl) ==
  /\ slot[r].at = "allocating"
  /\ \/ /\ Create(c, slot[r].client, slot[r].inst, ttl)
        /\ Become(r, [Tried(r, c, "ok") EXCEPT !.session = born + 1, !.made = @ + 1])
        /\ told' = [told EXCEPT ![born + 1].prefix = EntryPrefix(slot[r], c)]
     \/ /\ CreateOccupied(c)
        /\ Become(r, Tried(r, c, "occupied"))
        /\ UNCHANGED told

\* 409: try another code, while attempts are left; otherwise 503.
TryAnother(r) ==
  /\ slot[r].at = "answering" /\ slot[r].reply = "occupied"
  /\ Become(r, IF MayTry(slot[r])
               THEN [slot[r] EXCEPT !.at = "allocating", !.reply = "none", !.code = NoCode]
               ELSE Idle)
  /\ UNCHANGED <<vars, told>>

\* The player is told the code, its tokens and, per installation, an entry code.
Issue(r) ==
  /\ slot[r].at = "answering" /\ slot[r].kind = "create" /\ slot[r].reply = "ok"
  /\ told' = [told EXCEPT ![slot[r].session].code = slot[r].code]
  /\ Become(r, Idle)
  /\ UNCHANGED vars

-----------------------------------------------------------------------------
(* The phone: GET / and POST /submit.  The player: /val. *)

(* A submission waits for the object's answer with what it will make of it;  *)
(* of a form or read only that it is being served matters from here on.      *)

FormAwaits(r) == Become(r, [Idle EXCEPT !.at = "answering", !.kind = "form"])

SubmitAwaits(r, c, reply, value) ==
  Become(r, [Idle EXCEPT !.at = "answering", !.kind = "submit", !.reply = reply,
                         !.session = latest[c], !.value = value])

ReadAwaits(r) == Become(r, [Idle EXCEPT !.at = "answering", !.kind = "read"])

\* A typed entry code names its own code, so it can only reach that object: the
\* right one of a session, or (key 0) any wrong one.
Reaches(pass, c) == pass.path = "manual" /\ pass.key # 0 => told[pass.key].prefix = c

CallForm(r, c, pass) ==
  /\ Admitted(r, "form", "absent") /\ Reaches(pass, c)
  /\ \/ Form(c, pass)
     \/ AlreadyReady(c, pass)
     \/ EntryRefused(c, pass)
     \/ QrRefused(c, pass)
     \/ Gone(c)
  /\ FormAwaits(r)
  /\ UNCHANGED told

CallSubmit(r, c, pass, value, ttl) ==
  /\ Admitted(r, "submit", "absent") /\ Reaches(pass, c)
  /\ \/ Submit(c, pass, value, ttl) /\ SubmitAwaits(r, c, "ok", value)
     \/ AlreadyReady(c, pass) /\ SubmitAwaits(r, c, "already", value)
     \/ EntryRefused(c, pass) /\ SubmitAwaits(r, c, "refused", value)
     \/ QrRefused(c, pass) /\ SubmitAwaits(r, c, "refused", value)
     \/ Gone(c) /\ SubmitAwaits(r, c, "gone", value)
  /\ UNCHANGED told

CallRead(r, auth, c, client, key) ==
  LET who == [client |-> client, inst |-> InstOf(auth), key |-> key]
  IN /\ Admitted(r, "read", auth)
     /\ \/ Consume(c, who)
        \/ ConsumeWaiting(c, who)
        \/ ConsumeRefused(c, who)
        \/ Gone(c)
     /\ ReadAwaits(r)
     /\ UNCHANGED told

\* A plausible slip: a phone that finds its session ready is told it succeeded.
MutSucceeded(s) == s.reply \in {"ok", "already"}
Succeeded(s) == s.reply = "ok"

\* The answer arrives and is passed on.
Answer(r) ==
  /\ slot[r].at = "answering" /\ slot[r].kind # "create"
  /\ told' = IF slot[r].kind = "submit" /\ Succeeded(slot[r])
             THEN [told EXCEPT ![slot[r].session].oks = @ + 1,
                               ![slot[r].session].okValue = slot[r].value]
             ELSE told
  /\ Become(r, Idle)
  /\ UNCHANGED vars

-----------------------------------------------------------------------------
\* A plausible slip: a failed allocation call is tried again with another code.
MutAfterFailure(s) ==
  IF s.kind = "create" /\ s.tries < MaxTries
  THEN [s EXCEPT !.at = "allocating", !.reply = "none", !.code = NoCode] ELSE Idle
\* A plausible slip: a failed call starts the allocation over.
MutStartOver(s) ==
  IF s.kind = "create" THEN [s EXCEPT !.at = "allocating", !.reply = "none", !.tries = 0] ELSE Idle
\* The object call threw: whatever it did or did not do, the caller gets 500.
AfterFailure(s) == Idle

\* The call failed before the object ran, or its answer was lost.
CallFails(r) ==
  /\ slot[r].at # "idle"
  /\ Become(r, AfterFailure(slot[r]))
  /\ UNCHANGED <<vars, told>>

\* Steps of the clock and of alarms.
Platform ==
  /\ \/ Tick
     \/ \E c \in Codes : AlarmGoesOff(c) \/ \E again \in BOOLEAN : RunAlarm(c, again)
  /\ UNCHANGED workerVars

\* Whatever a request being served does next.
Serve(r) ==
  \/ \E c \in Codes, ttl \in TTLs : Allocate(r, c, ttl)
  \/ TryAnother(r)
  \/ Issue(r)
  \/ Answer(r)
  \/ CallFails(r)

Keys == 0 .. born  \* tokens that exist, and one that does not

WorkerNext ==
  \/ Platform
  \/ \E r \in Slots :
       \/ Refuse(r)
       \/ \E auth \in Auths, client \in Clients : StartCreate(r, auth, client)
       \/ \E c \in Codes, path \in {"qr", "manual"}, key \in Keys :
            LET pass == [path |-> path, key |-> key] IN
              \/ CallForm(r, c, pass)
              \/ \E value \in Values, ttl \in TTLs : CallSubmit(r, c, pass, value, ttl)
       \/ \E auth \in Auths, c \in Codes, client \in Clients, key \in Keys :
            CallRead(r, auth, c, client, key)
       \/ Serve(r)

WorkerSpec == WorkerInit /\ [][WorkerNext]_allVars

\* A request being served goes on: its promise settles or rejects.
WorkerFairSpec == WorkerSpec /\ \A r \in Slots : WF_allVars(Serve(r))

-----------------------------------------------------------------------------
(* Properties *)

\* However many codes are tried and whichever answers are lost, one request for a
\* session creates at most one: no second code is tried after a failure that may
\* have created it (index.ts 377-389).
OneSessionPerRequest == \A r \in Slots : slot[r].made <= 1

\* Of all phones that submit to a session, at most one is told that it succeeded,
\* and the value the player can get is that phone's (415-437).
ToldWinnerWins ==
  \A s \in Sessions : told[s].oks > 0 =>
    told[s].oks = 1 /\ told[s].okValue = book[s].value

\* What the player was given works: while the session lives, it is at the code the
\* player was told, and the entry code given begins with that very code, although
\* several codes may have been tried for it (377-388, 428).
IssuedCodesMatch ==
  \A s \in Sessions : told[s].code # NoCode =>
    /\ latest[told[s].code] = s \/ book[s].deadline <= now
    /\ told[s].prefix = told[s].code

\* Every request is answered: the allocation loop ends however many codes are
\* occupied, and a lost answer ends the request too.
EveryRequestEnds == \A r \in Slots : slot[r].at # "idle" ~> slot[r].at = "idle"
=============================================================================
