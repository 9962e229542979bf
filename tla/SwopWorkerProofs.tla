--------------------------- MODULE SwopWorkerProofs ---------------------------
(***************************************************************************)
(* Proofs about the session objects (SwopSession), for any number of codes, *)
(* callers and sessions, any lifetimes and any lockout limit; then about   *)
(* the Worker in front of them (SwopWorker), for any number of requests    *)
(* served at a time and any number of codes tried: it does nothing to the  *)
(* objects that SwopSession does not allow, so all that is proved of them  *)
(* holds of the whole; and what it tells players and phones is right.      *)
(***************************************************************************)
EXTENDS SwopWorker, TLAPS

USE SessionAssumption

-----------------------------------------------------------------------------
(* Part one: the session objects. *)

-----------------------------------------------------------------------------
(* Type correctness *)

\* The record of a fresh object and an empty page have their types (session.ts 27).
LEMMA BlankTyped == Blank \in Records /\ Blotter \in Pages
  BY DEF Blank, Blotter, Records, Pages, Callers, Tokens, Times

\* What an operation works on after the expiry check is a record (31-34).
LEMMA CurrentTyped ==
  ASSUME SessionTypeOK, NEW c \in Codes
  PROVE  Current(c) \in Records
  BY BlankTyped DEF SessionTypeOK, Current

\* A code whose record is a live session has had a session created at it: used for
\* the pages that operations on a live session write to.
LEMMA ActiveHasLatest ==
  ASSUME SessionTypeOK, LatestBorn, NEW c \in Codes, Active(c)
  PROVE  latest[c] \in Sessions
  BY DEF LatestBorn, Active, Current, Blank, SessionTypeOK, Tokens, Sessions

\* Recording one page keeps the book's type.
LEMMA NoteTyped ==
  ASSUME SessionTypeOK, NEW s \in Sessions, NEW page \in Pages, Note(s, page)
  PROVE  book' \in [Sessions -> Pages]
  BY DEF SessionTypeOK, Note

\* What operations write on a page leaves it a page.
LEMMA HonourTyped ==
  ASSUME NEW page \in Pages, NEW pass \in Passes
  PROVE  Honour(page, pass) \in Pages
  BY DEF Pages, Honour

LEMMA HandOverTyped ==
  ASSUME SessionTypeOK, NEW s \in Sessions, NEW who, NEW value
  PROVE  HandOver(s, who, value) \in Pages
<1> DEFINE page == [book[s] EXCEPT !.handed = @ + 1]
<1>1. page \in Pages
  BY DEF SessionTypeOK, Pages
<1> HIDE DEF page
<1>2. [page EXCEPT !.strayed = TRUE] \in Pages
  BY <1>1 DEF Pages
<1>3. QED
  BY <1>1, <1>2 DEF HandOver, page

LEMMA StoreTyped ==
  ASSUME SessionTypeOK, NEW c \in Codes, NEW r \in Records, Store(c, r)
  PROVE  record' \in [Codes -> Records]
  BY DEF SessionTypeOK, Store

Typed == SessionTypeOK /\ LatestBorn

LEMMA TypedInit == Init => Typed
  BY BlankTyped DEF Init, Typed, SessionTypeOK, LatestBorn, Times, Tokens, Blank

LEMMA TypedStep == Typed /\ [Next]_vars => Typed'
<1> SUFFICES ASSUME Typed, [Next]_vars PROVE Typed'
  OBVIOUS
<1> USE DEF Typed
<1>1. CASE Tick
  BY <1>1 DEF Tick, SessionTypeOK, LatestBorn, Times
<1>2. ASSUME NEW c \in Codes, NEW client \in Clients, NEW inst \in Callers, NEW ttl \in TTLs,
             Create(c, client, inst, ttl)
      PROVE  Typed'
  <2> DEFINE s == born + 1
             page == [Blotter EXCEPT !.client = client, !.inst = inst, !.deadline = now + ttl]
  <2>1. s \in Sessions /\ s \in Tokens /\ now + ttl \in Times
    BY <1>2 DEF Create, SessionTypeOK, Sessions, Tokens, Times
  <2>2. Fresh(s, client, inst, now + ttl) \in Records
    BY <2>1, BlankTyped DEF Fresh, Capability, Blank, Records, Tokens, Times, Callers
  <2>3. page \in Pages
    BY <2>1, BlankTyped DEF Blotter, Pages
  <2>4. record' \in [Codes -> Records] /\ book' \in [Sessions -> Pages]
    BY <1>2, <2>1, <2>2, <2>3, StoreTyped, NoteTyped DEF Create
  <2>5. QED
    BY <1>2, <2>1, <2>4 DEF Create, Arm, SetAlarm, SessionTypeOK, LatestBorn, Store, Sessions
<1>3. ASSUME NEW c \in Codes, Gone(c) PROVE Typed'
  BY <1>3, CurrentTyped, StoreTyped DEF Gone, SessionTypeOK, LatestBorn, Store, Current, Blank
<1>4. ASSUME NEW c \in Codes, NEW pass \in Passes, EntryRefused(c, pass) PROVE Typed'
  <2> DEFINE s == latest[c]
             page == [book[s] EXCEPT !.wrong =
                        IF Current(c).entry # 0 /\ @ < MaxFailures THEN @ + 1 ELSE @]
  <2>1. s \in Sessions /\ Current(c) \in Records
    BY <1>4, ActiveHasLatest, CurrentTyped DEF EntryRefused
  <2>2. Count(Current(c)) \in Records
    BY <2>1 DEF Count, Records
  <2>3. page \in Pages
    BY <2>1 DEF Pages, SessionTypeOK
  <2>4. record' \in [Codes -> Records] /\ book' \in [Sessions -> Pages]
    BY <1>4, <2>1, <2>2, <2>3, StoreTyped, NoteTyped DEF EntryRefused
  <2>5. QED
    BY <1>4, <2>1, <2>4 DEF EntryRefused, SessionTypeOK, LatestBorn, Store, Sessions
<1>5. ASSUME NEW c \in Codes, NEW pass \in Passes, Form(c, pass) PROVE Typed'
  <2> DEFINE s == latest[c]
  <2>1. s \in Sessions
    BY <1>5, ActiveHasLatest DEF Form
  <2>2. Honour(book[s], pass) \in Pages
    BY <2>1, HonourTyped DEF SessionTypeOK
  <2>3. QED
    BY <1>5, <2>1, <2>2, NoteTyped DEF Form, SessionTypeOK, LatestBorn
<1>6. ASSUME NEW c \in Codes, NEW pass \in Passes, NEW value \in Values, NEW ttl \in TTLs,
             Submit(c, pass, value, ttl)
      PROVE  Typed'
  <2> DEFINE s == latest[c]
             deadline == Deadline(Current(c), ttl)
             honoured == Honour(book[s], pass)
             page == [honoured EXCEPT !.accepted = @ + 1, !.value = value,
                                                   !.deadline = deadline]
  <2>1. s \in Sessions /\ Current(c) \in Records
    BY <1>6, ActiveHasLatest, CurrentTyped DEF Submit
  <2>2. deadline \in Times
    BY <1>6, <2>1 DEF Submit, Deadline, Records, Times, SessionTypeOK
  <2>3. [Current(c) EXCEPT !.status = "ready", !.value = value, !.expiresAt = deadline]
          \in Records
    BY <2>1, <2>2 DEF Records
  <2>4. page \in Pages
    <3>1. honoured \in Pages
      BY <2>1, HonourTyped DEF SessionTypeOK
    <3>2. value \in Values \cup {NoValue} /\ honoured.accepted + 1 \in Nat
      BY <3>1 DEF Pages
    <3> HIDE DEF honoured, deadline
    <3>3. QED
      BY <2>2, <3>1, <3>2 DEF Pages
  <2>5. record' \in [Codes -> Records] /\ book' \in [Sessions -> Pages]
    BY <1>6, <2>1, <2>3, <2>4, StoreTyped, NoteTyped DEF Submit
  <2>6. QED
    BY <1>6, <2>1, <2>2, <2>5 DEF Submit, SetAlarm, SessionTypeOK, LatestBorn, Store, Sessions
<1>7. ASSUME NEW c \in Codes, NEW client \in Clients, NEW inst \in Callers, NEW key \in Tokens,
             Consume(c, [client |-> client, inst |-> inst, key |-> key])
      PROVE  Typed'
  <2> DEFINE s == latest[c]
             who == [client |-> client, inst |-> inst, key |-> key]
             page == HandOver(s, who, Current(c).value)
  <2>1. s \in Sessions /\ Current(c) \in Records
    BY <1>7, ActiveHasLatest, CurrentTyped DEF Consume
  <2>2. Tombstone(Current(c)) \in Records
    BY <2>1, BlankTyped DEF Tombstone, Blank, Records
  <2>3. page \in Pages
    BY <2>1, HandOverTyped
  <2>4. record' \in [Codes -> Records] /\ book' \in [Sessions -> Pages]
    BY <1>7, <2>1, <2>2, <2>3, StoreTyped, NoteTyped DEF Consume
  <2>5. QED
    BY <1>7, <2>1, <2>4 DEF Consume, SessionTypeOK, LatestBorn, Store, Sessions
<1>8. ASSUME NEW c \in Codes, AlarmGoesOff(c) PROVE Typed'
  BY <1>8 DEF AlarmGoesOff, SetAlarm, SessionTypeOK, LatestBorn, Times
<1>9. ASSUME NEW c \in Codes, NEW again \in BOOLEAN, RunAlarm(c, again) PROVE Typed'
  <2>1. record[c].expiresAt \in Times
    BY DEF SessionTypeOK, Records
  <2>2. CASE Outlived(record[c])
    BY <1>9, <2>1, <2>2 DEF RunAlarm, SetAlarm, SessionTypeOK, LatestBorn
  <2>3. CASE ~Outlived(record[c])
    <3>1. record' \in [Codes -> Records]
      BY <1>9, <2>3, BlankTyped, StoreTyped DEF RunAlarm
    <3>2. LatestBorn'
      BY <1>9, <2>3 DEF RunAlarm, Store, SessionTypeOK, LatestBorn, Blank, Sessions
    <3>3. QED
      BY <1>9, <2>3, <3>1, <3>2 DEF RunAlarm, SessionTypeOK
  <2>4. QED
    BY <2>2, <2>3
<1>10. CASE UNCHANGED vars
  BY <1>10 DEF vars, SessionTypeOK, LatestBorn
<1>11. QED
  BY <1>1, <1>2, <1>3, <1>4, <1>5, <1>6, <1>7, <1>8, <1>9, <1>10
     DEF Next, CreateOccupied, QrRefused, AlreadyReady, ConsumeRefused, ConsumeWaiting

\* Whatever is called in whatever order, records, alarms and history keep their types:
\* no counter passes its limit and no deadline its bound.
THEOREM SessionTypeCorrect == Spec => []SessionTypeOK
<1>1. Spec => []Typed
  BY TypedInit, TypedStep, PTL DEF Spec
<1>2. QED
  BY <1>1, PTL DEF Typed

-----------------------------------------------------------------------------
(* The record at a code and the page of its session stay in step *)

IInv == SessionTypeOK /\ SessionInv

LEMMA InvInit == Init => IInv
<1> SUFFICES ASSUME Init PROVE IInv
  OBVIOUS
<1>1. SessionTypeOK
  BY TypedInit DEF Typed
<1>2. QED
  BY <1>1 DEF Init, IInv, SessionInv, UnbornBlank, LatestBorn, OneCodeEach, Sound, Blotter, Blank

LEMMA InvTyped == IInv /\ [Next]_vars => Typed /\ SessionTypeOK' /\ LatestBorn'
  BY TypedStep DEF IInv, SessionInv, Typed

\* An operation on the live session of one code leaves the others as they were.
LEMMA StepAt ==
  ASSUME IInv, SessionTypeOK', LatestBorn', NEW c \in Codes, NEW r, NEW page,
         latest[c] \in Sessions, Store(c, r), Note(latest[c], page),
         UNCHANGED <<now, born, latest>>,
         Matched(r, latest[c], page, now), Sound(page)
  PROVE  IInv'
<1>1. OneCodeEach' /\ UnbornBlank'
  BY DEF IInv, SessionInv, OneCodeEach, UnbornBlank, SessionTypeOK, Note, Tokens, Sessions
<1>2. ASSUME NEW d \in Codes, latest[d] # 0
      PROVE  Matched(record'[d], latest[d], book'[latest[d]], now)
  <2>1. CASE d = c
    BY <2>1 DEF Store, Note, IInv, SessionTypeOK
  <2>2. CASE d # c
    <3>1. latest[d] # latest[c]
      BY <1>2, <2>2 DEF IInv, SessionInv, OneCodeEach
    <3>2. record'[d] = record[d] /\ book'[latest[d]] = book[latest[d]]
      BY <1>2, <2>2, <3>1 DEF Store, Note, IInv, SessionTypeOK, Sessions, Tokens
    <3>3. QED
      BY <1>2, <3>2 DEF IInv, SessionInv
  <2>3. QED
    BY <2>1, <2>2
<1>3. ASSUME NEW s \in Sessions PROVE Sound(book'[s])
  BY DEF Note, IInv, SessionInv, SessionTypeOK
<1>4. QED
  BY <1>1, <1>2, <1>3 DEF IInv, SessionInv

\* The page and the record of a code that holds a live session.
LEMMA LiveFacts ==
  ASSUME IInv, NEW c \in Codes, Active(c)
  PROVE  /\ latest[c] \in Sessions
         /\ Current(c) = record[c] /\ record[c] \in Records
         /\ book[latest[c]] \in Pages
         /\ record[c].status \in {"waiting", "ready"} /\ record[c].expiresAt > now
         /\ Matched(record[c], latest[c], book[latest[c]], now)
         /\ Sound(book[latest[c]])
<1>1. latest[c] \in Sessions
  BY ActiveHasLatest DEF IInv, SessionInv
<1>2. Current(c) = record[c] /\ record[c].status \in {"waiting", "ready"} /\ ~Expired(record[c])
  BY DEF Active, Current, Blank
<1>3. record[c] \in Records /\ book[latest[c]] \in Pages /\ now \in Nat
  BY <1>1 DEF IInv, SessionTypeOK, Times
<1>4. record[c].expiresAt > now
  BY <1>2, <1>3 DEF Expired, Records, Times
<1>5. QED
  BY <1>1, <1>2, <1>3, <1>4 DEF IInv, SessionInv, Sessions

\* A rejected code is counted in the record as it is in the history.
LEMMA CountKeeps ==
  ASSUME NEW r \in Records, NEW s \in Sessions, NEW p \in Pages, NEW t \in Times,
         r.status \in {"waiting", "ready"}, Matched(r, s, p, t), Sound(p)
  PROVE  LET q == [p EXCEPT !.wrong = IF r.entry # 0 /\ @ < MaxFailures THEN @ + 1 ELSE @]
         IN Matched(Count(r), s, q, t) /\ Sound(q)
<1>1. p.wrong \in Nat /\ r.failures \in Nat
  BY DEF Records, Pages
<1>2. CASE r.entry # 0 /\ r.failures < MaxFailures
  BY <1>1, <1>2 DEF Count, Matched, Sound, Records, Pages
<1>3. CASE ~(r.entry # 0 /\ r.failures < MaxFailures)
  BY <1>1, <1>3 DEF Count, Matched, Sound, Records, Pages
<1>4. QED
  BY <1>2, <1>3

\* A pass that is admitted is never a manual code beyond the limit.
LEMMA AdmittedInTime ==
  ASSUME NEW r \in Records, NEW s \in Sessions, NEW p \in Pages, NEW t \in Times,
         r.status \in {"waiting", "ready"}, Matched(r, s, p, t),
         NEW pass \in Passes, Admits(r, pass)
  PROVE  Honour(p, pass) = p
  BY DEF Admits, ManualOpens, QrOpens, Matched, Honour, Records, Pages

\* Reading or removing a record whose time is over changes nothing that matters.
LEMMA DropExpired ==
  ASSUME IInv, SessionTypeOK', NEW c \in Codes, Store(c, Blank),
         record[c].status = "absent" \/ record[c].expiresAt <= now,
         UNCHANGED <<now, born, latest, book>>
  PROVE  IInv'
<1>1. OneCodeEach' /\ LatestBorn' /\ UnbornBlank'
  BY DEF IInv, SessionInv, UnbornBlank, OneCodeEach, LatestBorn, Store, SessionTypeOK, Blank
<1>2. ASSUME NEW d \in Codes, latest[d] # 0
      PROVE  Matched(record'[d], latest[d], book[latest[d]], now)
  <2>1. CASE d = c
    <3>1. Matched(record[c], latest[c], book[latest[c]], now)
      BY <1>2, <2>1 DEF IInv, SessionInv
    <3>2. book[latest[c]].deadline <= now
      BY <3>1 DEF Matched
    <3>3. record'[c] = Blank
      BY DEF Store, IInv, SessionTypeOK
    <3>4. QED
      BY <2>1, <3>2, <3>3 DEF Matched, Blank
  <2>2. CASE d # c
    BY <1>2, <2>2 DEF Store, IInv, SessionInv, SessionTypeOK
  <2>3. QED
    BY <2>1, <2>2
<1>3. QED
  BY <1>1, <1>2 DEF IInv, SessionInv

LEMMA InvStep == IInv /\ [Next]_vars => IInv'
<1> SUFFICES ASSUME IInv, [Next]_vars PROVE IInv'
  OBVIOUS
<1>0. SessionTypeOK /\ SessionTypeOK' /\ LatestBorn'
  BY InvTyped DEF Typed
<1>1. CASE Tick
  <2>1. now' >= now /\ now \in Nat /\ now' \in Nat
    BY <1>0, <1>1 DEF Tick, SessionTypeOK, Times
  <2>2. ASSUME NEW d \in Codes, latest[d] # 0
        PROVE  Matched(record[d], latest[d], book[latest[d]], now')
    <3>1. book[latest[d]] \in Pages
      BY <1>0, <2>2 DEF SessionTypeOK, Tokens, Sessions
    <3>2. book[latest[d]].deadline \in Nat
      BY <3>1 DEF Pages, Times
    <3>3. QED
      BY <2>1, <2>2, <3>2 DEF IInv, SessionInv, Matched
  <2>3. QED
    BY <1>0, <1>1, <2>2 DEF Tick, IInv, SessionInv, OneCodeEach, UnbornBlank
<1>2. ASSUME NEW c \in Codes, NEW client \in Clients, NEW inst \in Callers, NEW ttl \in TTLs,
             Create(c, client, inst, ttl)
      PROVE  IInv'
  <2> DEFINE s == born + 1
             fresh == Fresh(s, client, inst, now + ttl)
             page == [Blotter EXCEPT !.client = client, !.inst = inst, !.deadline = now + ttl]
  <2>1. s \in Sessions /\ born \in Nat /\ now + ttl \in Nat
    BY <1>0, <1>2 DEF Create, SessionTypeOK, Sessions, Tokens, Times
  <2>2. /\ record' = [record EXCEPT ![c] = fresh] /\ latest' = [latest EXCEPT ![c] = s]
        /\ book' = [book EXCEPT ![s] = page] /\ now' = now /\ born' = born + 1
    BY <1>2 DEF Create, Store, Note
  <2>3. Matched(fresh, s, page, now) /\ Sound(page)
    BY DEF Fresh, Capability, Blank, Blotter, Matched, Sound
  <2> HIDE DEF fresh, page
  <2>4. OneCodeEach' /\ UnbornBlank'
    BY <1>0, <2>1, <2>2 DEF IInv, SessionInv, OneCodeEach, UnbornBlank, SessionTypeOK, Tokens, Sessions
  <2>5. ASSUME NEW d \in Codes, latest'[d] # 0
        PROVE  Matched(record'[d], latest'[d], book'[latest'[d]], now)
    <3>1. CASE d = c
      BY <1>0, <2>1, <2>2, <2>3, <3>1 DEF SessionTypeOK
    <3>2. CASE d # c
      <4>1. latest[d] # s /\ latest[d] # 0 /\ latest[d] \in Sessions
        BY <1>0, <2>1, <2>2, <2>5, <3>2 DEF IInv, SessionInv, OneCodeEach, SessionTypeOK, Tokens, Sessions
      <4>2. record'[d] = record[d] /\ latest'[d] = latest[d] /\ book'[latest[d]] = book[latest[d]]
        BY <1>0, <2>1, <2>2, <3>2, <4>1 DEF SessionTypeOK
      <4>3. QED
        BY <4>1, <4>2 DEF IInv, SessionInv
    <3>3. QED
      BY <3>1, <3>2
  <2>6. ASSUME NEW q \in Sessions PROVE Sound(book'[q])
    BY <1>0, <2>2, <2>3 DEF IInv, SessionInv, SessionTypeOK
  <2>7. QED
    BY <1>0, <2>2, <2>4, <2>5, <2>6 DEF IInv, SessionInv
<1>3. ASSUME NEW c \in Codes, Gone(c) PROVE IInv'
  <2>1. CASE Current(c) = Blank /\ (record[c].status = "absent" \/ record[c].expiresAt <= now)
    BY <1>0, <1>3, <2>1, DropExpired DEF Gone
  <2>2. CASE Current(c) = record[c]
    <3>1. UNCHANGED vars
      BY <1>0, <1>3, <2>2 DEF Gone, Store, vars, SessionTypeOK
    <3>2. QED
      BY <3>1 DEF vars, IInv, SessionTypeOK, SessionInv, LatestBorn, OneCodeEach, UnbornBlank
  <2>3. QED
    BY <2>1, <2>2 DEF Current, Expired
<1>4. ASSUME NEW c \in Codes, NEW pass \in Passes, EntryRefused(c, pass) PROVE IInv'
  <2>1. Active(c)
    BY <1>4 DEF EntryRefused
  <2> DEFINE s == latest[c]
             page == [book[s] EXCEPT !.wrong =
                        IF record[c].entry # 0 /\ @ < MaxFailures THEN @ + 1 ELSE @]
  <2>2. Matched(Count(record[c]), s, page, now) /\ Sound(page)
    BY <1>0, <2>1, LiveFacts, CountKeeps DEF SessionTypeOK
  <2>3. Store(c, Count(record[c])) /\ Note(s, page) /\ UNCHANGED <<now, born, latest>>
    BY <1>4, <2>1, LiveFacts DEF EntryRefused
  <2> HIDE DEF page
  <2>4. QED
    BY <1>0, <2>1, <2>2, <2>3, LiveFacts, StepAt
<1>5. ASSUME NEW c \in Codes, NEW pass \in Passes, Form(c, pass) PROVE IInv'
  <2>1. Active(c) /\ Admits(record[c], pass)
    BY <1>5, LiveFacts DEF Form
  <2> DEFINE s == latest[c]
  <2>2. Honour(book[s], pass) = book[s]
    BY <1>0, <2>1, LiveFacts, AdmittedInTime DEF SessionTypeOK
  <2>3. Store(c, record[c]) /\ Note(s, book[s]) /\ UNCHANGED <<now, born, latest>>
    BY <1>0, <1>5, <2>2 DEF Form, Store, SessionTypeOK
  <2>4. QED
    BY <1>0, <2>1, <2>3, LiveFacts, StepAt
<1>6. ASSUME NEW c \in Codes, NEW pass \in Passes, NEW value \in Values, NEW ttl \in TTLs,
             Submit(c, pass, value, ttl)
      PROVE  IInv'
  <2>1. Active(c)
    BY <1>6 DEF Submit
  <2>2. Admits(record[c], pass) /\ record[c].status = "waiting"
    BY <1>6, <2>1, LiveFacts DEF Submit, OpenForValue
  <2> DEFINE s == latest[c]
             deadline == Deadline(record[c], ttl)
             r == [record[c] EXCEPT !.status = "ready", !.value = value, !.expiresAt = deadline]
             page == [book[s] EXCEPT !.accepted = @ + 1, !.value = value, !.deadline = deadline]
  <2>3. Honour(book[s], pass) = book[s]
    BY <1>0, <2>1, <2>2, LiveFacts, AdmittedInTime DEF SessionTypeOK
  <2>4. Store(c, r) /\ Note(s, page) /\ UNCHANGED <<now, born, latest>>
    BY <1>6, <2>1, <2>3, LiveFacts DEF Submit
  <2>5. Matched(r, s, page, now) /\ Sound(page)
    <3>1. record[c] \in Records /\ book[s] \in Pages
      BY <2>1, LiveFacts
    <3>2. Matched(record[c], s, book[s], now) /\ Sound(book[s])
      BY <2>1, LiveFacts
    <3> HIDE DEF deadline
    <3>3. QED
      BY <2>2, <3>1, <3>2 DEF Matched, Sound, Records, Pages
  <2> HIDE DEF r, page
  <2>6. QED
    BY <1>0, <2>1, <2>4, <2>5, LiveFacts, StepAt
<1>7. ASSUME NEW c \in Codes, NEW client \in Clients, NEW inst \in Callers, NEW key \in Tokens,
             Consume(c, [client |-> client, inst |-> inst, key |-> key])
      PROVE  IInv'
  <2> DEFINE s == latest[c]
             who == [client |-> client, inst |-> inst, key |-> key]
             page == [book[s] EXCEPT !.handed = @ + 1]
  <2>1. Active(c)
    BY <1>7 DEF Consume
  <2>2. Owns(record[c], who) /\ record[c].status = "ready"
    BY <1>7, <2>1, LiveFacts DEF Consume
  <2>3. record[c] \in Records /\ book[s] \in Pages /\ s \in Sessions
    BY <2>1, LiveFacts
  <2>4. Matched(record[c], s, book[s], now) /\ Sound(book[s])
    BY <2>1, LiveFacts
  <2>5. Rightful(s, who, record[c].value)
    BY <2>2, <2>3, <2>4 DEF Rightful, Owns, Matched, Capability, Sessions
  <2>6. Store(c, Tombstone(record[c])) /\ Note(s, page) /\ UNCHANGED <<now, born, latest>>
    BY <1>7, <2>1, <2>5, LiveFacts DEF Consume, HandOver
  <2>7. Matched(Tombstone(record[c]), s, page, now) /\ Sound(page)
    BY <2>2, <2>3, <2>4 DEF Tombstone, Blank, Matched, Sound, Records, Pages
  <2> HIDE DEF page
  <2>8. QED
    BY <1>0, <2>3, <2>6, <2>7, StepAt
<1>8. ASSUME NEW c \in Codes, AlarmGoesOff(c) PROVE IInv'
  BY <1>0, <1>8 DEF AlarmGoesOff, IInv, SessionInv, LatestBorn, OneCodeEach, UnbornBlank
<1>9. ASSUME NEW c \in Codes, NEW again \in BOOLEAN, RunAlarm(c, again) PROVE IInv'
  <2>1. CASE Outlived(record[c])
    BY <1>0, <1>9, <2>1 DEF RunAlarm, IInv, SessionInv, LatestBorn, OneCodeEach, UnbornBlank
  <2>2. CASE ~Outlived(record[c])
    <3>1. record[c].status = "absent" \/ record[c].expiresAt <= now
      BY <1>0, <2>2 DEF Outlived, SessionTypeOK, Records, Times
    <3>2. QED
      BY <1>0, <1>9, <2>2, <3>1, DropExpired DEF RunAlarm
  <2>3. QED
    BY <2>1, <2>2
<1>10. CASE UNCHANGED vars
  BY <1>0, <1>10 DEF vars, IInv, SessionInv, LatestBorn, OneCodeEach, UnbornBlank
<1>11. QED
  BY <1>1, <1>2, <1>3, <1>4, <1>5, <1>6, <1>7, <1>8, <1>9, <1>10
     DEF Next, CreateOccupied, QrRefused, AlreadyReady, ConsumeRefused, ConsumeWaiting

\* In every reachable state each record is what its history page says it is.
THEOREM SessionInvariant == Spec => []IInv
  BY InvInit, InvStep, PTL DEF Spec

-----------------------------------------------------------------------------
(* What follows at once *)

\* One submission at most is accepted, and its value is given out by /consume at most
\* once, to the owner and installation it is for, out of its own session.
THEOREM OneInOneOut == Spec => []OnceInOnceOut
<1>1. IInv => OnceInOnceOut
  BY DEF IInv, SessionInv, Sound, OnceInOnceOut, SessionTypeOK, Pages
<1>2. QED
  BY <1>1, SessionInvariant, PTL

\* No manual code is honoured once MaxFailures of them were rejected.
THEOREM LockoutIsFinal == Spec => []LockoutHolds
<1>1. IInv => LockoutHolds
  BY DEF IInv, SessionInv, Sound, LockoutHolds
<1>2. QED
  BY <1>1, SessionInvariant, PTL

\* An installation's code opens to its present session's capabilities and to no other.
THEOREM KeysAreTheSessions == Spec => []KeysOpenOnlyTheirSession
<1>1. IInv => KeysOpenOnlyTheirSession
  <2> SUFFICES ASSUME IInv, NEW c \in Codes, Active(c), Current(c).inst # NoInst,
                      NEW pass \in Passes
               PROVE  Admits(Current(c), pass) <=>
                        /\ pass.key = latest[c]
                        /\ pass.path = "manual" => book[latest[c]].wrong < MaxFailures
    BY DEF KeysOpenOnlyTheirSession
  <2>1. Matched(record[c], latest[c], book[latest[c]], now) /\ Current(c) = record[c]
        /\ record[c].status \in {"waiting", "ready"} /\ latest[c] \in Sessions
    BY LiveFacts
  <2>2. pass.path \in {"qr", "manual"}
    BY DEF Passes
  <2>3. QED
    BY <2>1, <2>2 DEF Matched, Capability, Admits, ManualOpens, QrOpens, Sessions
<1>2. QED
  BY <1>1, SessionInvariant, PTL

-----------------------------------------------------------------------------
(* What no step may do *)

\* Only a creation gives a code a new session, and it finds the code free.
LEMMA OnlyCreateReuses ==
  ASSUME IInv, Next, NEW c \in Codes, latest'[c] # latest[c], latest[c] # 0
  PROVE  book[latest[c]].deadline <= now
<1>0. ASSUME NEW d \in Codes,
             \/ CreateOccupied(d) \/ Gone(d) \/ AlarmGoesOff(d)
             \/ \E again \in BOOLEAN : RunAlarm(d, again)
             \/ \E pass \in Passes :
                  \/ EntryRefused(d, pass) \/ QrRefused(d, pass)
                  \/ Form(d, pass) \/ AlreadyReady(d, pass)
                  \/ \E value \in Values, ttl \in TTLs : Submit(d, pass, value, ttl)
             \/ \E who : ConsumeRefused(d, who) \/ ConsumeWaiting(d, who) \/ Consume(d, who)
      PROVE  latest' = latest
  BY <1>0 DEF CreateOccupied, Gone, EntryRefused, QrRefused, Form, AlreadyReady, Submit,
              ConsumeRefused, ConsumeWaiting, Consume, AlarmGoesOff, RunAlarm, vars
<1>1. PICK d \in Codes, client \in Clients, inst \in Callers, ttl \in TTLs :
        Create(d, client, inst, ttl)
  <2>1. ~Tick
    BY DEF Tick
  <2>2. QED
    BY <1>0, <2>1 DEF Next
<1>2. d = c /\ Free(c)
  BY <1>1 DEF Create, IInv, SessionTypeOK
<1>3. record[c].status = "absent" \/ record[c].expiresAt <= now
  BY <1>2 DEF Free, Current, Expired
<1>4. Matched(record[c], latest[c], book[latest[c]], now)
  BY DEF IInv, SessionInv
<1>5. QED
  BY <1>3, <1>4 DEF Matched

\* What a step can change of the page of a session, and when.
LEMMA PageChanges ==
  ASSUME IInv, Next, NEW s \in Sessions
  PROVE  /\ book'[s].handed # book[s].handed \/ book'[s].accepted # book[s].accepted
              => now < book[s].deadline
         /\ s <= born /\ book[s].inst # NoInst => book'[s].deadline = book[s].deadline
         /\ s <= born /\ book[s].deadline <= now => book'[s] = book[s]
<1> SUFFICES ASSUME book'[s] # book[s]
             PROVE  \/ s > born /\ book'[s].handed = 0 /\ book'[s].accepted = 0
                    \/ /\ now < book[s].deadline
                       /\ book[s].inst # NoInst => book'[s].deadline = book[s].deadline
  BY DEF IInv, SessionInv, UnbornBlank, Blotter, SessionTypeOK, Tokens, Sessions, Pages, Times
<1> USE DEF IInv
<1>0. book[s] \in Pages /\ born \in Nat /\ now \in Nat
  BY DEF SessionTypeOK, Tokens, Times
<1>2. ASSUME NEW c \in Codes, NEW client \in Clients, NEW inst \in Callers, NEW ttl \in TTLs,
             Create(c, client, inst, ttl)
      PROVE  s > born /\ book'[s].handed = 0 /\ book'[s].accepted = 0
  BY <1>0, <1>2 DEF Create, Note, SessionTypeOK, Sessions, Blotter
<1>3. ASSUME NEW c \in Codes, Active(c), NEW page, Note(latest[c], page)
      PROVE  /\ s = latest[c] /\ book'[s] = page /\ now < book[s].deadline
             /\ book[s].inst = Current(c).inst /\ book[s].deadline = Current(c).expiresAt
             /\ Current(c) \in Records
  <2>1. s = latest[c] /\ book'[s] = page
    BY <1>3 DEF Note, SessionTypeOK
  <2>2. QED
    BY <1>3, <2>1, LiveFacts DEF Matched
<1>4. ASSUME NEW c \in Codes, NEW pass \in Passes, EntryRefused(c, pass)
      PROVE  now < book[s].deadline /\ book'[s].deadline = book[s].deadline
  <2> DEFINE page == [book[latest[c]] EXCEPT !.wrong =
                        IF Current(c).entry # 0 /\ @ < MaxFailures THEN @ + 1 ELSE @]
  <2>1. Active(c) /\ Note(latest[c], page)
    BY <1>4 DEF EntryRefused
  <2>2. s = latest[c] /\ book'[s] = page /\ now < book[s].deadline
    BY <1>3, <1>4, <2>1
  <2>3. QED
    BY <1>0, <2>2 DEF Pages
<1>5. ASSUME NEW c \in Codes, NEW pass \in Passes, Form(c, pass)
      PROVE  now < book[s].deadline /\ book'[s].deadline = book[s].deadline
  <2>1. Active(c) /\ Note(latest[c], Honour(book[latest[c]], pass))
    BY <1>5 DEF Form
  <2>2. s = latest[c] /\ book'[s] = Honour(book[s], pass) /\ now < book[s].deadline
    BY <1>3, <1>5, <2>1
  <2>3. QED
    BY <1>0, <2>2 DEF Pages, Honour
<1>6. ASSUME NEW c \in Codes, NEW pass \in Passes, NEW value \in Values, NEW ttl \in TTLs,
             Submit(c, pass, value, ttl)
      PROVE  /\ now < book[s].deadline
             /\ book[s].inst # NoInst => book'[s].deadline = book[s].deadline
  <2> DEFINE deadline == Deadline(Current(c), ttl)
             page == [Honour(book[latest[c]], pass) EXCEPT !.accepted = @ + 1,
                        !.value = value, !.deadline = deadline]
  <2>1. Active(c) /\ Note(latest[c], page)
    BY <1>6 DEF Submit
  <2>2. /\ s = latest[c] /\ book'[s] = page /\ now < book[s].deadline
        /\ book[s].inst = Current(c).inst /\ book[s].deadline = Current(c).expiresAt
    BY <1>3, <1>6, <2>1
  <2>3. Honour(book[s], pass) \in Pages
    BY <1>0, HonourTyped
  <2>4. book'[s].deadline = deadline
    BY <2>2, <2>3 DEF Pages
  <2>5. QED
    BY <2>2, <2>4 DEF Deadline
<1>7. ASSUME NEW c \in Codes, NEW who, Consume(c, who)
      PROVE  now < book[s].deadline /\ book'[s].deadline = book[s].deadline
  <2> DEFINE page == HandOver(latest[c], who, Current(c).value)
  <2>1. Active(c) /\ Note(latest[c], page)
    BY <1>7 DEF Consume
  <2>2. s = latest[c] /\ book'[s] = page /\ now < book[s].deadline
    BY <1>3, <1>7, <2>1
  <2>3. QED
    BY <1>0, <2>2 DEF Pages, HandOver
<1>8. ASSUME NEW c \in Codes,
             \/ CreateOccupied(c) \/ Gone(c) \/ AlarmGoesOff(c)
             \/ \E again \in BOOLEAN : RunAlarm(c, again)
             \/ \E pass \in Passes : QrRefused(c, pass) \/ AlreadyReady(c, pass)
             \/ \E who : ConsumeRefused(c, who) \/ ConsumeWaiting(c, who)
      PROVE  FALSE
  BY <1>8 DEF CreateOccupied, Gone, QrRefused, AlreadyReady, ConsumeRefused, ConsumeWaiting,
              AlarmGoesOff, RunAlarm, vars
<1>9. ~Tick
  BY DEF Tick
<1>10. QED
  BY <1>2, <1>4, <1>5, <1>6, <1>7, <1>8, <1>9 DEF Next

\* From its deadline on a session neither takes a value in nor gives one out, whether
\* or not its alarm has run; and the deadline of an installation session is fixed when
\* it is created.
THEOREM NothingHappensLate == Spec => NothingAfterDeadline
<1>1. IInv /\ [Next]_vars =>
        [\A s \in Sessions :
           /\ book'[s].handed # book[s].handed \/ (book'[s].accepted # book[s].accepted)
                => now < book[s].deadline
           /\ s <= born /\ book[s].inst # NoInst => book'[s].deadline = book[s].deadline]_vars
  <2>1. ASSUME IInv, NEW s \in Sessions, Next,
               book'[s].handed # book[s].handed \/ book'[s].accepted # book[s].accepted
        PROVE  now < book[s].deadline
    BY <2>1, PageChanges
  <2>2. ASSUME IInv, NEW s \in Sessions, Next, s <= born /\ book[s].inst # NoInst
        PROVE  book'[s].deadline = book[s].deadline
    BY <2>2, PageChanges
  <2>3. QED
    BY <2>1, <2>2
<1>2. QED
  BY <1>1, SessionInvariant, PTL DEF Spec, NothingAfterDeadline

\* Every operation leaves a record's status in place unless its time is over.
LEMMA OnlyExpiredErased ==
  ASSUME IInv, Next, NEW c \in Codes, record[c].status # "absent", record'[c].status = "absent"
  PROVE  record[c].expiresAt <= now
<1> USE DEF IInv, SessionTypeOK
<1>1. ASSUME NEW d \in Codes, NEW r, Store(d, r), c = d => r.status # "absent"
      PROVE  FALSE
  BY <1>1 DEF Store
<1>2. ASSUME NEW d \in Codes, NEW client \in Clients, NEW inst \in Callers, NEW ttl \in TTLs,
             Create(d, client, inst, ttl)
      PROVE  FALSE
  BY <1>1, <1>2 DEF Create, Fresh, Blank
<1>3. ASSUME NEW d \in Codes, Gone(d) PROVE record[c].expiresAt <= now
  BY <1>1, <1>3 DEF Gone, Current, Expired
<1>4. ASSUME NEW d \in Codes, NEW pass \in Passes, EntryRefused(d, pass) PROVE FALSE
  <2>1. Count(record[d]).status # "absent"
    BY <1>4, LiveFacts DEF EntryRefused, Count, Records
  <2>2. QED
    BY <1>1, <1>4, <2>1, LiveFacts DEF EntryRefused
<1>5. ASSUME NEW d \in Codes, NEW pass \in Passes, NEW value \in Values, NEW ttl \in TTLs,
             Submit(d, pass, value, ttl)
      PROVE  FALSE
  <2> DEFINE r == [record[d] EXCEPT !.status = "ready", !.value = value,
                                    !.expiresAt = Deadline(record[d], ttl)]
  <2>1. r.status # "absent"
    BY <1>5, LiveFacts DEF Submit, Records
  <2>2. QED
    BY <1>1, <1>5, <2>1, LiveFacts DEF Submit
<1>6. ASSUME NEW d \in Codes, NEW who, Consume(d, who) PROVE FALSE
  BY <1>1, <1>6 DEF Consume, Tombstone, Blank
<1>7. ASSUME NEW d \in Codes, NEW again \in BOOLEAN, RunAlarm(d, again)
      PROVE  record[c].expiresAt <= now
  <2>1. record[c].expiresAt \in Nat /\ now \in Nat
    BY DEF Records, Times
  <2>2. QED
    BY <1>1, <1>7, <2>1 DEF RunAlarm, Outlived
<1>8. ASSUME NEW d \in Codes,
             \/ CreateOccupied(d) \/ AlarmGoesOff(d)
             \/ \E pass \in Passes : QrRefused(d, pass) \/ AlreadyReady(d, pass) \/ Form(d, pass)
             \/ \E who : ConsumeRefused(d, who) \/ ConsumeWaiting(d, who)
      PROVE  FALSE
  BY <1>8 DEF CreateOccupied, AlarmGoesOff, QrRefused, AlreadyReady, Form, ConsumeRefused,
              ConsumeWaiting, vars
<1>9. ~Tick
  BY DEF Tick
<1>10. QED
  BY <1>2, <1>3, <1>4, <1>5, <1>6, <1>7, <1>8, <1>9 DEF Next

\* Neither request nor alarm ends a session early: its code is not given away and its
\* record is not removed before its deadline (session.ts 36, 93, 104-109).
THEOREM SessionsLiveOut == Spec => NotEndedEarly
<1>1. IInv /\ [Next]_vars =>
        [\A c \in Codes :
           /\ latest'[c] # latest[c] /\ latest[c] # 0 => book[latest[c]].deadline <= now
           /\ record[c].status # "absent" /\ record'[c].status = "absent" =>
                record[c].expiresAt <= now]_vars
  BY OnlyCreateReuses, OnlyExpiredErased
<1>2. QED
  BY <1>1, SessionInvariant, PTL DEF Spec, NotEndedEarly

-----------------------------------------------------------------------------
(* Every stored record is covered by an alarm *)

LEMMA AlarmStep ==
  IInv /\ AlarmCoversRecord /\ [Next]_vars => AlarmCoversRecord'
<1> SUFFICES ASSUME IInv, AlarmCoversRecord, [Next]_vars, NEW c \in Codes,
                    record'[c].status # "absent", ~firing'[c]
             PROVE  alarm'[c] # 0 /\ alarm'[c] <= record'[c].expiresAt
  BY DEF AlarmCoversRecord
<1> USE DEF IInv, SessionTypeOK
<1>0. now \in Nat /\ TTLs \subseteq Nat \ {0} /\ record[c].expiresAt \in Nat
  BY DEF Records, Times
<1>1. ASSUME NEW d \in Codes, NEW r, Store(d, r), UNCHANGED <<alarm, firing>>,
             r.status # "absent" => record[d].status # "absent" /\ r.expiresAt = record[d].expiresAt
      PROVE  alarm'[c] # 0 /\ alarm'[c] <= record'[c].expiresAt
  BY <1>1 DEF Store, AlarmCoversRecord
<1>2. ASSUME NEW d \in Codes, NEW r, Store(d, r), SetAlarm(d, r.expiresAt), UNCHANGED firing,
             r.expiresAt \in Nat \ {0}
      PROVE  alarm'[c] # 0 /\ alarm'[c] <= record'[c].expiresAt
  BY <1>2 DEF Store, SetAlarm, AlarmCoversRecord
<1>3. CASE UNCHANGED <<record, alarm, firing>>
  BY <1>3 DEF AlarmCoversRecord
<1>4. ASSUME NEW d \in Codes, NEW client \in Clients, NEW inst \in Callers, NEW ttl \in TTLs,
             Create(d, client, inst, ttl)
      PROVE  alarm'[c] # 0 /\ alarm'[c] <= record'[c].expiresAt
  <2>1. Fresh(born + 1, client, inst, now + ttl).expiresAt = now + ttl
    BY DEF Fresh, Blank
  <2>2. now + ttl \in Nat \ {0}
    BY <1>0
  <2>3. QED
    BY <1>2, <1>4, <2>1, <2>2 DEF Create, Arm
<1>5. ASSUME NEW d \in Codes, Gone(d)
      PROVE  alarm'[c] # 0 /\ alarm'[c] <= record'[c].expiresAt
  BY <1>1, <1>5 DEF Gone, Current, Blank
<1>6. ASSUME NEW d \in Codes, NEW pass \in Passes, EntryRefused(d, pass)
      PROVE  alarm'[c] # 0 /\ alarm'[c] <= record'[c].expiresAt
  <2>1. Count(record[d]).expiresAt = record[d].expiresAt /\ record[d].status # "absent"
    BY <1>6, LiveFacts DEF EntryRefused, Count, Records
  <2>2. QED
    BY <1>1, <1>6, <2>1, LiveFacts DEF EntryRefused
<1>7. ASSUME NEW d \in Codes, NEW pass \in Passes, NEW value \in Values, NEW ttl \in TTLs,
             Submit(d, pass, value, ttl)
      PROVE  alarm'[c] # 0 /\ alarm'[c] <= record'[c].expiresAt
  <2> DEFINE deadline == Deadline(record[d], ttl)
             r == [record[d] EXCEPT !.status = "ready", !.value = value, !.expiresAt = deadline]
  <2>1. /\ record[d] \in Records /\ record[d].expiresAt > now
        /\ Store(d, r) /\ SetAlarm(d, deadline) /\ UNCHANGED firing
    BY <1>7, LiveFacts DEF Submit
  <2>2. deadline \in Nat \ {0} /\ r.expiresAt = deadline
    BY <1>0, <2>1 DEF Deadline, Records, Times
  <2> HIDE DEF deadline, r
  <2>3. QED
    BY <1>2, <2>1, <2>2
<1>8. ASSUME NEW d \in Codes, NEW who, Consume(d, who)
      PROVE  alarm'[c] # 0 /\ alarm'[c] <= record'[c].expiresAt
  <2>1. Tombstone(record[d]).expiresAt = record[d].expiresAt /\ record[d].status # "absent"
    BY <1>8, LiveFacts DEF Consume, Tombstone, Blank
  <2>2. QED
    BY <1>1, <1>8, <2>1, LiveFacts DEF Consume
<1>9. ASSUME NEW d \in Codes, AlarmGoesOff(d)
      PROVE  alarm'[c] # 0 /\ alarm'[c] <= record'[c].expiresAt
  BY <1>9 DEF AlarmGoesOff, SetAlarm, AlarmCoversRecord
<1>10. ASSUME NEW d \in Codes, NEW again \in BOOLEAN, RunAlarm(d, again)
      PROVE  alarm'[c] # 0 /\ alarm'[c] <= record'[c].expiresAt
  <2>1. CASE c = d
    BY <1>0, <1>10, <2>1 DEF RunAlarm, Outlived, SetAlarm, Store, Blank
  <2>2. CASE c # d
    BY <1>10, <2>2 DEF RunAlarm, SetAlarm, Store, AlarmCoversRecord
  <2>3. QED
    BY <2>1, <2>2
<1>11. ASSUME NEW d \in Codes,
             \/ CreateOccupied(d)
             \/ \E pass \in Passes : QrRefused(d, pass) \/ AlreadyReady(d, pass) \/ Form(d, pass)
             \/ \E who : ConsumeRefused(d, who) \/ ConsumeWaiting(d, who)
      PROVE  UNCHANGED <<record, alarm, firing>>
  BY <1>11 DEF CreateOccupied, QrRefused, AlreadyReady, Form, ConsumeRefused,
              ConsumeWaiting, vars
<1>12. Tick \/ UNCHANGED vars => UNCHANGED <<record, alarm, firing>>
  BY DEF Tick, vars
<1>13. QED
  BY <1>3, <1>4, <1>5, <1>6, <1>7, <1>8, <1>9, <1>10, <1>11, <1>12 DEF Next

\* A record with no alarm at or before its deadline never exists: what a session
\* holds is always on its way to being erased.
THEOREM RecordsAreCovered == Spec => []AlarmCoversRecord
<1>1. Init => AlarmCoversRecord
  BY DEF Init, AlarmCoversRecord, Blank
<1>2. QED
  BY <1>1, AlarmStep, SessionInvariant, PTL DEF Spec

-----------------------------------------------------------------------------
(* The session store implements SwopHandoff *)

Live(c) == Current(c).status # "absent"

\* The abstract state as a function of the concrete one.
Stage == [s \in Sessions |-> StageOf(s)]
Tenant == [c \in Codes |-> IF Current(c).status = "absent" THEN 0 ELSE latest[c]]
Offered == [s \in Sessions |-> book[s].value]
HandedOut == [s \in Sessions |-> book[s].handed]

\* How far a session has come, read off what there is of it.
Course(unborn, handed, standing, accepted) ==
  IF unborn THEN "unborn" ELSE IF handed > 0 THEN "taken" ELSE IF ~standing THEN "over"
  ELSE IF accepted > 0 THEN "offered" ELSE "open"

LEMMA LiveIs ==
  ASSUME IInv, IInv', NEW c \in Codes
  PROVE  /\ Live(c) <=> record[c].status # "absent" /\ record[c].expiresAt > now
         /\ Live(c)' <=> record'[c].status # "absent" /\ record'[c].expiresAt > now'
         /\ Live(c) => latest[c] \in Sessions
<1>1. /\ record[c].expiresAt \in Nat /\ now \in Nat
      /\ record'[c].expiresAt \in Nat /\ now' \in Nat
  BY DEF IInv, SessionTypeOK, Records, Times
<1>2. Live(c) => latest[c] # 0
  BY DEF Live, Current, Blank, IInv, SessionInv, LatestBorn
<1>3. latest[c] \in Tokens
  BY DEF IInv, SessionTypeOK
<1>4. QED
  BY <1>1, <1>2, <1>3 DEF Live, Current, Expired, Blank, Tokens, Sessions

LEMMA StageIs ==
  ASSUME IInv, IInv', NEW s \in Sessions
  PROVE  /\ Stage[s] = Course(s > born, book[s].handed,
                              \E c \in Codes : latest[c] = s /\ Live(c), book[s].accepted)
         /\ Stage'[s] = Course(s > born', book'[s].handed,
                               \E c \in Codes : latest'[c] = s /\ Live(c)', book'[s].accepted)
<1>1. /\ s \in Nat /\ born \in Nat /\ born' \in Nat
      /\ book[s].handed \in Nat /\ book'[s].handed \in Nat
  BY DEF IInv, SessionTypeOK, Tokens, Sessions, Pages
<1>2. Standing(s) <=> \E c \in Codes : latest[c] = s /\ Live(c)
  BY DEF Standing, Live
<1>3. Standing(s)' <=> \E c \in Codes : latest'[c] = s /\ Live(c)'
  BY DEF Standing, Live
<1>4. StageOf(s) = Course(s > born, book[s].handed, Standing(s), book[s].accepted)
  BY <1>1 DEF StageOf, Course
<1>5. StageOf(s)' = Course(s > born', book'[s].handed, Standing(s)', book'[s].accepted)
  BY <1>1 DEF StageOf, Course
<1>6. QED
  BY <1>2, <1>3, <1>4, <1>5 DEF Stage, Course

\* A step that changes neither who lives nor what happened is none of SwopHandoff.
LEMMA StutterStep ==
  ASSUME IInv, IInv', UNCHANGED <<born, latest>>,
         \A c \in Codes : Live(c)' <=> Live(c),
         \A s \in Sessions : /\ book'[s].handed = book[s].handed
                             /\ book'[s].accepted = book[s].accepted
                             /\ book'[s].value = book[s].value
  PROVE  UNCHANGED <<Stage, Tenant, Offered, HandedOut>>
<1>1. \A s \in Sessions : Stage'[s] = Stage[s]
  BY StageIs DEF Course
<1>2. Stage' = Stage
  BY <1>1 DEF Stage
<1>3. Tenant' = Tenant
  BY DEF Tenant, Live
<1>4. QED
  BY <1>2, <1>3 DEF Offered, HandedOut

\* A creation opens a session at a code that is free.
LEMMA OpenStep ==
  ASSUME IInv, IInv', NEW c \in Codes, NEW client \in Clients, NEW inst \in Callers,
         NEW ttl \in TTLs, Create(c, client, inst, ttl)
  PROVE  /\ Tenant[c] = 0 /\ Stage[born + 1] = "unborn" /\ born + 1 \in Sessions
         /\ Stage' = [Stage EXCEPT ![born + 1] = "open"]
         /\ Tenant' = [Tenant EXCEPT ![c] = born + 1]
         /\ UNCHANGED <<Offered, HandedOut>>
<1> DEFINE s == born + 1
           fresh == Fresh(s, client, inst, now + ttl)
           page == [Blotter EXCEPT !.client = client, !.inst = inst, !.deadline = now + ttl]
<1>1. s \in Sessions /\ born \in Nat /\ now \in Nat /\ now + ttl > now
  BY DEF Create, IInv, SessionTypeOK, Sessions, Tokens, Times
<1>2. /\ record' = [record EXCEPT ![c] = fresh] /\ latest' = [latest EXCEPT ![c] = s]
      /\ book' = [book EXCEPT ![s] = page] /\ now' = now /\ born' = s /\ ~Live(c)
  BY DEF Create, Store, Note, Free, Live
<1>3. fresh.status # "absent" /\ fresh.expiresAt = now + ttl
  BY DEF Fresh, Blank
<1>4. page.handed = 0 /\ page.accepted = 0 /\ page.value = NoValue /\ book[s] = Blotter
  <2>1. page.handed = 0 /\ page.accepted = 0 /\ page.value = NoValue
    BY DEF Blotter
  <2>2. s > born
    BY <1>1
  <2>3. book[s] = Blotter
    BY <1>1, <2>2 DEF IInv, SessionInv, UnbornBlank
  <2>4. QED
    BY <2>1, <2>3
<1> HIDE DEF fresh, page
<1>5. /\ record'[c] = fresh /\ latest'[c] = s /\ book'[s] = page
      /\ \A d \in Codes \ {c} : record'[d] = record[d] /\ latest'[d] = latest[d]
      /\ \A t \in Sessions \ {s} : book'[t] = book[t]
  BY <1>1, <1>2 DEF IInv, SessionTypeOK
<1>6. Live(c)' /\ \A d \in Codes \ {c} : Live(d)' <=> Live(d)
  BY <1>1, <1>2, <1>3, <1>5, LiveIs
<1>7. Stage[s] = "unborn" /\ Stage'[s] = "open"
  <2>1. Stage[s] = "unborn"
    BY <1>1, StageIs DEF Course
  <2>2. Stage'[s] = "open"
    BY <1>1, <1>2, <1>4, <1>5, <1>6, StageIs DEF Course
  <2>3. QED
    BY <2>1, <2>2
<1>8. ASSUME NEW t \in Sessions \ {s} PROVE Stage'[t] = Stage[t]
  <2>1. t > born' <=> t > born
    BY <1>1, <1>2 DEF Sessions
  <2>2. (\E d \in Codes : latest'[d] = t /\ Live(d)') <=> (\E d \in Codes : latest[d] = t /\ Live(d))
    BY <1>2, <1>5, <1>6
  <2>3. QED
    BY <1>5, <2>1, <2>2, StageIs DEF Course
<1>9. Stage' = [Stage EXCEPT ![s] = "open"]
  BY <1>7, <1>8 DEF Stage
<1>10. Tenant[c] = 0 /\ Tenant' = [Tenant EXCEPT ![c] = s]
  <2>1. /\ Tenant = [d \in Codes |-> IF Live(d) THEN latest[d] ELSE 0]
        /\ Tenant' = [d \in Codes |-> IF Live(d)' THEN latest'[d] ELSE 0]
    BY DEF Tenant, Live
  <2>2. QED
    BY <1>2, <1>5, <1>6, <2>1
<1>11. Offered' = Offered /\ HandedOut' = HandedOut
  <2>1. Blotter.handed = 0 /\ Blotter.value = NoValue
    BY DEF Blotter
  <2>2. \A t \in Sessions : book'[t].value = book[t].value /\ book'[t].handed = book[t].handed
    BY <1>4, <1>5, <2>1
  <2>3. QED
    BY <2>2 DEF Offered, HandedOut
<1>12. QED
  BY <1>1, <1>7, <1>9, <1>10, <1>11

\* What operations on a live session can do: its record stays, and its page is noted.
LEMMA PageStep ==
  ASSUME IInv, IInv', NEW c \in Codes, Active(c), NEW r \in Records, NEW page \in Pages,
         Store(c, r), Note(latest[c], page), UNCHANGED <<now, born, latest>>,
         r.status # "absent", r.expiresAt > now
  PROVE  LET s == latest[c]
             stage == IF page.handed > 0 THEN "taken"
                      ELSE IF page.accepted > 0 THEN "offered" ELSE "open"
         IN /\ s \in Sessions
            /\ \A d \in Codes : Live(d)' <=> Live(d)
            /\ Stage[s] = IF book[s].accepted > 0 THEN "offered" ELSE "open"
            /\ Stage' = [Stage EXCEPT ![s] = stage]
            /\ Tenant' = Tenant
            /\ Offered' = [Offered EXCEPT ![s] = page.value]
            /\ HandedOut' = [HandedOut EXCEPT ![s] = page.handed]
<1> DEFINE s == latest[c]
<1>1. /\ s \in Sessions /\ s <= born /\ born \in Nat
      /\ record[c].status # "absent" /\ record[c].expiresAt > now
      /\ book[s].handed = 0
  BY LiveFacts DEF IInv, SessionInv, OneCodeEach, SessionTypeOK, Tokens, Matched
<1>2. /\ record'[c] = r /\ book'[s] = page
      /\ \A d \in Codes \ {c} : record'[d] = record[d]
      /\ \A t \in Sessions \ {s} : book'[t] = book[t]
  BY <1>1 DEF Store, Note, IInv, SessionTypeOK
<1>3. Live(c) /\ \A d \in Codes : Live(d)' <=> Live(d)
  BY <1>1, <1>2, LiveIs
<1>4. Stage[s] = IF book[s].accepted > 0 THEN "offered" ELSE "open"
  BY <1>1, <1>3, StageIs DEF Course, Sessions
<1>5. Stage'[s] = IF page.handed > 0 THEN "taken"
                  ELSE IF page.accepted > 0 THEN "offered" ELSE "open"
  BY <1>1, <1>2, <1>3, StageIs DEF Course, Sessions
<1>6. \A t \in Sessions \ {s} : Stage'[t] = Stage[t]
  BY <1>2, <1>3, StageIs DEF Course
<1>7. Stage' = [Stage EXCEPT ![s] = Stage'[s]]
  BY <1>1, <1>6 DEF Stage
<1>8. Tenant' = Tenant
  BY <1>3 DEF Tenant, Live
<1>9. /\ Offered' = [Offered EXCEPT ![s] = page.value]
      /\ HandedOut' = [HandedOut EXCEPT ![s] = page.handed]
  BY <1>1, <1>2 DEF Offered, HandedOut
<1>10. QED
  BY <1>1, <1>3, <1>4, <1>5, <1>7, <1>8, <1>9

\* An accepted submission offers a value in an open session.
LEMMA OfferStep ==
  ASSUME IInv, IInv', NEW c \in Codes, NEW pass \in Passes, NEW value \in Values,
         NEW ttl \in TTLs, Submit(c, pass, value, ttl)
  PROVE  LET s == latest[c]
         IN /\ s \in Sessions /\ Stage[s] = "open"
            /\ Stage' = [Stage EXCEPT ![s] = "offered"]
            /\ Offered' = [Offered EXCEPT ![s] = value]
            /\ UNCHANGED <<Tenant, HandedOut>>
<1> DEFINE s == latest[c]
           deadline == Deadline(record[c], ttl)
           r == [record[c] EXCEPT !.status = "ready", !.value = value, !.expiresAt = deadline]
           page == [book[s] EXCEPT !.accepted = @ + 1, !.value = value, !.deadline = deadline]
<1>1. Active(c)
  BY DEF Submit
<1>2. /\ s \in Sessions /\ record[c] \in Records /\ book[s] \in Pages
      /\ record[c].expiresAt > now /\ Current(c) = record[c]
      /\ Matched(record[c], s, book[s], now)
  BY <1>1, LiveFacts
<1>3. Admits(record[c], pass) /\ record[c].status = "waiting" /\ deadline <= MaxTime
  BY <1>2 DEF Submit, OpenForValue
<1>4. Honour(book[s], pass) = book[s]
  <2>1. now \in Times /\ record[c].status \in {"waiting", "ready"}
    BY <1>3 DEF IInv, SessionTypeOK
  <2>2. QED
    BY <1>2, <1>3, <2>1, AdmittedInTime
<1>5. Store(c, r) /\ Note(s, page) /\ UNCHANGED <<now, born, latest>>
  BY <1>2, <1>4 DEF Submit
<1>6. deadline \in Times /\ deadline > now
  BY <1>2, <1>3 DEF Deadline, Records, Times, IInv, SessionTypeOK
<1> HIDE DEF deadline
<1>7. r \in Records /\ r.status = "ready" /\ r.expiresAt = deadline
  BY <1>2, <1>6 DEF Records
<1>8. book[s].accepted = 0 /\ book[s].handed = 0
  BY <1>2, <1>3 DEF Matched
<1>9. page \in Pages /\ page.accepted = 1 /\ page.handed = 0 /\ page.value = value
  <2>1. book[s].accepted + 1 \in Nat
    BY <1>8
  <2>2. page \in Pages
    BY <1>2, <1>6, <2>1 DEF Pages
  <2>3. page.accepted = book[s].accepted + 1 /\ page.handed = book[s].handed /\ page.value = value
    BY <1>2 DEF Pages
  <2>4. QED
    BY <1>8, <2>2, <2>3
<1> HIDE DEF r, page
<1>10. /\ Stage[s] = "open" /\ Stage' = [Stage EXCEPT ![s] = "offered"] /\ Tenant' = Tenant
       /\ Offered' = [Offered EXCEPT ![s] = value]
       /\ HandedOut' = [HandedOut EXCEPT ![s] = 0]
  BY <1>1, <1>5, <1>6, <1>7, <1>8, <1>9, PageStep
<1>11. HandedOut' = HandedOut
  BY <1>2, <1>8, <1>10 DEF HandedOut
<1>12. QED
  BY <1>2, <1>10, <1>11

\* A read that finds the value hands it out, where it was offered and not taken.
LEMMA HandStep ==
  ASSUME IInv, IInv', NEW c \in Codes, NEW who, Consume(c, who)
  PROVE  LET s == latest[c]
         IN /\ s \in Sessions /\ Stage[s] = "offered"
            /\ Stage' = [Stage EXCEPT ![s] = "taken"]
            /\ HandedOut' = [HandedOut EXCEPT ![s] = HandedOut[s] + 1]
            /\ UNCHANGED <<Tenant, Offered>>
<1> DEFINE s == latest[c]
           r == Tombstone(record[c])
           page == HandOver(s, who, record[c].value)
<1>1. Active(c)
  BY DEF Consume
<1>2. /\ s \in Sessions /\ record[c] \in Records /\ book[s] \in Pages
      /\ record[c].expiresAt > now /\ Current(c) = record[c]
      /\ Matched(record[c], s, book[s], now)
  BY <1>1, LiveFacts
<1>3. /\ record[c].status = "ready" /\ Store(c, r) /\ Note(s, page)
      /\ UNCHANGED <<now, born, latest>>
  BY <1>2 DEF Consume
<1>4. r \in Records /\ r.status = "consumed" /\ r.expiresAt = record[c].expiresAt
  BY <1>2, BlankTyped DEF Tombstone, Blank, Records
<1>5. book[s].accepted = 1 /\ book[s].handed = 0
  BY <1>2, <1>3 DEF Matched
<1>6. page.handed = 1 /\ page.value = book[s].value
  <2> DEFINE taken == [book[s] EXCEPT !.handed = @ + 1]
  <2>1. taken \in Pages /\ taken.handed = 1 /\ taken.value = book[s].value
    BY <1>2, <1>5 DEF Pages
  <2>2. page = taken \/ page = [taken EXCEPT !.strayed = TRUE]
    BY DEF HandOver
  <2> HIDE DEF taken, page
  <2>3. QED
    BY <2>1, <2>2 DEF Pages
<1>7. page \in Pages
  BY <1>2, HandOverTyped DEF IInv
<1> HIDE DEF r, page
<1>8. /\ Stage[s] = "offered" /\ Stage' = [Stage EXCEPT ![s] = "taken"] /\ Tenant' = Tenant
      /\ Offered' = [Offered EXCEPT ![s] = book[s].value]
      /\ HandedOut' = [HandedOut EXCEPT ![s] = 1]
  BY <1>1, <1>2, <1>3, <1>4, <1>5, <1>6, <1>7, PageStep
<1>9. Offered' = Offered
  <2>1. Offered \in [Sessions -> {book[q].value : q \in Sessions}] /\ Offered[s] = book[s].value
    BY <1>2 DEF Offered
  <2>2. QED
    BY <1>2, <1>8, <2>1
<1>10. HandedOut[s] + 1 = 1
  BY <1>2, <1>5 DEF HandedOut
<1>11. QED
  BY <1>2, <1>8, <1>9, <1>10

\* What is refused, wrong codes, forms, reads in vain and alarms: nothing SwopHandoff sees.
LEMMA NothingSeen ==
  ASSUME IInv, IInv', NEW c \in Codes,
         \/ Gone(c) \/ AlarmGoesOff(c) \/ CreateOccupied(c)
         \/ \E again \in BOOLEAN : RunAlarm(c, again)
         \/ \E pass \in Passes :
              EntryRefused(c, pass) \/ QrRefused(c, pass) \/ Form(c, pass) \/ AlreadyReady(c, pass)
         \/ \E who : ConsumeRefused(c, who) \/ ConsumeWaiting(c, who)
  PROVE  UNCHANGED <<Stage, Tenant, Offered, HandedOut>>
<1> USE DEF IInv, SessionTypeOK
<1>0. UNCHANGED <<now, born, latest>>
  BY DEF Gone, AlarmGoesOff, CreateOccupied, RunAlarm, EntryRefused, QrRefused, Form,
         AlreadyReady, ConsumeRefused, ConsumeWaiting, vars
<1>1. CASE UNCHANGED <<record, book>>
  <2>1. \A d \in Codes : Live(d)' <=> Live(d)
    BY <1>0, <1>1, LiveIs
  <2>2. QED
    BY <1>0, <1>1, <2>1, StutterStep
<1>2. ASSUME Store(c, Blank), ~Live(c), UNCHANGED book
      PROVE  UNCHANGED <<Stage, Tenant, Offered, HandedOut>>
  <2>1. record'[c].status = "absent" /\ \A d \in Codes \ {c} : record'[d] = record[d]
    BY <1>2 DEF Store, Blank
  <2>2. \A d \in Codes : Live(d)' <=> Live(d)
    BY <1>0, <1>2, <2>1, LiveIs
  <2>3. QED
    BY <1>0, <1>2, <2>2, StutterStep
<1>3. ASSUME NEW r, Store(c, r), r.status = record[c].status, r.expiresAt = record[c].expiresAt,
             NEW page, Note(latest[c], page), latest[c] \in Sessions,
             page.handed = book[latest[c]].handed, page.accepted = book[latest[c]].accepted,
             page.value = book[latest[c]].value
      PROVE  UNCHANGED <<Stage, Tenant, Offered, HandedOut>>
  <2>1. /\ record'[c] = r /\ \A d \in Codes \ {c} : record'[d] = record[d]
        /\ book'[latest[c]] = page /\ \A s \in Sessions \ {latest[c]} : book'[s] = book[s]
    BY <1>3 DEF Store, Note
  <2>2. \A d \in Codes : Live(d)' <=> Live(d)
    BY <1>0, <1>3, <2>1, LiveIs
  <2>3. QED
    BY <1>0, <1>3, <2>1, <2>2, StutterStep
<1>4. CASE Gone(c)
  <2>1. CASE Current(c) = record[c]
    BY <1>1, <1>4, <2>1 DEF Gone, Store
  <2>2. CASE Current(c) # record[c]
    <3>1. Current(c) = Blank /\ ~Live(c)
      BY <2>2 DEF Current, Live, Blank
    <3>2. QED
      BY <1>2, <1>4, <3>1 DEF Gone
  <2>3. QED
    BY <2>1, <2>2
<1>5. ASSUME NEW again \in BOOLEAN, RunAlarm(c, again)
      PROVE  UNCHANGED <<Stage, Tenant, Offered, HandedOut>>
  <2>1. CASE Outlived(record[c])
    BY <1>1, <1>5, <2>1 DEF RunAlarm
  <2>2. CASE ~Outlived(record[c])
    <3>1. ~Live(c)
      BY <2>2, LiveIs DEF Outlived
    <3>2. QED
      BY <1>2, <1>5, <2>2, <3>1 DEF RunAlarm
  <2>3. QED
    BY <2>1, <2>2
<1>6. ASSUME NEW pass \in Passes, EntryRefused(c, pass)
      PROVE  UNCHANGED <<Stage, Tenant, Offered, HandedOut>>
  <2> DEFINE r == Count(record[c])
             page == [book[latest[c]] EXCEPT !.wrong =
                        IF record[c].entry # 0 /\ @ < MaxFailures THEN @ + 1 ELSE @]
  <2>1. /\ Active(c) /\ latest[c] \in Sessions /\ record[c] \in Records
        /\ book[latest[c]] \in Pages /\ Store(c, r) /\ Note(latest[c], page)
    BY <1>6, LiveFacts DEF EntryRefused
  <2>2. r.status = record[c].status /\ r.expiresAt = record[c].expiresAt
    BY <2>1 DEF Count, Records
  <2>3. /\ page.handed = book[latest[c]].handed /\ page.accepted = book[latest[c]].accepted
        /\ page.value = book[latest[c]].value
    BY <2>1 DEF Pages
  <2> HIDE DEF r, page
  <2>4. QED
    BY <1>3, <2>1, <2>2, <2>3
<1>7. ASSUME NEW pass \in Passes, Form(c, pass)
      PROVE  UNCHANGED <<Stage, Tenant, Offered, HandedOut>>
  <2>1. Active(c) /\ Admits(record[c], pass)
    BY <1>7, LiveFacts DEF Form
  <2>2. Honour(book[latest[c]], pass) = book[latest[c]]
    BY <2>1, LiveFacts, AdmittedInTime
  <2>3. UNCHANGED <<record, book>>
    BY <1>7, <2>2 DEF Form, Note
  <2>4. QED
    BY <1>1, <2>3
<1>8. ASSUME \/ AlarmGoesOff(c) \/ CreateOccupied(c)
             \/ \E pass \in Passes : QrRefused(c, pass) \/ AlreadyReady(c, pass)
             \/ \E who : ConsumeRefused(c, who) \/ ConsumeWaiting(c, who)
      PROVE  UNCHANGED <<record, book>>
  BY <1>8 DEF AlarmGoesOff, CreateOccupied, QrRefused, AlreadyReady, ConsumeRefused,
              ConsumeWaiting, vars
<1>9. QED
  BY <1>1, <1>4, <1>5, <1>6, <1>7, <1>8

\* When time passes, the sessions whose deadline it reaches run out, and only those.
LEMMA TickStep ==
  ASSUME IInv, IInv', Tick
  PROVE  \E C \in SUBSET Codes :
           /\ \A c \in C : Tenant[c] # 0
           /\ Tenant' = [c \in Codes |-> IF c \in C THEN 0 ELSE Tenant[c]]
           /\ Stage' = [s \in Sessions |->
                          IF (\E c \in C : Tenant[c] = s) /\ Stage[s] # "taken"
                          THEN "over" ELSE Stage[s]]
           /\ UNCHANGED <<Offered, HandedOut>>
<1> DEFINE C == {c \in Codes : Live(c) /\ ~Live(c)'}
<1>0. C \in SUBSET Codes /\ \A c \in Codes : c \in C <=> Live(c) /\ ~Live(c)'
  OBVIOUS
<1>1. UNCHANGED <<record, born, latest, book>> /\ now \in Nat /\ now' = now + 1
  BY DEF Tick, IInv, SessionTypeOK, Times
<1>2. \A c \in Codes : record[c].expiresAt \in Nat
  BY DEF IInv, SessionTypeOK, Records, Times
<1>3. \A c \in Codes : Live(c)' => Live(c)
  BY <1>1, <1>2, LiveIs
<1>4. \A c \in Codes : Tenant[c] = IF Live(c) THEN latest[c] ELSE 0
  BY DEF Tenant, Live
<1>5. \A c \in Codes : Tenant'[c] = IF Live(c)' THEN latest[c] ELSE 0
  BY <1>1 DEF Tenant, Live
<1>6. \A c \in C : Tenant[c] # 0
  BY <1>4, LiveIs DEF Sessions
<1>7. Tenant' = [c \in Codes |-> IF c \in C THEN 0 ELSE Tenant[c]]
  <2>1. \A c \in Codes : Tenant'[c] = IF c \in C THEN 0 ELSE Tenant[c]
    BY <1>0, <1>3, <1>4, <1>5
  <2>2. QED
    BY <2>1 DEF Tenant
<1>8. ASSUME NEW s \in Sessions
      PROVE  Stage'[s] = IF (\E c \in C : Tenant[c] = s) /\ Stage[s] # "taken"
                         THEN "over" ELSE Stage[s]
  <2> DEFINE stands == \E c \in Codes : latest[c] = s /\ Live(c)
             endures == \E c \in Codes : latest[c] = s /\ Live(c)'
  <2>1. /\ Stage[s] = Course(s > born, book[s].handed, stands, book[s].accepted)
        /\ Stage'[s] = Course(s > born, book[s].handed, endures, book[s].accepted)
    BY <1>1, StageIs
  <2>2. s # 0 /\ s \in Nat /\ born \in Nat /\ book[s].handed \in Nat
    BY DEF Sessions, IInv, SessionTypeOK, Tokens, Pages
  <2>3. CASE \E c \in C : Tenant[c] = s
    <3>1. PICK c \in Codes : Live(c) /\ ~Live(c)' /\ latest[c] = s
      BY <1>4, <2>2, <2>3
    <3>2. s <= born /\ ~endures
      BY <2>2, <3>1 DEF IInv, SessionInv, OneCodeEach
    <3>3. stands
      BY <3>1
    <3> HIDE DEF stands, endures
    <3>4. QED
      BY <2>1, <2>2, <2>3, <3>2, <3>3 DEF Course
  <2>4. CASE ~ \E c \in C : Tenant[c] = s
    <3>1. stands <=> endures
      BY <1>0, <1>3, <1>4, <2>2, <2>4
    <3> HIDE DEF stands, endures
    <3>2. QED
      BY <2>1, <2>4, <3>1
  <2>5. QED
    BY <2>3, <2>4
<1>9. Stage' = [s \in Sessions |-> IF (\E c \in C : Tenant[c] = s) /\ Stage[s] # "taken"
                                   THEN "over" ELSE Stage[s]]
  BY <1>8 DEF Stage
<1>10. Offered' = Offered /\ HandedOut' = HandedOut
  BY <1>1 DEF Offered, HandedOut
<1>11. QED
  BY <1>0, <1>6, <1>7, <1>9, <1>10

LEMMA HandoffStart == Init => Handoff!HandoffInit
<1> SUFFICES ASSUME Init PROVE Handoff!HandoffInit
  OBVIOUS
<1>1. \A c \in Codes : Current(c).status = "absent"
  BY DEF Init, Current, Expired, Blank
<1>2. \A s \in Sessions : s > born /\ book[s] = Blotter
  BY DEF Init, Sessions
<1>3. \A s \in Sessions : StageOf(s) = "unborn"
  BY <1>2 DEF Init, StageOf, Sessions
<1>4. \A s \in Sessions : book[s].value = NoValue /\ book[s].handed = 0
  BY <1>2 DEF Blotter
<1>5. QED
  BY <1>1, <1>3, <1>4 DEF Handoff!HandoffInit, Handoff!Sessions, Sessions

\* Every step of the store is a step of SwopHandoff, or one that it does not see.
LEMMA HandoffStep == IInv /\ IInv' /\ [Next]_vars => [Handoff!HandoffNext]_(Handoff!hvars)
<1> SUFFICES ASSUME IInv, IInv', [Next]_vars
             PROVE  Handoff!HandoffNext \/ UNCHANGED Handoff!hvars
  OBVIOUS
<1>0. Sessions = Handoff!Sessions
  BY DEF Sessions, Handoff!Sessions
<1>1. ASSUME UNCHANGED <<Stage, Tenant, Offered, HandedOut>>
      PROVE  UNCHANGED Handoff!hvars
  BY <1>1 DEF Handoff!hvars, Stage, Tenant, Offered, HandedOut
<1>2. CASE Tick
  BY <1>0, <1>2, TickStep
     DEF Handoff!HandoffNext, Handoff!RunOut, Stage, Tenant, Offered, HandedOut
<1>3. ASSUME NEW c \in Codes, NEW client \in Clients, NEW inst \in Callers, NEW ttl \in TTLs,
             Create(c, client, inst, ttl)
      PROVE  Handoff!HandoffNext
  BY <1>0, <1>3, OpenStep
     DEF Handoff!HandoffNext, Handoff!Open, Stage, Tenant, Offered, HandedOut
<1>4. ASSUME NEW c \in Codes, NEW pass \in Passes, NEW value \in Values, NEW ttl \in TTLs,
             Submit(c, pass, value, ttl)
      PROVE  Handoff!HandoffNext
  <2>1. PICK s \in Sessions :
          /\ Stage[s] = "open" /\ Stage' = [Stage EXCEPT ![s] = "offered"]
          /\ Offered' = [Offered EXCEPT ![s] = value]
          /\ UNCHANGED <<Tenant, HandedOut>>
    BY <1>4, OfferStep
  <2>2. QED
    BY <1>0, <2>1 DEF Handoff!HandoffNext, Handoff!Offer, Stage, Tenant, Offered, HandedOut
<1>5. ASSUME NEW c \in Codes, NEW who, Consume(c, who)
      PROVE  Handoff!HandoffNext
  BY <1>0, <1>5, HandStep
     DEF Handoff!HandoffNext, Handoff!Hand, Stage, Tenant, Offered, HandedOut
<1>6. CASE UNCHANGED vars
  <2>1. \A c \in Codes : Live(c)' <=> Live(c)
    BY <1>6, LiveIs DEF vars
  <2>2. QED
    BY <1>1, <1>6, <2>1, StutterStep DEF vars
<1>7. QED
  BY <1>1, <1>2, <1>3, <1>4, <1>5, <1>6, NothingSeen DEF Next

\* The session store implements SwopHandoff: seen from outside, a session has one value
\* offered and handed over at most once, occupies its code from creation to the very
\* moment its time runs out, and is over for good then, whatever records, alarms and
\* counted failures the object keeps meanwhile.
THEOREM SessionImplementsHandoff == Spec => ImplementsHandoff
<1>1. Spec => []IInv
  BY SessionInvariant
<1>2. QED
  BY <1>1, HandoffStart, HandoffStep, PTL DEF Spec, ImplementsHandoff, Handoff!HandoffSpec

-----------------------------------------------------------------------------
(* Part two: the Worker in front of them. *)

USE WorkerAssumption

-----------------------------------------------------------------------------
(* The invariant *)

\* A request that may still create a session has created none.
SlotOK(s) ==
  /\ s \in SlotStates
  /\ s.at = "allocating" =>
       s.kind = "create" /\ s.client \in Clients /\ s.tries < MaxTries /\ s.made = 0
  /\ s.at = "answering" /\ s.reply = "occupied" =>
       s.kind = "create" /\ s.client \in Clients /\ s.made = 0
  /\ s.made <= 1

\* A submission that was accepted and whose phone has yet to be told.
Winning(s) == s.at = "answering" /\ s.kind = "submit" /\ s.reply = "ok"

\* It is the only one of its session, nobody was told yet, and the value is its own.
WinnersOK ==
  \A r \in Slots : Winning(slot[r]) =>
    /\ slot[r].session \in Sessions
    /\ book[slot[r].session].accepted > 0
    /\ book[slot[r].session].value = slot[r].value
    /\ told[slot[r].session].oks = 0
    /\ \A q \in Slots : Winning(slot[q]) /\ slot[q].session = slot[r].session => q = r

ToldOK ==
  \A s \in Sessions : told[s].oks > 0 =>
    /\ told[s].oks = 1 /\ told[s].okValue = book[s].value
    /\ book[s].accepted > 0

WorkerInv ==
  /\ IInv
  /\ WorkerTypeOK
  /\ \A r \in Slots : SlotOK(slot[r])
  /\ WinnersOK
  /\ ToldOK

-----------------------------------------------------------------------------
(* What a session has accepted stays *)

LEMMA AcceptedStays ==
  ASSUME IInv, [Next]_vars, NEW s \in Sessions, book[s].accepted > 0
  PROVE  book'[s].accepted > 0 /\ book'[s].value = book[s].value
<1> SUFFICES ASSUME book'[s] # book[s] PROVE book'[s].accepted > 0 /\ book'[s].value = book[s].value
  OBVIOUS
<1>0. book[s] \in Pages /\ book \in [Sessions -> Pages] /\ Next /\ book[s].accepted \in Nat
  <2>1. book[s] \in Pages /\ book \in [Sessions -> Pages]
    BY DEF IInv, SessionTypeOK
  <2>2. QED
    BY <2>1 DEF vars, Pages
<1>1. ASSUME NEW p \in Pages, NEW pass
      PROVE  Honour(p, pass) \in Pages /\ Honour(p, pass).accepted = p.accepted
             /\ Honour(p, pass).value = p.value
  BY <1>1 DEF Honour, Pages
<1>2. ASSUME NEW t, NEW page, Note(t, page) PROVE s = t /\ book'[s] = page
  BY <1>0, <1>2 DEF Note
<1>3. ASSUME NEW c \in Codes, NEW client, NEW inst, NEW ttl, Create(c, client, inst, ttl)
      PROVE  FALSE
  <2>1. s = born + 1
    BY <1>2, <1>3 DEF Create
  <2>2. book[s] = Blotter
    BY <2>1 DEF IInv, SessionInv, UnbornBlank, SessionTypeOK, Tokens
  <2>3. QED
    BY <2>2 DEF Blotter
<1>4. ASSUME NEW c \in Codes, NEW pass, EntryRefused(c, pass)
      PROVE  book'[s].accepted = book[s].accepted /\ book'[s].value = book[s].value
  <2> DEFINE page == [book[latest[c]] EXCEPT !.wrong =
                        IF Current(c).entry # 0 /\ @ < MaxFailures THEN @ + 1 ELSE @]
  <2>1. s = latest[c] /\ book'[s] = page
    BY <1>2, <1>4 DEF EntryRefused
  <2>2. QED
    BY <1>0, <2>1 DEF Pages
<1>5. ASSUME NEW c \in Codes, NEW pass, Form(c, pass)
      PROVE  book'[s].accepted = book[s].accepted /\ book'[s].value = book[s].value
  <2>1. s = latest[c] /\ book'[s] = Honour(book[latest[c]], pass)
    BY <1>2, <1>5 DEF Form
  <2>2. QED
    BY <1>0, <1>1, <2>1
<1>6. ASSUME NEW c \in Codes, NEW pass, NEW value, NEW ttl, Submit(c, pass, value, ttl)
      PROVE  FALSE
  <2>1. s = latest[c]
    BY <1>2, <1>6 DEF Submit
  <2>2. record[c].status = "waiting" /\ Matched(record[c], latest[c], book[latest[c]], now)
    BY <1>6, LiveFacts DEF Submit, OpenForValue
  <2>3. QED
    BY <2>1, <2>2 DEF Matched
<1>7. ASSUME NEW c \in Codes, NEW who, Consume(c, who)
      PROVE  book'[s].accepted = book[s].accepted /\ book'[s].value = book[s].value
  <2>1. s = latest[c] /\ book'[s] = HandOver(latest[c], who, Current(c).value)
    BY <1>2, <1>7 DEF Consume
  <2>2. QED
    BY <1>0, <2>1 DEF HandOver, Pages
<1>8. ASSUME NEW c \in Codes,
             \/ CreateOccupied(c) \/ Gone(c) \/ AlarmGoesOff(c)
             \/ \E again \in BOOLEAN : RunAlarm(c, again)
             \/ \E pass \in Passes : QrRefused(c, pass) \/ AlreadyReady(c, pass)
             \/ \E who : ConsumeRefused(c, who) \/ ConsumeWaiting(c, who)
      PROVE  FALSE
  BY <1>8 DEF CreateOccupied, Gone, QrRefused, AlreadyReady, ConsumeRefused, ConsumeWaiting,
              AlarmGoesOff, RunAlarm, vars
<1>9. ~Tick
  BY DEF Tick
<1>10. QED
  BY <1>0, <1>3, <1>4, <1>5, <1>6, <1>7, <1>8, <1>9 DEF Next

\* An accepted submission was the first, and its value is now the session's.
LEMMA SubmitFirst ==
  ASSUME IInv, NEW c \in Codes, NEW pass \in Passes, NEW value \in Values, NEW ttl \in TTLs,
         Submit(c, pass, value, ttl)
  PROVE  /\ latest[c] \in Sessions /\ book[latest[c]].accepted = 0
         /\ book'[latest[c]].accepted > 0 /\ book'[latest[c]].value = value
<1> DEFINE s == latest[c]
           page == Honour(book[s], pass)
<1>1. /\ s \in Sessions /\ book[s] \in Pages /\ book \in [Sessions -> Pages]
      /\ record[c].status = "waiting" /\ Matched(record[c], s, book[s], now)
  BY LiveFacts DEF Submit, OpenForValue, IInv, SessionTypeOK
<1>2. book[s].accepted = 0
  BY <1>1 DEF Matched
<1>3. page \in Pages /\ page.accepted = 0
  BY <1>1, <1>2 DEF Honour, Pages
<1>4. book'[s] = [page EXCEPT !.accepted = @ + 1, !.value = value,
                              !.deadline = Deadline(Current(c), ttl)]
  BY <1>1 DEF Submit, Note
<1> HIDE DEF page
<1>5. book'[s].accepted = 1 /\ book'[s].value = value
  BY <1>3, <1>4 DEF Pages
<1>6. QED
  BY <1>1, <1>2, <1>5

-----------------------------------------------------------------------------
(* Steps of a request *)

LEMMA SlotAfter ==
  ASSUME WorkerInv, NEW r \in Slots, NEW s \in SlotStates, Become(r, s)
  PROVE  /\ slot' \in [Slots -> SlotStates]
         /\ \A q \in Slots : slot'[q] = IF q = r THEN s ELSE slot[q]
  BY DEF WorkerInv, WorkerTypeOK, Become

\* A request goes on without winning, and no phone is told that it did.
LEMMA QuietStep ==
  ASSUME WorkerInv, [Next]_vars, NEW r \in Slots, NEW s \in SlotStates,
         SlotOK(s), ~Winning(s), Become(r, s), told' \in [Sessions -> Tellings],
         \A t \in Sessions : told'[t].oks = told[t].oks /\ told'[t].okValue = told[t].okValue
  PROVE  WorkerInv'
<1>1. /\ slot' \in [Slots -> SlotStates]
      /\ \A q \in Slots : slot'[q] = IF q = r THEN s ELSE slot[q]
  BY SlotAfter
<1>2. IInv /\ IInv'
  BY InvStep DEF WorkerInv, WorkerTypeOK
<1>3. \A q \in Slots : SlotOK(slot'[q])
  BY <1>1 DEF WorkerInv, WorkerTypeOK
<1>4. \A q \in Slots : Winning(slot'[q]) => q # r /\ slot'[q] = slot[q] /\ Winning(slot[q])
  BY <1>1
<1>5. \A t \in Sessions : book[t].accepted > 0 =>
        book'[t].accepted > 0 /\ book'[t].value = book[t].value
  BY <1>2, AcceptedStays
<1>6. WinnersOK'
  <2> SUFFICES ASSUME NEW q \in Slots, Winning(slot'[q])
               PROVE  /\ slot'[q].session \in Sessions
                      /\ book'[slot'[q].session].accepted > 0
                      /\ book'[slot'[q].session].value = slot'[q].value
                      /\ told'[slot'[q].session].oks = 0
                      /\ \A p \in Slots : Winning(slot'[p])
                           /\ slot'[p].session = slot'[q].session => p = q
    BY DEF WinnersOK, Winning
  <2>1. slot'[q] = slot[q] /\ Winning(slot[q])
    BY <1>4
  <2>2. /\ slot[q].session \in Sessions /\ book[slot[q].session].accepted > 0
        /\ book[slot[q].session].value = slot[q].value /\ told[slot[q].session].oks = 0
        /\ \A p \in Slots : Winning(slot[p]) /\ slot[p].session = slot[q].session => p = q
    BY <2>1 DEF WorkerInv, WorkerTypeOK, WinnersOK
  <2>3. QED
    BY <1>4, <1>5, <2>1, <2>2
<1>7. ToldOK'
  BY <1>5 DEF WorkerInv, WorkerTypeOK, ToldOK
<1>8. QED
  BY <1>1, <1>2, <1>3, <1>6, <1>7 DEF WorkerInv, WorkerTypeOK, SlotOK

\* A submission is accepted; its phone will be told.
LEMMA WinStep ==
  ASSUME WorkerInv, NEW r \in Slots, NEW c \in Codes, NEW pass \in Passes, NEW value \in Values,
         NEW ttl \in TTLs, Submit(c, pass, value, ttl), [Next]_vars,
         NEW s \in SlotStates, SlotOK(s), s.session = latest[c], s.value = value,
         Become(r, s), UNCHANGED told
  PROVE  WorkerInv'
<1>1. /\ slot' \in [Slots -> SlotStates]
      /\ \A q \in Slots : slot'[q] = IF q = r THEN s ELSE slot[q]
  BY SlotAfter
<1>2. IInv /\ IInv'
  BY InvStep DEF WorkerInv, WorkerTypeOK
<1>3. \A q \in Slots : SlotOK(slot'[q])
  BY <1>1 DEF WorkerInv, WorkerTypeOK
<1>4. /\ latest[c] \in Sessions /\ book[latest[c]].accepted = 0
      /\ book'[latest[c]].accepted > 0 /\ book'[latest[c]].value = value
  BY <1>2, SubmitFirst
<1>5. \A t \in Sessions : book[t].accepted > 0 =>
        book'[t].accepted > 0 /\ book'[t].value = book[t].value
  BY <1>2, AcceptedStays
<1>6. told \in [Sessions -> Tellings] /\ told[latest[c]].oks \in Nat
  BY <1>4 DEF WorkerInv, WorkerTypeOK, Tellings
<1>7. told[latest[c]].oks = 0
  BY <1>4, <1>6 DEF WorkerInv, WorkerTypeOK, ToldOK
<1>8. \A q \in Slots : Winning(slot[q]) => slot[q].session # latest[c]
  BY <1>4 DEF WorkerInv, WorkerTypeOK, WinnersOK
<1>9. ASSUME NEW q \in Slots, Winning(slot'[q])
      PROVE  /\ slot'[q].session \in Sessions
             /\ book'[slot'[q].session].accepted > 0
             /\ book'[slot'[q].session].value = slot'[q].value
             /\ told[slot'[q].session].oks = 0
             /\ \A p \in Slots : Winning(slot'[p])
                  /\ slot'[p].session = slot'[q].session => p = q
  <2>1. CASE q = r
    <3>1. slot'[q] = s
      BY <1>1, <2>1
    <3>2. \A p \in Slots : Winning(slot'[p]) /\ slot'[p].session = latest[c] => p = r
      BY <1>1, <1>8
    <3>3. QED
      BY <1>4, <1>7, <2>1, <3>1, <3>2
  <2>2. CASE q # r
    <3>1. slot'[q] = slot[q] /\ Winning(slot[q])
      BY <1>1, <1>9, <2>2
    <3>2. /\ slot[q].session \in Sessions /\ book[slot[q].session].accepted > 0
          /\ book[slot[q].session].value = slot[q].value /\ told[slot[q].session].oks = 0
          /\ \A p \in Slots : Winning(slot[p]) /\ slot[p].session = slot[q].session => p = q
      BY <3>1 DEF WorkerInv, WorkerTypeOK, WinnersOK
    <3>3. slot[q].session # s.session
      BY <1>8, <3>1
    <3>4. \A p \in Slots : Winning(slot'[p]) /\ slot'[p].session = slot[q].session => p = q
      BY <1>1, <3>2, <3>3
    <3>5. QED
      BY <1>5, <3>1, <3>2, <3>4
  <2>3. QED
    BY <2>1, <2>2
<1>10. WinnersOK'
  BY <1>9 DEF WinnersOK, Winning
<1>11. ToldOK'
  BY <1>5 DEF WorkerInv, WorkerTypeOK, ToldOK
<1>12. QED
  BY <1>1, <1>2, <1>3, <1>6, <1>10, <1>11 DEF WorkerInv, WorkerTypeOK, SlotOK

LEMMA IdleOK == Idle \in SlotStates /\ SlotOK(Idle) /\ ~Winning(Idle)
  BY DEF Idle, SlotStates, Statuses, Callers, Tokens, SlotOK, Winning

\* The phone whose submission was accepted is told so.
LEMMA StepAnswer ==
  ASSUME WorkerInv, NEW r \in Slots, Answer(r)
  PROVE  WorkerInv'
<1>1. Become(r, Idle) /\ UNCHANGED vars
  BY DEF Answer
<1>2. CASE UNCHANGED told
  <2>1. told' \in [Sessions -> Tellings]
        /\ \A t \in Sessions : told'[t].oks = told[t].oks /\ told'[t].okValue = told[t].okValue
    BY <1>2 DEF WorkerInv, WorkerTypeOK
  <2>2. QED
    BY <1>1, <2>1, IdleOK, QuietStep
<1>3. CASE /\ Winning(slot[r])
           /\ told' = [told EXCEPT ![slot[r].session].oks = @ + 1,
                                   ![slot[r].session].okValue = slot[r].value]
  <2> DEFINE s == slot[r].session
  <2>1. /\ s \in Sessions /\ book[s].accepted > 0 /\ book[s].value = slot[r].value
        /\ told[s].oks = 0
        /\ \A q \in Slots : Winning(slot[q]) /\ slot[q].session = s => q = r
    BY <1>3 DEF WorkerInv, WorkerTypeOK, WinnersOK
  <2>2. told \in [Sessions -> Tellings] /\ slot[r].value \in Values \cup {NoValue}
    BY DEF WorkerInv, WorkerTypeOK, SlotStates
  <2> HIDE DEF s
  <2>3. told' = [told EXCEPT ![s] = [told[s] EXCEPT !.oks = @ + 1, !.okValue = slot[r].value]]
    BY <1>3, <2>1, <2>2 DEF s
  <2> DEFINE tale == [told[s] EXCEPT !.oks = @ + 1, !.okValue = slot[r].value]
  <2>4. tale \in Tellings /\ tale.oks = 1 /\ tale.okValue = slot[r].value
    <3>1. told[s] \in Tellings /\ told[s].oks + 1 = 1 /\ 1 \in Nat
      BY <2>1, <2>2
    <3>2. tale = [told[s] EXCEPT !.oks = 1, !.okValue = slot[r].value]
      BY <3>1
    <3> HIDE DEF tale
    <3>3. QED
      BY <2>2, <3>1, <3>2 DEF Tellings
  <2> HIDE DEF tale
  <2>5. told' \in [Sessions -> Tellings]
        /\ \A t \in Sessions : told'[t] = IF t = s THEN tale ELSE told[t]
    BY <2>1, <2>2, <2>3, <2>4 DEF tale
  <2>6. /\ slot' \in [Slots -> SlotStates]
        /\ \A q \in Slots : slot'[q] = IF q = r THEN Idle ELSE slot[q]
    BY <1>1, IdleOK, SlotAfter
  <2>7. IInv'
    BY <1>1, InvStep DEF WorkerInv, WorkerTypeOK
  <2>8. \A q \in Slots : SlotOK(slot'[q])
    BY <2>6, IdleOK DEF WorkerInv, WorkerTypeOK
  <2>9. UNCHANGED book
    BY <1>1 DEF vars
  <2>10. ASSUME NEW q \in Slots, Winning(slot'[q])
         PROVE  /\ slot'[q].session \in Sessions
                /\ book[slot'[q].session].accepted > 0
                /\ book[slot'[q].session].value = slot'[q].value
                /\ told'[slot'[q].session].oks = 0
                /\ \A p \in Slots : Winning(slot'[p])
                     /\ slot'[p].session = slot'[q].session => p = q
    <3>1. q # r /\ slot'[q] = slot[q]
      BY <2>6, <2>10, IdleOK
    <3>2. slot[q].session # s
      BY <2>1, <2>10, <3>1
    <3>3. /\ slot[q].session \in Sessions /\ book[slot[q].session].accepted > 0
          /\ book[slot[q].session].value = slot[q].value /\ told[slot[q].session].oks = 0
          /\ \A p \in Slots : Winning(slot[p]) /\ slot[p].session = slot[q].session => p = q
      BY <2>10, <3>1 DEF WorkerInv, WorkerTypeOK, WinnersOK
    <3>4. \A p \in Slots : Winning(slot'[p]) => slot'[p] = slot[p]
      BY <2>6, IdleOK
    <3>5. QED
      BY <2>5, <3>1, <3>2, <3>3, <3>4
  <2>11. WinnersOK'
    BY <2>9, <2>10 DEF WinnersOK, Winning
  <2>12. ToldOK'
    BY <2>1, <2>4, <2>5, <2>9 DEF WorkerInv, WorkerTypeOK, ToldOK
  <2>13. QED
    BY <2>5, <2>6, <2>7, <2>8, <2>11, <2>12 DEF WorkerInv, WorkerTypeOK, SlotOK
<1>4. QED
  BY <1>2, <1>3 DEF Answer, Winning, Succeeded

\* What a step of a session object does to it is a step of SwopSession.
LEMMA PassTyped ==
  ASSUME WorkerInv, NEW path \in {"qr", "manual"}, NEW key \in Keys
  PROVE  [path |-> path, key |-> key] \in Passes /\ key \in Tokens
<1>1. key \in Tokens
  BY DEF WorkerInv, WorkerTypeOK, IInv, SessionTypeOK, Keys, Tokens
<1>2. QED
  BY <1>1 DEF Passes

LEMMA PhoneSteps ==
  ASSUME NEW c \in Codes, NEW pass \in Passes,
         \/ Form(c, pass) \/ AlreadyReady(c, pass) \/ EntryRefused(c, pass)
         \/ QrRefused(c, pass) \/ Gone(c)
         \/ \E value \in Values, ttl \in TTLs : Submit(c, pass, value, ttl)
  PROVE  [Next]_vars
  BY DEF Next

LEMMA PlayerSteps ==
  ASSUME NEW c \in Codes, NEW client \in Clients, NEW inst \in Callers, NEW key \in Tokens,
         LET who == [client |-> client, inst |-> inst, key |-> key]
         IN Consume(c, who) \/ ConsumeWaiting(c, who) \/ ConsumeRefused(c, who) \/ Gone(c)
  PROVE  [Next]_vars
  BY DEF Next

LEMMA CallerTyped ==
  ASSUME NEW auth \in Auths
  PROVE  InstOf(auth) \in Callers
  BY DEF InstOf, Callers

LEMMA PlatformSteps == Platform => [Next]_vars
  BY DEF Platform, Next

LEMMA StepPlatform ==
  ASSUME WorkerInv, Platform
  PROVE  WorkerInv'
<1>1. [Next]_vars /\ UNCHANGED <<slot, told>>
  BY PlatformSteps DEF Platform, workerVars
<1>2. IInv /\ IInv'
  BY <1>1, InvStep DEF WorkerInv, WorkerTypeOK
<1>3. \A t \in Sessions : book[t].accepted > 0 =>
        book'[t].accepted > 0 /\ book'[t].value = book[t].value
  BY <1>1, <1>2, AcceptedStays
<1>4. WinnersOK' /\ ToldOK'
  BY <1>1, <1>3 DEF WorkerInv, WorkerTypeOK, WinnersOK, ToldOK, Winning
<1>5. QED
  BY <1>1, <1>2, <1>4 DEF WorkerInv, WorkerTypeOK, SlotOK

\* Steps of a request that touch neither a session object nor what was told.
LEMMA QuietAlone ==
  ASSUME WorkerInv, NEW r \in Slots, NEW s \in SlotStates, SlotOK(s), ~Winning(s),
         Become(r, s), UNCHANGED <<vars, told>>
  PROVE  WorkerInv'
<1>1. told' \in [Sessions -> Tellings]
      /\ \A t \in Sessions : told'[t].oks = told[t].oks /\ told'[t].okValue = told[t].okValue
  BY DEF WorkerInv, WorkerTypeOK
<1>2. QED
  BY <1>1, QuietStep

LEMMA StepStartCreate ==
  ASSUME WorkerInv, NEW r \in Slots, NEW auth \in Auths, NEW client \in Clients,
         StartCreate(r, auth, client)
  PROVE  WorkerInv'
<1> DEFINE s == [Idle EXCEPT !.at = "allocating", !.kind = "create",
                   !.client = client, !.inst = InstOf(auth)]
<1>1. InstOf(auth) \in Callers
  BY CallerTyped
<1>2. s \in SlotStates
  BY <1>1, IdleOK DEF SlotStates
<1>3. SlotOK(s) /\ ~Winning(s)
  BY <1>2 DEF SlotOK, Winning, Idle
<1>4. Become(r, s) /\ UNCHANGED <<vars, told>>
  BY DEF StartCreate
<1> HIDE DEF s
<1>5. QED
  BY <1>2, <1>3, <1>4, QuietAlone

LEMMA StepAllocate ==
  ASSUME WorkerInv, NEW r \in Slots, NEW c \in Codes, NEW ttl \in TTLs, Allocate(r, c, ttl)
  PROVE  WorkerInv' /\ [Next]_vars
<1>1. /\ slot[r] \in SlotStates /\ SlotOK(slot[r]) /\ slot[r].at = "allocating"
      /\ slot[r].client \in Clients /\ slot[r].inst \in Callers
      /\ slot[r].kind = "create" /\ slot[r].made = 0 /\ slot[r].tries \in Nat /\ slot[r].tries < MaxTries
  BY DEF WorkerInv, WorkerTypeOK, Allocate, SlotOK, SlotStates
<1>2. slot[r].tries + 1 \in 0 .. MaxTries /\ MaxSessions \in Nat
  BY <1>1
<1>3. ASSUME NEW reply \in {"ok", "occupied"}
      PROVE  /\ Tried(r, c, reply) \in SlotStates /\ Tried(r, c, reply).at = "answering"
             /\ Tried(r, c, reply).reply = reply /\ Tried(r, c, reply).made = 0
             /\ Tried(r, c, reply).client \in Clients
             /\ Tried(r, c, reply).kind = "create"
  BY <1>1, <1>2 DEF Tried, EntryPrefix, SlotStates, Statuses
<1>4. CASE CreateOccupied(c) /\ Become(r, Tried(r, c, "occupied")) /\ UNCHANGED told
  <2> DEFINE s == Tried(r, c, "occupied")
  <2>1. s \in SlotStates /\ SlotOK(s) /\ ~Winning(s)
    BY <1>3 DEF SlotOK, Winning
  <2>2. UNCHANGED <<vars, told>> /\ [Next]_vars
    BY <1>4 DEF CreateOccupied
  <2> HIDE DEF s
  <2>3. Become(r, s)
    BY <1>4 DEF s
  <2>4. QED
    BY <2>1, <2>2, <2>3, QuietAlone
<1>5. CASE /\ Create(c, slot[r].client, slot[r].inst, ttl)
           /\ Become(r, [Tried(r, c, "ok") EXCEPT !.session = born + 1, !.made = @ + 1])
           /\ told' = [told EXCEPT ![born + 1].prefix = EntryPrefix(slot[r], c)]
  <2> DEFINE t == Tried(r, c, "ok")
             s == [t EXCEPT !.session = born + 1, !.made = 1]
             tale == [told[born + 1] EXCEPT !.prefix = c]
  <2>1. born + 1 \in Sessions /\ born + 1 \in Tokens /\ 1 \in 0 .. MaxSessions
    BY <1>5 DEF WorkerInv, WorkerTypeOK, IInv, SessionTypeOK, Create, Sessions, Tokens
  <2>2. t \in SlotStates /\ t.made = 0 /\ t.reply = "ok" /\ t.at = "answering"
        /\ t.kind = "create"
    BY <1>3
  <2>3. Become(r, s)
    <3>1. [t EXCEPT !.session = born + 1, !.made = @ + 1] = s
      <4>1. t.made + 1 = 1
        BY <2>2
      <4> HIDE DEF t
      <4>2. QED
        BY <4>1
    <3>2. QED
      BY <1>5, <3>1
  <2> HIDE DEF t
  <2>4. s \in SlotStates /\ s.at = "answering" /\ s.made = 1 /\ s.reply = "ok"
        /\ s.kind = "create"
    BY <2>1, <2>2 DEF SlotStates
  <2>5. [Next]_vars
    BY <1>1, <1>5 DEF Next
  <2>6. told \in [Sessions -> Tellings] /\ tale \in Tellings
    BY <2>1 DEF WorkerInv, WorkerTypeOK, Tellings
  <2>7. told' = [told EXCEPT ![born + 1] = tale]
        /\ tale.oks = told[born + 1].oks /\ tale.okValue = told[born + 1].okValue
    BY <1>5, <2>1, <2>6 DEF EntryPrefix, Tellings
  <2>8. told' \in [Sessions -> Tellings]
        /\ \A u \in Sessions : told'[u].oks = told[u].oks /\ told'[u].okValue = told[u].okValue
    <3> HIDE DEF tale
    <3>1. QED
      BY <2>1, <2>6, <2>7
  <2>9. SlotOK(s) /\ ~Winning(s)
    BY <2>4 DEF SlotOK, Winning
  <2> HIDE DEF s
  <2>10. QED
    BY <2>3, <2>4, <2>5, <2>8, <2>9, QuietStep
<1>6. QED
  BY <1>4, <1>5 DEF Allocate

LEMMA StepTryAnother ==
  ASSUME WorkerInv, NEW r \in Slots, TryAnother(r)
  PROVE  WorkerInv'
<1> DEFINE s == IF MayTry(slot[r])
                THEN [slot[r] EXCEPT !.at = "allocating", !.reply = "none", !.code = NoCode]
                ELSE Idle
<1>1. slot[r] \in SlotStates /\ SlotOK(slot[r]) /\ slot[r].reply = "occupied"
      /\ slot[r].at = "answering"
  BY DEF WorkerInv, WorkerTypeOK, TryAnother
<1>2. Become(r, s) /\ UNCHANGED <<vars, told>>
  BY DEF TryAnother
<1>3. s \in SlotStates /\ SlotOK(s) /\ ~Winning(s)
  <2>1. CASE MayTry(slot[r])
    BY <1>1, <2>1 DEF SlotStates, Statuses, SlotOK, Winning, MayTry
  <2>2. CASE ~MayTry(slot[r])
    BY <2>2, IdleOK
  <2>3. QED
    BY <2>1, <2>2
<1> HIDE DEF s
<1>4. QED
  BY <1>2, <1>3, QuietAlone

LEMMA StepIssue ==
  ASSUME WorkerInv, NEW r \in Slots, Issue(r)
  PROVE  WorkerInv'
<1> DEFINE t == slot[r].session
           tale == [told[t] EXCEPT !.code = slot[r].code]
<1>1. slot[r].code \in Codes \cup {NoCode} /\ told \in [Sessions -> Tellings]
  BY DEF WorkerInv, WorkerTypeOK, SlotStates
<1>2. told' = [told EXCEPT ![t].code = slot[r].code] /\ Become(r, Idle) /\ UNCHANGED vars
  BY DEF Issue
<1>3. told' \in [Sessions -> Tellings]
      /\ \A u \in Sessions : told'[u].oks = told[u].oks /\ told'[u].okValue = told[u].okValue
  <2>1. CASE t \in Sessions
    <3>1. told' = [told EXCEPT ![t] = tale]
      BY <1>1, <1>2, <2>1
    <3>2. told[t] \in Tellings
      BY <1>1, <2>1
    <3>3. tale \in Tellings /\ tale.oks = told[t].oks /\ tale.okValue = told[t].okValue
      BY <1>1, <3>2 DEF Tellings
    <3> HIDE DEF tale, t
    <3>4. QED
      BY <1>1, <2>1, <3>1, <3>3
  <2>2. CASE t \notin Sessions
    <3>1. told' = told
      BY <1>1, <1>2, <2>2
    <3>2. QED
      BY <1>1, <3>1
  <2>3. QED
    BY <2>1, <2>2
<1>4. QED
  BY <1>2, <1>3, IdleOK, QuietStep

LEMMA StepCallForm ==
  ASSUME WorkerInv, NEW r \in Slots, NEW c \in Codes, NEW pass \in Passes, CallForm(r, c, pass)
  PROVE  WorkerInv' /\ [Next]_vars
<1> DEFINE s == [Idle EXCEPT !.at = "answering", !.kind = "form"]
<1>1. s \in SlotStates
  BY IdleOK DEF SlotStates
<1>2. SlotOK(s) /\ ~Winning(s)
  BY <1>1 DEF SlotOK, Winning, Idle
<1>3. Become(r, s) /\ UNCHANGED told
  BY DEF CallForm, FormAwaits
<1>4. [Next]_vars
  BY PhoneSteps DEF CallForm
<1>5. told' \in [Sessions -> Tellings]
      /\ \A t \in Sessions : told'[t].oks = told[t].oks /\ told'[t].okValue = told[t].okValue
  BY <1>3 DEF WorkerInv, WorkerTypeOK
<1> HIDE DEF s
<1>6. QED
  BY <1>1, <1>2, <1>3, <1>4, <1>5, QuietStep

LEMMA StepCallRead ==
  ASSUME WorkerInv, NEW r \in Slots, NEW auth \in Auths, NEW c \in Codes, NEW client \in Clients,
         NEW key \in Tokens, CallRead(r, auth, c, client, key)
  PROVE  WorkerInv' /\ [Next]_vars
<1> DEFINE s == [Idle EXCEPT !.at = "answering", !.kind = "read"]
<1>1. InstOf(auth) \in Callers
  BY CallerTyped
<1>2. s \in SlotStates
  BY IdleOK DEF SlotStates
<1>3. SlotOK(s) /\ ~Winning(s)
  BY <1>2 DEF SlotOK, Winning, Idle
<1>4. Become(r, s) /\ UNCHANGED told
  BY DEF CallRead, ReadAwaits
<1>5. [Next]_vars
  BY <1>1, PlayerSteps DEF CallRead
<1>6. told' \in [Sessions -> Tellings]
      /\ \A t \in Sessions : told'[t].oks = told[t].oks /\ told'[t].okValue = told[t].okValue
  BY <1>4 DEF WorkerInv, WorkerTypeOK
<1> HIDE DEF s
<1>7. QED
  BY <1>2, <1>3, <1>4, <1>5, <1>6, QuietStep

LEMMA StepCallSubmit ==
  ASSUME WorkerInv, NEW r \in Slots, NEW c \in Codes, NEW pass \in Passes, NEW value \in Values,
         NEW ttl \in TTLs, CallSubmit(r, c, pass, value, ttl)
  PROVE  WorkerInv' /\ [Next]_vars
<1> DEFINE s(reply) == [Idle EXCEPT !.at = "answering", !.kind = "submit", !.reply = reply,
                                    !.session = latest[c], !.value = value]
<1>1. [Next]_vars
  BY PhoneSteps DEF CallSubmit
<1>2. ASSUME NEW reply \in {"ok", "already", "refused", "gone"}
      PROVE  s(reply) \in SlotStates /\ SlotOK(s(reply)) /\ s(reply).session = latest[c]
             /\ s(reply).value = value /\ s(reply).reply = reply
  <2>1. latest[c] \in Tokens
    BY DEF WorkerInv, WorkerTypeOK, IInv, SessionTypeOK
  <2>2. s(reply) \in SlotStates
    BY <2>1, IdleOK DEF SlotStates, Statuses
  <2>3. QED
    BY <2>2 DEF SlotOK, Idle
<1>3. UNCHANGED told
  BY DEF CallSubmit
<1>4. CASE Submit(c, pass, value, ttl) /\ Become(r, s("ok"))
  <2> HIDE DEF s
  <2>1. QED
    BY <1>1, <1>2, <1>3, <1>4, WinStep
<1>5. ASSUME NEW reply \in {"already", "refused", "gone"}, Become(r, s(reply))
      PROVE  WorkerInv'
  <2> HIDE DEF s
  <2>1. ~Winning(s(reply))
    BY <1>2 DEF Winning
  <2>2. told' \in [Sessions -> Tellings]
        /\ \A t \in Sessions : told'[t].oks = told[t].oks /\ told'[t].okValue = told[t].okValue
    BY <1>3 DEF WorkerInv, WorkerTypeOK
  <2>3. QED
    BY <1>1, <1>2, <1>5, <2>1, <2>2, QuietStep
<1>6. QED
  BY <1>1, <1>4, <1>5 DEF CallSubmit, SubmitAwaits

LEMMA StepCallFails ==
  ASSUME WorkerInv, NEW r \in Slots, CallFails(r)
  PROVE  WorkerInv'
<1>1. Become(r, Idle) /\ UNCHANGED <<vars, told>>
  BY DEF CallFails, AfterFailure
<1>2. QED
  BY <1>1, IdleOK, QuietAlone

-----------------------------------------------------------------------------
(* The codes that players are told *)

\* A created session whose player has not been told yet.
Issuing(s) == s.at = "answering" /\ s.kind = "create" /\ s.reply = "ok"

\* Session s is at code c, or its time is over.
Home(s, c) == latest[c] = s \/ book[s].deadline <= now

\* What a request that allocates knows of the codes and tokens it is about to issue.
IssueInv ==
  /\ \A s \in Sessions : told[s].code # NoCode =>
       /\ s <= born /\ told[s].code \in Codes /\ Home(s, told[s].code)
       /\ told[s].prefix = told[s].code
  /\ \A r \in Slots : Issuing(slot[r]) =>
       /\ slot[r].session \in Sessions /\ slot[r].session <= born
       /\ slot[r].code \in Codes /\ Home(slot[r].session, slot[r].code)
       /\ told[slot[r].session].prefix = slot[r].code

\* Time and the number of sessions only grow.
LEMMA OnlyForward ==
  ASSUME IInv, [Next]_vars
  PROVE  now \in Nat /\ now' \in Nat /\ now' >= now /\ born \in Nat /\ born' >= born
<1>1. now \in Nat /\ born \in Nat
  BY DEF IInv, SessionTypeOK, Times, Tokens
<1>2. ASSUME NEW c \in Codes,
             \/ Gone(c) \/ AlarmGoesOff(c) \/ \E again \in BOOLEAN : RunAlarm(c, again)
             \/ \E pass \in Passes :
                  \/ EntryRefused(c, pass) \/ Form(c, pass)
                  \/ \E value \in Values, ttl \in TTLs : Submit(c, pass, value, ttl)
             \/ \E who : Consume(c, who)
      PROVE  UNCHANGED <<now, born>>
  BY <1>2 DEF Gone, AlarmGoesOff, RunAlarm, EntryRefused, Form, Submit, Consume
<1>3. ASSUME NEW c \in Codes,
             \/ CreateOccupied(c)
             \/ \E pass \in Passes : QrRefused(c, pass) \/ AlreadyReady(c, pass)
             \/ \E who : ConsumeRefused(c, who) \/ ConsumeWaiting(c, who)
      PROVE  UNCHANGED <<now, born>>
  BY <1>3 DEF CreateOccupied, QrRefused, AlreadyReady, ConsumeRefused, ConsumeWaiting, vars
<1>4. ASSUME NEW c \in Codes, NEW client \in Clients, NEW inst \in Callers, NEW ttl \in TTLs,
             Create(c, client, inst, ttl)
      PROVE  now' = now /\ born' = born + 1
  BY <1>4 DEF Create
<1>5. Tick => now' = now + 1 /\ born' = born
  BY DEF Tick
<1>6. UNCHANGED vars => UNCHANGED <<now, born>>
  BY DEF vars
<1>7. \/ UNCHANGED <<now, born>>
      \/ now' = now + 1 /\ born' = born
      \/ now' = now /\ born' = born + 1
  BY <1>2, <1>3, <1>4, <1>5, <1>6 DEF Next
<1>8. QED
  BY <1>1, <1>7

LEMMA HomeStays ==
  ASSUME IInv, [Next]_vars, NEW s \in Sessions, s <= born, NEW c \in Codes, Home(s, c)
  PROVE  Home(s, c)'
<1>1. /\ now \in Nat /\ now' \in Nat /\ now' >= now /\ born \in Nat /\ s # 0
      /\ book[s].deadline \in Nat
  <2>1. now \in Nat /\ now' \in Nat /\ now' >= now /\ born \in Nat
    BY OnlyForward
  <2>2. s # 0
    BY DEF Sessions
  <2>3. book \in [Sessions -> Pages]
    BY DEF IInv, SessionTypeOK
  <2>4. book[s].deadline \in Nat
    BY <2>3 DEF Pages, Times
  <2>5. QED
    BY <2>1, <2>2, <2>4
<1>2. ASSUME book[s].deadline <= now PROVE book'[s].deadline <= now'
  BY <1>1, <1>2, PageChanges DEF vars
<1>3. ASSUME latest[c] = s, latest'[c] # s PROVE book[s].deadline <= now
  BY <1>1, <1>3, OnlyCreateReuses DEF vars
<1>4. QED
  BY <1>2, <1>3 DEF Home

\* Steps that neither create a session nor tell a player its code.
LEMMA IssueQuiet ==
  ASSUME WorkerInv, IssueInv, [Next]_vars,
         \A q \in Slots : Issuing(slot'[q]) => slot'[q] = slot[q],
         \A t \in Sessions : told'[t].code = told[t].code /\ told'[t].prefix = told[t].prefix
  PROVE  IssueInv'
<1>0. IInv /\ born \in Nat /\ born' \in Nat /\ born' >= born /\ Sessions \subseteq Nat
  <2>1. IInv /\ Sessions \subseteq Nat
    BY DEF WorkerInv, WorkerTypeOK, Sessions
  <2>2. born' \in Nat
    BY <2>1, InvStep DEF IInv, SessionTypeOK, Tokens
  <2>3. QED
    BY <2>1, <2>2, OnlyForward
<1>1. ASSUME NEW s \in Sessions, told'[s].code # NoCode
      PROVE  /\ s <= born' /\ told'[s].code \in Codes
             /\ latest'[told'[s].code] = s \/ book'[s].deadline <= now'
             /\ told'[s].prefix = told'[s].code
  <2>1. PICK c \in Codes : c = told[s].code
    BY <1>1 DEF IssueInv
  <2>2. s <= born /\ Home(s, c) /\ told[s].prefix = c /\ told'[s].code = c
    BY <1>1, <2>1 DEF IssueInv
  <2>3. Home(s, c)'
    BY <1>0, <2>2, HomeStays
  <2>4. QED
    BY <1>0, <2>2, <2>3 DEF Home
<1>2. ASSUME NEW r \in Slots, Issuing(slot'[r])
      PROVE  /\ slot'[r].session \in Sessions /\ slot'[r].session <= born'
             /\ slot'[r].code \in Codes
             /\ latest'[slot'[r].code] = slot'[r].session
                \/ book'[slot'[r].session].deadline <= now'
             /\ told'[slot'[r].session].prefix = slot'[r].code
  <2>1. PICK s \in Sessions, c \in Codes : slot'[r] = slot[r] /\ s = slot[r].session /\ c = slot[r].code
    BY <1>2 DEF IssueInv
  <2>2. s <= born /\ Home(s, c) /\ told[s].prefix = c
    BY <1>2, <2>1 DEF IssueInv
  <2>3. Home(s, c)'
    BY <1>0, <2>2, HomeStays
  <2>4. QED
    BY <1>0, <2>1, <2>2, <2>3 DEF Home
<1>3. QED
  BY <1>1, <1>2 DEF IssueInv, Issuing, Home

-----------------------------------------------------------------------------
(* The theorems *)

LEMMA WorkerInitial == WorkerInit => WorkerInv
<1> SUFFICES ASSUME WorkerInit PROVE WorkerInv
  OBVIOUS
<1>1. IInv
  BY InvInit DEF WorkerInit
<1>2. Untold \in Tellings /\ Untold.oks = 0
  BY DEF Untold, Tellings
<1>3. slot = [r \in Slots |-> Idle] /\ told = [s \in Sessions |-> Untold]
  BY DEF WorkerInit
<1>4. QED
  BY <1>1, <1>2, <1>3, IdleOK DEF WorkerInv, WorkerTypeOK, WinnersOK, ToldOK

LEMMA WorkerStep == WorkerInv /\ [WorkerNext]_allVars => WorkerInv' /\ [Next]_vars
<1> SUFFICES ASSUME WorkerInv, [WorkerNext]_allVars PROVE WorkerInv' /\ [Next]_vars
  OBVIOUS
<1>1. CASE Platform
  BY <1>1, StepPlatform, PlatformSteps
<1>2. ASSUME NEW r \in Slots, Refuse(r) PROVE UNCHANGED allVars
  BY <1>2 DEF Refuse
<1>3. ASSUME NEW r \in Slots, NEW auth \in Auths, NEW client \in Clients,
             StartCreate(r, auth, client)
      PROVE  WorkerInv' /\ [Next]_vars
  BY <1>3, StepStartCreate DEF StartCreate
<1>4. ASSUME NEW r \in Slots, NEW c \in Codes, NEW path \in {"qr", "manual"}, NEW key \in Keys,
             LET pass == [path |-> path, key |-> key] IN
               \/ CallForm(r, c, pass)
               \/ \E value \in Values, ttl \in TTLs : CallSubmit(r, c, pass, value, ttl)
      PROVE  WorkerInv' /\ [Next]_vars
  <2> DEFINE pass == [path |-> path, key |-> key]
  <2>1. pass \in Passes
    BY PassTyped
  <2>2. \/ CallForm(r, c, pass)
        \/ \E value \in Values, ttl \in TTLs : CallSubmit(r, c, pass, value, ttl)
    BY <1>4
  <2> HIDE DEF pass
  <2>3. QED
    BY <2>1, <2>2, StepCallForm, StepCallSubmit
<1>5. ASSUME NEW r \in Slots, NEW auth \in Auths, NEW c \in Codes, NEW client \in Clients,
             NEW key \in Keys, CallRead(r, auth, c, client, key)
      PROVE  WorkerInv' /\ [Next]_vars
  <2>1. key \in Tokens
    BY PassTyped
  <2>2. QED
    BY <1>5, <2>1, StepCallRead
<1>6. ASSUME NEW r \in Slots, Serve(r) PROVE WorkerInv' /\ [Next]_vars
  <2>1. CASE \E c \in Codes, ttl \in TTLs : Allocate(r, c, ttl)
    BY <2>1, StepAllocate
  <2>2. CASE TryAnother(r)
    BY <2>2, StepTryAnother DEF TryAnother
  <2>3. CASE Issue(r)
    BY <2>3, StepIssue DEF Issue
  <2>4. CASE Answer(r)
    BY <2>4, StepAnswer DEF Answer
  <2>5. CASE CallFails(r)
    BY <2>5, StepCallFails DEF CallFails
  <2>6. QED
    BY <1>6, <2>1, <2>2, <2>3, <2>4, <2>5 DEF Serve
<1>7. CASE UNCHANGED allVars
  <2>1. UNCHANGED <<vars, slot, told>>
    BY <1>7 DEF allVars, workerVars
  <2>2. IInv'
    BY <2>1, InvStep DEF WorkerInv, WorkerTypeOK
  <2>3. UNCHANGED book
    BY <2>1 DEF vars
  <2>4. WinnersOK' /\ ToldOK'
    BY <2>1, <2>3 DEF WorkerInv, WorkerTypeOK, WinnersOK, ToldOK, Winning
  <2>5. QED
    BY <2>1, <2>2, <2>4 DEF WorkerInv, WorkerTypeOK, SlotOK
<1>8. QED
  BY <1>1, <1>2, <1>3, <1>4, <1>5, <1>6, <1>7 DEF WorkerNext

\* A session is created at the code that was tried, and its entry code begins with it.
LEMMA IssueAllocate ==
  ASSUME WorkerInv, IssueInv, NEW r \in Slots, NEW c \in Codes, NEW ttl \in TTLs,
         Allocate(r, c, ttl)
  PROVE  IssueInv'
<1>0. /\ IInv /\ [Next]_vars /\ slot \in [Slots -> SlotStates]
      /\ told \in [Sessions -> Tellings] /\ Sessions \subseteq Nat
  BY StepAllocate DEF WorkerInv, WorkerTypeOK, Sessions
<1>1. slot[r] \in SlotStates /\ slot[r].kind = "create"
  BY DEF WorkerInv, WorkerTypeOK, SlotOK, Allocate
<1>2. ASSUME NEW reply
      PROVE  /\ Tried(r, c, reply).code = c /\ Tried(r, c, reply).reply = reply
             /\ Tried(r, c, reply).kind = "create" /\ Tried(r, c, reply).at = "answering"
  BY <1>1 DEF Tried, SlotStates
<1>3. CASE CreateOccupied(c) /\ Become(r, Tried(r, c, "occupied")) /\ UNCHANGED told
  <2>1. \A q \in Slots : Issuing(slot'[q]) => slot'[q] = slot[q]
    BY <1>0, <1>2, <1>3 DEF Become, Issuing
  <2>2. QED
    BY <1>0, <1>3, <2>1, IssueQuiet
<1>4. CASE /\ Create(c, slot[r].client, slot[r].inst, ttl)
           /\ Become(r, [Tried(r, c, "ok") EXCEPT !.session = born + 1, !.made = @ + 1])
           /\ told' = [told EXCEPT ![born + 1].prefix = EntryPrefix(slot[r], c)]
  <2> DEFINE n == born + 1
             t == Tried(r, c, "ok")
             new == [t EXCEPT !.session = n, !.made = @ + 1]
  <2>1. n \in Sessions /\ born \in Nat /\ born' = n /\ latest' = [latest EXCEPT ![c] = n]
        /\ latest \in [Codes -> Tokens]
    BY <1>0, <1>4 DEF Create, Sessions, IInv, SessionTypeOK, Tokens
  <2>2. new.session = n /\ new.code = c
    BY <1>1, <1>2 DEF Tried, SlotStates
  <2>3. \A q \in Slots : slot'[q] = IF q = r THEN new ELSE slot[q]
    BY <1>0, <1>4 DEF Become
  <2>4. \A s \in Sessions : /\ told'[s].code = told[s].code
                            /\ told'[s].prefix = IF s = n THEN c ELSE told[s].prefix
    BY <1>0, <1>4, <2>1 DEF EntryPrefix, Tellings
  <2> HIDE DEF new, t
  <2>5. ASSUME NEW s \in Sessions, told'[s].code # NoCode
        PROVE  /\ s <= born' /\ told'[s].code \in Codes
               /\ latest'[told'[s].code] = s \/ book'[s].deadline <= now'
               /\ told'[s].prefix = told'[s].code
    <3>1. PICK d \in Codes : d = told[s].code
      BY <2>4, <2>5 DEF IssueInv
    <3>2. s <= born /\ Home(s, d) /\ told[s].prefix = d /\ told'[s].code = d
      BY <2>4, <2>5, <3>1 DEF IssueInv
    <3>3. Home(s, d)'
      BY <1>0, <3>2, HomeStays
    <3>4. s # n /\ s <= n
      BY <1>0, <2>1, <3>2
    <3>5. QED
      BY <2>1, <2>4, <3>2, <3>3, <3>4 DEF Home
  <2>6. ASSUME NEW q \in Slots, Issuing(slot'[q])
        PROVE  /\ slot'[q].session \in Sessions /\ slot'[q].session <= born'
               /\ slot'[q].code \in Codes
               /\ latest'[slot'[q].code] = slot'[q].session
                  \/ book'[slot'[q].session].deadline <= now'
               /\ told'[slot'[q].session].prefix = slot'[q].code
    <3>1. CASE q = r
      BY <2>1, <2>2, <2>3, <2>4, <3>1
    <3>2. CASE q # r
      <4>1. PICK s \in Sessions, d \in Codes :
              slot'[q] = slot[q] /\ s = slot[q].session /\ d = slot[q].code
        BY <2>3, <2>6, <3>2 DEF IssueInv
      <4>2. s <= born /\ Home(s, d) /\ told[s].prefix = d
        BY <2>6, <4>1 DEF IssueInv
      <4>3. Home(s, d)'
        BY <1>0, <4>2, HomeStays
      <4>4. s # n /\ s <= n
        BY <1>0, <2>1, <4>2
      <4>5. QED
        BY <2>1, <2>4, <4>1, <4>2, <4>3, <4>4 DEF Home
    <3>3. QED
      BY <3>1, <3>2
  <2>7. QED
    BY <2>5, <2>6 DEF IssueInv, Issuing, Home
<1>5. QED
  BY <1>3, <1>4 DEF Allocate

\* The player is told the code its session was created at.
LEMMA IssueIssue ==
  ASSUME WorkerInv, IssueInv, NEW r \in Slots, Issue(r)
  PROVE  IssueInv'
<1>1. PICK s \in Sessions, c \in Codes : s = slot[r].session /\ c = slot[r].code
  BY DEF Issue, IssueInv, Issuing
<1>2. s <= born /\ Home(s, c) /\ told[s].prefix = c
  BY <1>1 DEF Issue, IssueInv, Issuing
<1>3. /\ UNCHANGED vars /\ told \in [Sessions -> Tellings]
      /\ told' = [told EXCEPT ![s].code = c]
      /\ slot \in [Slots -> SlotStates] /\ slot' = [slot EXCEPT ![r] = Idle]
  BY <1>1 DEF Issue, Become, WorkerInv, WorkerTypeOK
<1>4. UNCHANGED <<latest, book, born, now>>
  BY <1>3 DEF vars
<1>5. \A u \in Sessions : /\ told'[u].prefix = told[u].prefix
                          /\ told'[u].code = IF u = s THEN c ELSE told[u].code
  BY <1>3 DEF Tellings
<1>6. \A q \in Slots : Issuing(slot'[q]) => slot'[q] = slot[q]
  BY <1>3 DEF Issuing, Idle
<1>7. \A u \in Sessions : told'[u].code # NoCode =>
        /\ u <= born /\ told'[u].code \in Codes /\ Home(u, told'[u].code)
        /\ told'[u].prefix = told'[u].code
  BY <1>2, <1>5 DEF IssueInv
<1>8. \A q \in Slots : Issuing(slot'[q]) =>
        /\ slot'[q].session \in Sessions /\ slot'[q].session <= born
        /\ slot'[q].code \in Codes /\ Home(slot'[q].session, slot'[q].code)
        /\ told'[slot'[q].session].prefix = slot'[q].code
  BY <1>5, <1>6 DEF IssueInv
<1>9. QED
  BY <1>4, <1>7, <1>8 DEF IssueInv, Issuing, Home

LEMMA IssueStep ==
  WorkerInv /\ IssueInv /\ [WorkerNext]_allVars => IssueInv'
<1> SUFFICES ASSUME WorkerInv, IssueInv, [WorkerNext]_allVars PROVE IssueInv'
  OBVIOUS
<1>0. [Next]_vars /\ slot \in [Slots -> SlotStates] /\ told \in [Sessions -> Tellings]
  BY WorkerStep DEF WorkerInv, WorkerTypeOK
<1>1. CASE UNCHANGED workerVars
  BY <1>0, <1>1, IssueQuiet DEF workerVars
<1>2. ASSUME NEW r \in Slots, NEW s, Become(r, s), ~Issuing(s), UNCHANGED told
      PROVE  IssueInv'
  <2>1. \A q \in Slots : Issuing(slot'[q]) => slot'[q] = slot[q]
    BY <1>0, <1>2 DEF Become
  <2>2. QED
    BY <1>0, <1>2, <2>1, IssueQuiet
<1>3. ASSUME NEW r \in Slots,
             \/ \E auth \in Auths, client \in Clients : StartCreate(r, auth, client)
             \/ \E c \in Codes, pass \in Passes : CallForm(r, c, pass)
             \/ \E c \in Codes, pass \in Passes, value \in Values, ttl \in TTLs :
                  CallSubmit(r, c, pass, value, ttl)
             \/ \E auth \in Auths, c \in Codes, client \in Clients, key \in Keys :
                  CallRead(r, auth, c, client, key)
             \/ TryAnother(r)
             \/ CallFails(r)
      PROVE  IssueInv'
  <2>1. slot[r] \in SlotStates
    BY <1>0
  <2>2. CASE \E auth \in Auths, client \in Clients : StartCreate(r, auth, client)
    BY <1>2, <2>2 DEF StartCreate, Issuing, Idle
  <2>3. CASE \E c \in Codes, pass \in Passes : CallForm(r, c, pass)
    BY <1>2, <2>3 DEF CallForm, FormAwaits, Issuing, Idle
  <2>4. CASE \E c \in Codes, pass \in Passes, value \in Values, ttl \in TTLs :
               CallSubmit(r, c, pass, value, ttl)
    <3>1. ASSUME NEW c, NEW reply, NEW value, SubmitAwaits(r, c, reply, value), UNCHANGED told
          PROVE  IssueInv'
      BY <1>2, <3>1 DEF SubmitAwaits, Issuing, Idle
    <3>2. QED
      BY <2>4, <3>1 DEF CallSubmit
  <2>5. CASE \E auth \in Auths, c \in Codes, client \in Clients, key \in Keys :
               CallRead(r, auth, c, client, key)
    BY <1>2, <2>5 DEF CallRead, ReadAwaits, Issuing, Idle
  <2>6. CASE TryAnother(r)
    BY <1>2, <2>1, <2>6 DEF TryAnother, Issuing, Idle, SlotStates
  <2>7. CASE CallFails(r)
    BY <1>2, <2>7 DEF CallFails, AfterFailure, Issuing, Idle
  <2>8. QED
    BY <1>3, <2>2, <2>3, <2>4, <2>5, <2>6, <2>7
<1>4. ASSUME NEW r \in Slots, Answer(r) PROVE IssueInv'
  <2>1. \A q \in Slots : Issuing(slot'[q]) => slot'[q] = slot[q]
    BY <1>0, <1>4 DEF Answer, Become, Issuing, Idle
  <2>2. \A t \in Sessions : told'[t].code = told[t].code /\ told'[t].prefix = told[t].prefix
    BY <1>0, <1>4 DEF Answer, Tellings
  <2>3. QED
    BY <1>0, <2>1, <2>2, IssueQuiet
<1>5. Platform \/ (\E r \in Slots : Refuse(r)) \/ UNCHANGED allVars => UNCHANGED workerVars
  BY DEF Platform, Refuse, allVars
<1>6. ASSUME NEW r \in Slots, NEW c \in Codes, NEW pass \in Passes,
             \/ CallForm(r, c, pass)
             \/ \E value \in Values, ttl \in TTLs : CallSubmit(r, c, pass, value, ttl)
      PROVE  IssueInv'
  <2>1. CASE CallForm(r, c, pass)
    BY <1>3, <2>1
  <2>2. CASE \E value \in Values, ttl \in TTLs : CallSubmit(r, c, pass, value, ttl)
    BY <1>3, <2>2
  <2>3. QED
    BY <1>6, <2>1, <2>2
<1>7. ASSUME NEW r \in Slots, Serve(r) PROVE IssueInv'
  BY <1>3, <1>4, <1>7, IssueAllocate, IssueIssue DEF Serve
<1>8. ASSUME NEW r \in Slots, NEW c \in Codes, NEW path \in {"qr", "manual"}, NEW key \in Keys,
             LET pass == [path |-> path, key |-> key] IN
               \/ CallForm(r, c, pass)
               \/ \E value \in Values, ttl \in TTLs : CallSubmit(r, c, pass, value, ttl)
      PROVE  IssueInv'
  <2> DEFINE pass == [path |-> path, key |-> key]
  <2>1. \/ CallForm(r, c, pass)
        \/ \E value \in Values, ttl \in TTLs : CallSubmit(r, c, pass, value, ttl)
    BY <1>8
  <2>2. pass \in Passes
    BY PassTyped
  <2> HIDE DEF pass
  <2>3. QED
    BY <1>6, <2>1, <2>2
<1>9. ASSUME NEW r \in Slots, NEW auth \in Auths, NEW client \in Clients,
             StartCreate(r, auth, client)
      PROVE  IssueInv'
  BY <1>3, <1>9
<1>10. ASSUME NEW r \in Slots, NEW auth \in Auths, NEW c \in Codes, NEW client \in Clients,
              NEW key \in Keys, CallRead(r, auth, c, client, key)
       PROVE  IssueInv'
  BY <1>3, <1>10
<1>11. QED
  BY <1>1, <1>5, <1>7, <1>8, <1>9, <1>10 DEF WorkerNext

\* The inductive invariant: that of the session objects, what a request may still do, and
\* that every accepted submission has one phone to be told, or told already (index.ts 355-500).
THEOREM WorkerInvariant == WorkerSpec => []WorkerInv
<1>1. QED
  BY WorkerInitial, WorkerStep, PTL DEF WorkerSpec

\* The Worker does to its session objects only what SwopSession describes: whatever is
\* proved of them holds of the Worker over them (index.ts 355-500).
THEOREM WorkerImplementsSession == WorkerSpec => Spec
<1>1. WorkerInit => Init
  BY DEF WorkerInit
<1>2. QED
  BY <1>1, WorkerStep, WorkerInvariant, PTL DEF WorkerSpec, Spec

\* One request for a session creates at most one, however many codes are tried and
\* whichever answers are lost (index.ts 377-389).
THEOREM WorkerCreatesOnce == WorkerSpec => []OneSessionPerRequest
<1>1. WorkerInv => OneSessionPerRequest
  BY DEF WorkerInv, WorkerTypeOK, SlotOK, OneSessionPerRequest
<1>2. QED
  BY <1>1, WorkerInvariant, PTL

\* At most one phone is told that its submission succeeded, and its value is the one the
\* session holds (index.ts 415-437).
THEOREM WorkerTellsTheWinner == WorkerSpec => []ToldWinnerWins
<1>1. WorkerInv => ToldWinnerWins
  BY DEF WorkerInv, WorkerTypeOK, ToldOK, ToldWinnerWins
<1>2. QED
  BY <1>1, WorkerInvariant, PTL

\* The code that a player is told is its session's for as long as that lives, and the
\* entry code begins with it, however many codes were tried (index.ts 377-388, 428).
THEOREM WorkerCodesMatch == WorkerSpec => []IssuedCodesMatch
<1>1. WorkerInit => IssueInv
  BY DEF WorkerInit, IssueInv, Issuing, Idle, Untold
<1>2. WorkerInv /\ IssueInv => IssuedCodesMatch
  BY DEF IssueInv, IssuedCodesMatch, Home
<1>3. QED
  BY <1>1, <1>2, IssueStep, WorkerInvariant, PTL DEF WorkerSpec
=============================================================================
