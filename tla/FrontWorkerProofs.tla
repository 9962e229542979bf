--------------------------- MODULE FrontWorkerProofs ---------------------------
(***************************************************************************)
(* Proofs about the two parts of the Worker in front that keep something   *)
(* of their own: the VPortal relay of an isolate (VPortalRelay), for any   *)
(* number of requests and of places; then the allowlist (AllowedClients),  *)
(* for any number of administrative requests, any size of page and of      *)
(* batch, and any clients.                                                 *)
(***************************************************************************)
EXTENDS VPortalRelay, AllowedClients, FiniteSetTheorems, SequenceTheorems, TLAPS

USE RelayAssumption

-----------------------------------------------------------------------------
(* Part one: the relay.  What a step makes of the set of relays. *)

LEMMA RelayingFinite ==
  IsFiniteSet(Relaying) /\ Cardinality(Relaying) \in Nat
  BY FS_Subset, FS_CardinalityType DEF Relaying

\* The handler of a request that goes on without taking or giving back a place, or
\* stays outside a relay, leaves the set of relays as it was.
LEMMA SameRelays ==
  ASSUME RelayTypeOK, NEW r \in Requests, NEW place \in Places, Go(r, place),
         r \in Relaying <=> place \in {"fetching", "receiving", "settled"}
  PROVE  Relaying' = Relaying
  BY DEF RelayTypeOK, Go, Relaying

\* A relay that starts is added, whatever place it had before (vportal.ts 176).
LEMMA OneMore ==
  ASSUME RelayTypeOK, NEW r \in Requests, r \notin Relaying, Go(r, "fetching")
  PROVE  Relaying' = Relaying \cup {r} /\ Cardinality(Relaying') = Cardinality(Relaying) + 1
<1>1. Relaying' = Relaying \cup {r}
  BY DEF RelayTypeOK, Go, Relaying
<1>2. QED
  BY <1>1, RelayingFinite, FS_AddElement

\* A relay that ends is removed (178).
LEMMA OneLess ==
  ASSUME RelayTypeOK, NEW r \in Relaying, Go(r, "idle")
  PROVE  Relaying' = Relaying \ {r} /\ Cardinality(Relaying') = Cardinality(Relaying) - 1
<1>1. Relaying' = Relaying \ {r}
  BY DEF RelayTypeOK, Go, Relaying
<1>2. QED
  BY <1>1, RelayingFinite, FS_RemoveElement

-----------------------------------------------------------------------------
(* The invariant *)

\* Timer and answer of a request agree while it is relayed: the timer is armed until
\* the outcome is settled, and has fired exactly if the outcome is a timeout.
TimersAgree ==
  /\ \A r \in Requests : at[r] \in {"fetching", "receiving"} => timer[r] = "armed"
  /\ TimeoutMeansDeadline

\* A request that reads its body has had its credentials accepted.
ReadersAccepted == \A r \in Requests : at[r] = "reading" => auth[r]

RelayInv ==
  /\ RelayTypeOK
  /\ PlacesAccounted
  /\ ReadersAccepted /\ OnlyAcceptedRelay
  /\ TimersAgree

LEMMA RelayInit == Init => RelayInv
<1> SUFFICES ASSUME Init PROVE RelayInv
  OBVIOUS
<1>1. RelayTypeOK
  BY DEF Init, RelayTypeOK, Places
<1>2. Relaying = {}
  BY DEF Init, Relaying
<1>3. PlacesAccounted
  BY <1>2, FS_EmptySet DEF Init, PlacesAccounted
<1>4. QED
  BY <1>1, <1>2, <1>3 DEF Init, RelayInv, ReadersAccepted, OnlyAcceptedRelay, TimersAgree,
                          TimeoutMeansDeadline

LEMMA RelayTyped == RelayInv /\ [Next]_vars => RelayTypeOK'
<1> SUFFICES ASSUME RelayInv, [Next]_vars PROVE RelayTypeOK'
  OBVIOUS
<1> USE DEF RelayInv, RelayTypeOK, Places, Go, Reply
<1>1. CASE Evict
  BY <1>1 DEF Evict
<1>2. ASSUME NEW r \in Requests, NEW accepted \in BOOLEAN, Arrive(r, accepted)
      PROVE  RelayTypeOK'
  BY <1>2 DEF Arrive
<1>3. ASSUME NEW r \in Requests, TurnAway(r) PROVE RelayTypeOK'
  BY <1>3 DEF TurnAway, Refusals
<1>4. ASSUME NEW r \in Requests, NEW granted \in BOOLEAN, Limited(r, granted)
      PROVE  RelayTypeOK'
  BY <1>4 DEF Limited, FirstRefusal, Refusals
<1>5. ASSUME NEW r \in Requests, BadBody(r) \/ RefuseBusy(r) \/ LimiterFails(r) PROVE RelayTypeOK'
  BY <1>5 DEF BadBody, RefuseBusy, LimiterFails, Refusals
<1>6. ASSUME NEW r \in Requests, StartRelay(r) PROVE RelayTypeOK'
  BY <1>6 DEF StartRelay, Busy, ArmTimer
<1>7. ASSUME NEW r \in Requests,
             UpstreamRefuses(r) \/ UpstreamAnswers(r) \/ ConnectionFails(r) \/ BodyEnds(r)
      PROVE  RelayTypeOK'
  BY <1>7 DEF UpstreamRefuses, UpstreamAnswers, ConnectionFails, BodyEnds, Settle, Outcomes
<1>8. ASSUME NEW r \in Requests, DeadlinePasses(r) PROVE RelayTypeOK'
  BY <1>8 DEF DeadlinePasses, Settle, DeadlineCode, Outcomes
<1>9. ASSUME NEW r \in Requests, Release(r) PROVE RelayTypeOK'
  <2>1. r \in Relaying
    BY <1>9 DEF Release, Relaying
  <2>2. activeRelays # 0
    BY <2>1, RelayingFinite, FS_EmptySet DEF PlacesAccounted
  <2>3. QED
    BY <1>9, <2>2 DEF Release, PlacesLeft
<1>10. CASE UNCHANGED vars
  BY <1>10 DEF vars
<1>11. QED
  BY <1>1, <1>2, <1>3, <1>4, <1>5, <1>6, <1>7, <1>8, <1>9, <1>10 DEF Next

LEMMA RelayAccounts == RelayInv /\ [Next]_vars => PlacesAccounted'
<1> SUFFICES ASSUME RelayInv, [Next]_vars PROVE PlacesAccounted'
  OBVIOUS
<1> USE DEF RelayInv, PlacesAccounted, Places
<1>1. CASE Evict
  <2>1. Relaying' = {}
    BY <1>1 DEF Evict, Relaying
  <2>2. QED
    BY <1>1, <2>1, FS_EmptySet DEF Evict
<1>2. ASSUME NEW r \in Requests, NEW accepted \in BOOLEAN, Arrive(r, accepted)
      PROVE  PlacesAccounted'
  BY <1>2, SameRelays DEF Arrive, Relaying
<1>3. ASSUME NEW r \in Requests, TurnAway(r) PROVE PlacesAccounted'
  BY <1>3 DEF TurnAway, Relaying
<1>4. ASSUME NEW r \in Requests, NEW granted \in BOOLEAN, Limited(r, granted)
      PROVE  PlacesAccounted'
  BY <1>4, SameRelays DEF Limited, Relaying
<1>5. ASSUME NEW r \in Requests, BadBody(r) \/ RefuseBusy(r) \/ LimiterFails(r) PROVE PlacesAccounted'
  BY <1>5, SameRelays DEF BadBody, RefuseBusy, LimiterFails, Relaying
<1>6. ASSUME NEW r \in Requests, StartRelay(r) PROVE PlacesAccounted'
  <2>1. r \notin Relaying
    BY <1>6 DEF StartRelay, Relaying
  <2>2. QED
    BY <1>6, <2>1, OneMore DEF StartRelay, Busy, RelayTypeOK
<1>7. ASSUME NEW r \in Requests,
             \/ UpstreamRefuses(r) \/ UpstreamAnswers(r) \/ ConnectionFails(r)
             \/ BodyEnds(r) \/ DeadlinePasses(r)
      PROVE  PlacesAccounted'
  BY <1>7, SameRelays DEF UpstreamRefuses, UpstreamAnswers, ConnectionFails, BodyEnds,
                          DeadlinePasses, Settle, Relaying
<1>8. ASSUME NEW r \in Requests, Release(r) PROVE PlacesAccounted'
  <2>1. r \in Relaying
    BY <1>8 DEF Release, Relaying
  <2>2. QED
    BY <1>8, <2>1, OneLess, RelayingFinite DEF Release, PlacesLeft, RelayTypeOK
<1>9. CASE UNCHANGED vars
  BY <1>9 DEF vars, Relaying
<1>10. QED
  BY <1>1, <1>2, <1>3, <1>4, <1>5, <1>6, <1>7, <1>8, <1>9 DEF Next

LEMMA RelayHistory ==
  RelayInv /\ [Next]_vars => ReadersAccepted' /\ OnlyAcceptedRelay' /\ TimersAgree'
<1> SUFFICES ASSUME RelayInv, [Next]_vars
             PROVE  ReadersAccepted' /\ OnlyAcceptedRelay' /\ TimersAgree'
  OBVIOUS
<1> DEFINE P == ReadersAccepted /\ OnlyAcceptedRelay /\ TimersAgree
<1> USE DEF RelayInv, RelayTypeOK, ReadersAccepted, OnlyAcceptedRelay, TimersAgree,
            TimeoutMeansDeadline, Relaying, Go, Reply
<1>1. CASE Evict
  BY <1>1 DEF Evict
<1>2. ASSUME NEW r \in Requests, NEW accepted \in BOOLEAN, Arrive(r, accepted) PROVE P'
  BY <1>2 DEF Arrive
<1>3. ASSUME NEW r \in Requests, TurnAway(r) PROVE P'
  BY <1>3 DEF TurnAway
<1>4. ASSUME NEW r \in Requests, NEW granted \in BOOLEAN, Limited(r, granted) PROVE P'
  BY <1>4 DEF Limited, FirstRefusal
<1>5. ASSUME NEW r \in Requests, BadBody(r) \/ RefuseBusy(r) \/ LimiterFails(r) PROVE P'
  BY <1>5 DEF BadBody, RefuseBusy, LimiterFails
<1>6. ASSUME NEW r \in Requests, StartRelay(r) PROVE P'
  BY <1>6 DEF StartRelay, ArmTimer
<1>7. ASSUME NEW r \in Requests,
             UpstreamRefuses(r) \/ UpstreamAnswers(r) \/ ConnectionFails(r) \/ BodyEnds(r)
      PROVE  P'
  BY <1>7 DEF UpstreamRefuses, UpstreamAnswers, ConnectionFails, BodyEnds, Settle
<1>8. ASSUME NEW r \in Requests, DeadlinePasses(r) PROVE P'
  BY <1>8 DEF DeadlinePasses, Settle, DeadlineCode
<1>9. ASSUME NEW r \in Requests, Release(r) PROVE P'
  BY <1>9 DEF Release
<1>10. CASE UNCHANGED vars
  BY <1>10 DEF vars
<1>11. QED
  BY <1>1, <1>2, <1>3, <1>4, <1>5, <1>6, <1>7, <1>8, <1>9, <1>10 DEF Next

-----------------------------------------------------------------------------
(* Theorems *)

\* The invariant holds in every reachable state of the isolate (vportal.ts 143-182).
THEOREM RelayInvariant == Spec => []RelayInv
<1>1. RelayInv /\ [Next]_vars => RelayInv'
  BY RelayTyped, RelayAccounts, RelayHistory DEF RelayInv
<1>2. QED
  BY RelayInit, <1>1, PTL DEF Spec

\* The counter is the number of relays and never exceeds the limit (173-178).
THEOREM RelayPlacesAccounted == Spec => []PlacesAccounted
  BY RelayInvariant, PTL DEF RelayInv

\* Only requests with accepted credentials hold a place (146-152), and "timeout" is told
\* exactly when the deadline passed first (103-139).
THEOREM RelayDecisionsHold == Spec => []DecisionsHold
  BY RelayInvariant, PTL DEF RelayInv, TimersAgree, DecisionsHold

-----------------------------------------------------------------------------
(* Part two: the allowlist.  Types. *)

CursorStates == [after : Nat, turn : Nat]

AdminStates ==
  [at : {"idle", "called", "read", "wrote", "listed"},
   kind : {"none", "create", "delete", "list"},
   id : Nat, alone : BOOLEAN, keys : Seq(Ids), offset : Nat, clients : Seq(Ids),
   cursor : CursorStates]

AllowedTypeOK ==
  /\ allow \subseteq Ids /\ seen \subseteq Ids /\ steady \subseteq Ids
  /\ request \in [AdminRequests -> AdminStates]
  /\ next \in CursorStates /\ named \in Seq(Ids)
  /\ answered \in [Ids -> {"none", "allowed", "revoked"}]

LEMMA StartTyped == Start \in CursorStates /\ Start.after = 0
  BY DEF Start, CursorStates

LEMMA IdleTyped == Idle \in AdminStates
  BY StartTyped, EmptySeq DEF Idle, AdminStates

\* The first e of a sequence over S.
FirstOf(all, ks, e, S) ==
  all \in Seq(S) /\ Len(all) = e /\ \A i \in DOMAIN all : all[i] = ks[i]

\* A piece of a sequence put after all that comes before it.
LEMMA PieceAfter ==
  ASSUME NEW S, NEW ks \in Seq(S), NEW k \in Nat, NEW e \in Nat, k < e, e <= Len(ks),
         NEW old \in Seq(S), Len(old) = k, \A i \in DOMAIN old : old[i] = ks[i]
  PROVE  FirstOf(old \o SubSeq(ks, k + 1, e), ks, e, S)
<1>1. PICK b : b = SubSeq(ks, k + 1, e)
  OBVIOUS
<1>2. \A i \in (k + 1) .. e : ks[i] \in S
  OBVIOUS
<1>3. /\ b \in Seq(S) /\ Len(b) = IF k + 1 <= e THEN e - (k + 1) + 1 ELSE 0
      /\ \A i \in 1 .. (e - (k + 1) + 1) : b[i] = ks[(k + 1) + i - 1]
  BY <1>1, <1>2, SubSeqProperties
<1>4. Len(b) = e - k /\ \A i \in 1 .. (e - k) : b[i] = ks[k + i]
  <2>1. \A i \in 1 .. (e - k) : (k + 1) + i - 1 = k + i
    OBVIOUS
  <2>2. e - (k + 1) + 1 = e - k
    OBVIOUS
  <2>3. QED
    BY <1>3, <2>1, <2>2
<1>5. /\ old \o b \in Seq(S) /\ Len(old \o b) = k + Len(b)
      /\ \A i \in 1 .. (k + Len(b)) : (old \o b)[i] = IF i <= k THEN old[i] ELSE b[i - k]
  BY <1>3, ConcatProperties
<1>6. ASSUME NEW i \in 1 .. e PROVE (old \o b)[i] = ks[i]
  <2>1. CASE i <= k
    <3>1. i \in DOMAIN old /\ i \in 1 .. (k + Len(b))
      BY <1>4, <2>1
    <3>2. QED
      BY <1>5, <2>1, <3>1
  <2>2. CASE ~(i <= k)
    <3>1. i - k \in 1 .. (e - k) /\ k + (i - k) = i
      BY <2>2
    <3>2. QED
      BY <1>4, <1>5, <2>2, <3>1
  <2>3. QED
    BY <2>1, <2>2
<1>7. Len(old \o b) = e /\ DOMAIN (old \o b) = 1 .. e
  BY <1>4, <1>5
<1>8. QED
  BY <1>1, <1>5, <1>6, <1>7 DEF FirstOf

-----------------------------------------------------------------------------
(* What holds of the requests *)

\* Only creates, deletes and listings are under way.
KnownStates ==
  \A r \in AdminRequests :
    LET q == request[r]
    IN /\ q.at = "idle" => q.kind = "none"
       /\ q.at = "listed" <=> q.kind = "list"
       /\ q.at = "read" => q.kind = "delete"
       /\ q.at \in {"called", "read", "wrote"} => q.kind \in {"create", "delete"} /\ q.id \in Ids

\* While a client is written to, nothing is said of it; nobody who writes to it along
\* with another takes himself to be alone, and one who is alone has had his way.
WritesKnown ==
  /\ \A r, q \in AdminRequests, id \in Ids :
       r # q /\ Writing(r, id) /\ Writing(q, id) => ~request[r].alone
  /\ \A r \in AdminRequests, id \in Ids : Writing(r, id) => answered[id] = "none"
  /\ \A r \in AdminRequests :
       request[r].at = "wrote" /\ request[r].alone =>
         (request[r].id \in allow <=> request[r].kind = "create")
  /\ AnswersHold

\* A page as far as it has been read: its keys come after what was named, none that was
\* listed all along is skipped up to its cursor, and the clients read are its first.
PageRead(q) ==
  /\ Ascending(q.keys) /\ \A i \in DOMAIN q.keys : next.after < q.keys[i]
  /\ Len(q.clients) = IF q.offset < Len(q.keys) THEN q.offset ELSE Len(q.keys)
  /\ \A i \in DOMAIN q.clients : q.clients[i] = q.keys[i]
  /\ q.cursor # Start => /\ next.after <= q.cursor.after
                         /\ \A i \in DOMAIN q.keys : q.keys[i] <= q.cursor.after
  /\ next = Start => named = <<>>
  /\ \A id \in steady :
       next.after < id /\ (q.cursor # Start => id <= q.cursor.after) => id \in ToSet(q.keys)

Unread == \A r \in AdminRequests : request[r].kind # "list"

\* What the pages so far have named.
NamedSoFar ==
  /\ steady \subseteq seen
  /\ Ascending(named)
  /\ next # Start => /\ \A i \in DOMAIN named : named[i] <= next.after
                     /\ \A id \in steady : id <= next.after => id \in ToSet(named)
  /\ next = Start /\ Unread => steady \subseteq ToSet(named)

ListingKnown ==
  /\ NamedSoFar
  /\ \A r, q \in AdminRequests : request[r].kind = "list" /\ request[q].kind = "list" => r = q
  /\ \A r \in AdminRequests : request[r].kind = "list" => PageRead(request[r])

AllowedInv == AllowedTypeOK /\ KnownStates /\ WritesKnown /\ ListingKnown

-----------------------------------------------------------------------------
(* Steps *)

LEMMA Becoming ==
  ASSUME AllowedTypeOK, NEW r \in AdminRequests, NEW s \in AdminStates, Become(r, s)
  PROVE  /\ request' \in [AdminRequests -> AdminStates]
         /\ request'[r] = s /\ \A q \in AdminRequests : q # r => request'[q] = request[q]
  BY DEF AllowedTypeOK, Become

\* A request ends or becomes a listing, and says nothing of what others write to.
LEMMA WritesEnd ==
  ASSUME AllowedTypeOK, WritesKnown, NEW r \in AdminRequests, NEW s \in AdminStates, Become(r, s),
         s.kind \in {"none", "list"}, s.at # "wrote", allow' = allow,
         \A id \in Ids : \/ answered'[id] = answered[id]
                         \/ \A q \in AdminRequests : q # r => ~Writing(q, id),
         AnswersHold'
  PROVE  WritesKnown'
<1>1. request'[r] = s /\ \A q \in AdminRequests : q # r => request'[q] = request[q]
  BY Becoming
<1>2. \A q \in AdminRequests, id \in Ids : Writing(q, id)' => q # r /\ Writing(q, id)
  BY <1>1 DEF Writing
<1>3. \A q, o \in AdminRequests, id \in Ids :
        q # o /\ Writing(q, id)' /\ Writing(o, id)' => ~request'[q].alone
  BY <1>1, <1>2 DEF WritesKnown
<1>4. \A q \in AdminRequests, id \in Ids : Writing(q, id)' => answered'[id] = "none"
  BY <1>2 DEF WritesKnown
<1>5. \A q \in AdminRequests :
        request'[q].at = "wrote" /\ request'[q].alone =>
          (request'[q].id \in allow' <=> request'[q].kind = "create")
  BY <1>1 DEF WritesKnown
<1>6. QED
  BY <1>3, <1>4, <1>5 DEF WritesKnown

\* A request goes on with what it writes to; KV changes there at most.
LEMMA WritesOn ==
  ASSUME AllowedTypeOK, KnownStates, WritesKnown,
         NEW r \in AdminRequests, NEW s \in AdminStates, Become(r, s),
         request[r].at \in {"called", "read"},
         s.id = request[r].id, s.kind = request[r].kind, s.alone = request[r].alone,
         answered' = answered,
         \A id \in Ids : id # request[r].id => (id \in allow' <=> id \in allow),
         s.at = "wrote" => (s.id \in allow' <=> s.kind = "create")
  PROVE  WritesKnown'
<1>1. request'[r] = s /\ \A q \in AdminRequests : q # r => request'[q] = request[q]
  BY Becoming
<1>2. PICK mine : mine = request[r].id
  OBVIOUS
<1>3. mine \in Ids /\ Writing(r, mine)
  BY <1>2 DEF KnownStates, Writing
<1>4. \A q \in AdminRequests, id \in Ids : Writing(q, id)' <=> Writing(q, id)
  BY <1>1 DEF Writing
<1>5. \A q \in AdminRequests : request'[q].alone = request[q].alone
  BY <1>1
<1>6. \A q, o \in AdminRequests, id \in Ids :
        q # o /\ Writing(q, id)' /\ Writing(o, id)' => ~request'[q].alone
  BY <1>4, <1>5 DEF WritesKnown
<1>7. \A q \in AdminRequests, id \in Ids : Writing(q, id)' => answered'[id] = "none"
  BY <1>4 DEF WritesKnown
<1>8. ASSUME NEW q \in AdminRequests, request'[q].at = "wrote", request'[q].alone
      PROVE  request'[q].id \in allow' <=> request'[q].kind = "create"
  <2>1. CASE q = r
    BY <1>1, <1>8, <2>1
  <2>2. CASE q # r
    <3>1. request'[q] = request[q] /\ request[q].at = "wrote" /\ request[q].alone
      BY <1>1, <1>8, <2>2
    <3>2. request[q].id \in Ids /\ Writing(q, request[q].id)
      BY <3>1 DEF KnownStates, Writing
    <3>3. request[q].id # mine
      BY <1>3, <2>2, <3>1, <3>2 DEF WritesKnown
    <3>4. request[q].id \in allow' <=> request[q].id \in allow
      BY <1>2, <3>2, <3>3
    <3>5. QED
      BY <3>1, <3>4 DEF WritesKnown
  <2>3. QED
    BY <2>1, <2>2
<1>9. AnswersHold'
  <2>1. answered[mine] = "none"
    BY <1>3 DEF WritesKnown
  <2>2. \A id \in Ids : id # mine => (id \in allow' <=> id \in allow)
    BY <1>2
  <2>3. QED
    BY <2>1, <2>2 DEF WritesKnown, AnswersHold
<1>10. QED
  BY <1>6, <1>7, <1>8, <1>9 DEF WritesKnown

\* Steps that have to do with no listing.
LEMMA ListingQuiet ==
  ASSUME ListingKnown, next' = next, named' = named, steady' \subseteq steady, steady' \subseteq seen',
         \A q \in AdminRequests : /\ request'[q].kind = "list" <=> request[q].kind = "list"
                                  /\ request[q].kind = "list" => request'[q] = request[q]
  PROVE  ListingKnown'
<1>1. Unread' <=> Unread
  BY DEF Unread
<1>2. NamedSoFar'
  BY <1>1 DEF ListingKnown, NamedSoFar, Ascending, ToSet
<1>3. ASSUME NEW q \in AdminRequests, request'[q].kind = "list" PROVE PageRead(request[q])'
  <2>1. PICK s : s = request[q]
    OBVIOUS
  <2>2. PageRead(s) /\ request'[q] = s
    BY <1>3, <2>1 DEF ListingKnown
  <2>3. PageRead(s)'
    BY <2>2 DEF PageRead, Ascending, ToSet
  <2>4. QED
    BY <2>2, <2>3 DEF PageRead, Ascending, ToSet
<1>4. QED
  BY <1>2, <1>3 DEF ListingKnown

\* A request that is no listing before or after a step does not touch the listing.
LEMMA NoListing ==
  ASSUME AllowedInv, NEW r \in AdminRequests, NEW s \in AdminStates, Become(r, s),
         request[r].kind # "list", s.kind # "list", UNCHANGED <<seen, next, named, steady>>
  PROVE  ListingKnown'
<1>1. request'[r] = s /\ \A q \in AdminRequests : q # r => request'[q] = request[q]
  BY Becoming DEF AllowedInv
<1>2. steady' \subseteq steady /\ steady' \subseteq seen'
  BY DEF AllowedInv, ListingKnown, NamedSoFar
<1>3. QED
  BY <1>1, <1>2, ListingQuiet DEF AllowedInv

\* What is said after a request that wrote alone holds.
LEMMA Said ==
  ASSUME AllowedInv, NEW r \in AdminRequests, NEW what \in {"none", "allowed", "revoked"},
         request[r].id \in Ids, Writing(r, request[r].id), Say(r, what), allow' = allow,
         request[r].alone => /\ what = "allowed" => request[r].id \in allow
                             /\ what = "revoked" => request[r].id \notin allow
  PROVE  /\ answered' \in [Ids -> {"none", "allowed", "revoked"}]
         /\ AnswersHold'
         /\ \A id \in Ids : \/ answered'[id] = answered[id]
                            \/ \A q \in AdminRequests : q # r => ~Writing(q, id)
<1>1. PICK mine : mine = request[r].id
  OBVIOUS
<1>2. /\ answered \in [Ids -> {"none", "allowed", "revoked"}] /\ mine \in Ids
      /\ Writing(r, mine) /\ answered[mine] = "none" /\ AnswersHold
  BY <1>1 DEF AllowedInv, AllowedTypeOK, WritesKnown
<1>3. answered' = [answered EXCEPT ![mine] = IF request[r].alone THEN what ELSE "none"]
  BY <1>1 DEF Say
<1>4. \A id \in Ids : id # mine => answered'[id] = answered[id]
  BY <1>2, <1>3
<1>5. answered'[mine] = IF request[r].alone THEN what ELSE "none"
  BY <1>2, <1>3
<1>6. AnswersHold'
  BY <1>1, <1>2, <1>4, <1>5 DEF AnswersHold
<1>7. ASSUME request[r].alone PROVE \A q \in AdminRequests : q # r => ~Writing(q, mine)
  BY <1>2, <1>7 DEF AllowedInv, WritesKnown
<1>8. \A id \in Ids : \/ answered'[id] = answered[id]
                      \/ \A q \in AdminRequests : q # r => ~Writing(q, id)
  BY <1>2, <1>4, <1>5, <1>7
<1>9. QED
  BY <1>2, <1>3, <1>6, <1>8

\* What is known of where the requests are, one request after the other.
LEMMA StatesStay ==
  ASSUME AllowedInv, NEW r \in AdminRequests, NEW s \in AdminStates, Become(r, s),
         s.at = "idle" => s.kind = "none", s.at = "listed" <=> s.kind = "list",
         s.at = "read" => s.kind = "delete",
         s.at \in {"called", "read", "wrote"} => s.kind \in {"create", "delete"} /\ s.id \in Ids
  PROVE  KnownStates' /\ request' \in [AdminRequests -> AdminStates]
  BY Becoming DEF AllowedInv, KnownStates

LEMMA PutStep ==
  ASSUME AllowedInv, NEW r \in AdminRequests, Put(r) \/ Delete(r)
  PROVE  AllowedInv'
<1>1. PICK s : s = [request[r] EXCEPT !.at = "wrote"]
  OBVIOUS
<1>2. request[r] \in AdminStates /\ AllowedTypeOK /\ KnownStates /\ WritesKnown
  BY DEF AllowedInv, AllowedTypeOK
<1>3. /\ Become(r, s) /\ UNCHANGED <<seen, next, named, steady, answered>>
      /\ request[r].at \in {"called", "read"} /\ request[r].id \in Ids
      /\ request[r].kind \in {"create", "delete"}
  BY <1>1, <1>2 DEF Put, Delete, Listing, KnownStates
<1>4. /\ s \in AdminStates /\ s.at = "wrote" /\ s.id = request[r].id /\ s.kind = request[r].kind
      /\ s.alone = request[r].alone
  BY <1>1, <1>2 DEF AdminStates
<1>5. KnownStates' /\ request' \in [AdminRequests -> AdminStates]
  BY <1>3, <1>4, StatesStay
<1>6. /\ \A id \in Ids : id # request[r].id => (id \in allow' <=> id \in allow)
      /\ s.id \in allow' <=> s.kind = "create"
      /\ allow' \subseteq Ids
  <2>1. CASE Put(r)
    BY <1>2, <1>3, <1>4, <2>1 DEF Put, AllowedTypeOK
  <2>2. CASE Delete(r)
    BY <1>2, <1>3, <1>4, <2>2 DEF Delete, AllowedTypeOK, KnownStates
  <2>3. QED
    BY <2>1, <2>2
<1>7. WritesKnown'
  BY <1>2, <1>3, <1>4, <1>6, WritesOn
<1>8. ListingKnown'
  BY <1>3, <1>4, NoListing
<1>9. AllowedTypeOK'
  BY <1>2, <1>3, <1>5, <1>6 DEF AllowedTypeOK
<1>10. QED
  BY <1>5, <1>7, <1>8, <1>9 DEF AllowedInv

LEMMA LookUpStep ==
  ASSUME AllowedInv, NEW r \in AdminRequests, LookUp(r)
  PROVE  AllowedInv'
<1>1. /\ request[r] \in AdminStates /\ AllowedTypeOK /\ KnownStates /\ WritesKnown
      /\ UNCHANGED <<allow, seen, next, named, steady>>
      /\ request[r].at = "called" /\ request[r].kind = "delete" /\ request[r].id \in Ids
      /\ Writing(r, request[r].id)
  BY DEF AllowedInv, AllowedTypeOK, LookUp, Listing, KnownStates, Writing
<1>2. ASSUME Become(r, [request[r] EXCEPT !.at = "read"]), answered' = answered PROVE AllowedInv'
  <2>1. PICK s : s = [request[r] EXCEPT !.at = "read"]
    OBVIOUS
  <2>2. /\ s \in AdminStates /\ s.at = "read" /\ s.id = request[r].id /\ s.kind = request[r].kind
        /\ s.alone = request[r].alone /\ Become(r, s)
    BY <1>1, <1>2, <2>1 DEF AdminStates
  <2>3. KnownStates' /\ request' \in [AdminRequests -> AdminStates]
    BY <1>1, <2>2, StatesStay
  <2>4. WritesKnown'
    BY <1>1, <1>2, <2>2, WritesOn
  <2>5. ListingKnown'
    BY <1>1, <2>2, NoListing
  <2>6. AllowedTypeOK'
    BY <1>1, <1>2, <2>3 DEF AllowedTypeOK
  <2>7. QED
    BY <2>3, <2>4, <2>5, <2>6 DEF AllowedInv
<1>3. ASSUME Become(r, Idle), Say(r, NotFound(r)) PROVE AllowedInv'
  <2>1. NotFound(r) = "none"
    BY DEF NotFound
  <2>2. /\ answered' \in [Ids -> {"none", "allowed", "revoked"}]
        /\ AnswersHold'
        /\ \A id \in Ids : \/ answered'[id] = answered[id]
                           \/ \A q \in AdminRequests : q # r => ~Writing(q, id)
    BY <1>1, <1>3, <2>1, Said
  <2>3. Idle.kind = "none" /\ Idle.at = "idle" /\ Idle \in AdminStates
    BY IdleTyped DEF Idle
  <2>4. KnownStates' /\ request' \in [AdminRequests -> AdminStates]
    BY <1>3, <2>3, StatesStay
  <2>5. WritesKnown'
    BY <1>1, <1>3, <2>2, <2>3, WritesEnd
  <2>6. ListingKnown'
    BY <1>1, <1>3, <2>3, NoListing
  <2>7. AllowedTypeOK'
    BY <1>1, <2>2, <2>4 DEF AllowedTypeOK
  <2>8. QED
    BY <2>4, <2>5, <2>6, <2>7 DEF AllowedInv
<1>4. QED
  BY <1>2, <1>3 DEF LookUp

LEMMA ConfirmStep ==
  ASSUME AllowedInv, NEW r \in AdminRequests, Confirm(r)
  PROVE  AllowedInv'
<1>1. /\ request[r] \in AdminStates /\ AllowedTypeOK /\ KnownStates /\ WritesKnown
      /\ UNCHANGED <<allow, seen, next, named, steady>>
      /\ request[r].at = "wrote" /\ request[r].kind \in {"create", "delete"} /\ request[r].id \in Ids
      /\ Writing(r, request[r].id) /\ Become(r, Idle)
  BY DEF AllowedInv, AllowedTypeOK, Confirm, Listing, KnownStates, Writing
<1>2. PICK what : what = IF request[r].kind = "create" THEN "allowed" ELSE "revoked"
  OBVIOUS
<1>3. Say(r, what) /\ what \in {"none", "allowed", "revoked"}
  BY <1>2 DEF Confirm
<1>4. request[r].alone => /\ what = "allowed" => request[r].id \in allow
                          /\ what = "revoked" => request[r].id \notin allow
  BY <1>1, <1>2 DEF WritesKnown
<1>5. /\ answered' \in [Ids -> {"none", "allowed", "revoked"}]
      /\ AnswersHold'
      /\ \A id \in Ids : \/ answered'[id] = answered[id]
                         \/ \A q \in AdminRequests : q # r => ~Writing(q, id)
  BY <1>1, <1>3, <1>4, Said
<1>6. Idle.kind = "none" /\ Idle.at = "idle" /\ Idle \in AdminStates
  BY IdleTyped DEF Idle
<1>7. KnownStates' /\ request' \in [AdminRequests -> AdminStates]
  BY <1>1, <1>6, StatesStay
<1>8. WritesKnown'
  BY <1>1, <1>5, <1>6, WritesEnd
<1>9. ListingKnown'
  BY <1>1, <1>6, NoListing
<1>10. AllowedTypeOK'
  BY <1>1, <1>5, <1>7 DEF AllowedTypeOK
<1>11. QED
  BY <1>7, <1>8, <1>9, <1>10 DEF AllowedInv

\* A call takes back what was said of its client, and every overlapping write is told.
LEMMA CallStep ==
  ASSUME AllowedInv, NEW r \in AdminRequests, NEW kind \in {"create", "delete"}, NEW id \in Ids,
         AllowedAssumption, Call(r, kind, id)
  PROVE  AllowedInv'
<1>1. PICK s : s = [Idle EXCEPT !.at = "called", !.kind = kind, !.id = id,
                               !.alone = ~\E o \in AdminRequests \ {r} : Writing(o, id)]
  OBVIOUS
<1>2. /\ AllowedTypeOK /\ KnownStates /\ WritesKnown /\ ListingKnown
      /\ request \in [AdminRequests -> AdminStates]
      /\ answered \in [Ids -> {"none", "allowed", "revoked"}]
      /\ UNCHANGED <<allow, seen, next, named, steady>> /\ request[r].at = "idle"
      /\ answered' = [answered EXCEPT ![id] = "none"]
      /\ request[r].kind = "none"
  BY DEF AllowedInv, AllowedTypeOK, Call, Listing, KnownStates
<1>3. /\ s.at = "called" /\ s.kind = kind /\ s.id = id
      /\ s.alone <=> ~\E o \in AdminRequests : o # r /\ Writing(o, id)
  BY <1>1 DEF Idle
<1>4. s \in AdminStates
  <2>1. id \in Nat
    BY DEF Ids
  <2>2. ASSUME NEW q \in AdminStates, NEW b \in BOOLEAN
        PROVE  [q EXCEPT !.at = "called", !.kind = kind, !.id = id, !.alone = b] \in AdminStates
    BY <2>1 DEF AdminStates
  <2>3. QED
    BY <1>1, <2>2, IdleTyped
<1>5. /\ request'[r] = s
      /\ \A q \in AdminRequests : q # r =>
           request'[q] = IF Writing(q, id) THEN [request[q] EXCEPT !.alone = FALSE] ELSE request[q]
  BY <1>1 DEF Call
<1>6. ASSUME NEW q \in AdminRequests, q # r
      PROVE  /\ request'[q] \in AdminStates
             /\ request'[q].at = request[q].at /\ request'[q].kind = request[q].kind
             /\ request'[q].id = request[q].id
             /\ request'[q].alone => request[q].alone /\ ~Writing(q, id)
             /\ ~Writing(q, id) => request'[q] = request[q]
  <2>1. request[q] \in AdminStates
    BY <1>2
  <2>2. CASE Writing(q, id)
    <3>1. request'[q] = [request[q] EXCEPT !.alone = FALSE]
      BY <1>5, <1>6, <2>2
    <3>2. QED
      BY <2>1, <2>2, <3>1 DEF AdminStates
  <2>3. CASE ~Writing(q, id)
    BY <1>5, <1>6, <2>1, <2>3
  <2>4. QED
    BY <2>2, <2>3
<1>7. request' \in [AdminRequests -> AdminStates]
  <2>1. \A q \in AdminRequests : request'[q] \in AdminStates
    BY <1>4, <1>5, <1>6
  <2>2. request' = [q \in AdminRequests |-> request'[q]]
    BY DEF Call
  <2>3. QED
    BY <2>1, <2>2
<1>8. KnownStates'
  BY <1>2, <1>3, <1>5, <1>6 DEF KnownStates
<1>9. \A q \in AdminRequests, i \in Ids : q # r => (Writing(q, i)' <=> Writing(q, i))
  BY <1>6 DEF Writing
<1>10. \A i \in Ids : Writing(r, i)' <=> i = id
  BY <1>3, <1>5 DEF Writing
<1>11. ASSUME NEW q \in AdminRequests, NEW o \in AdminRequests, NEW i \in Ids, q # o,
              Writing(q, i)', Writing(o, i)'
       PROVE  ~request'[q].alone
  <2>1. CASE q = r
    BY <1>3, <1>5, <1>9, <1>10, <1>11, <2>1
  <2>2. CASE q # r /\ o = r
    BY <1>6, <1>9, <1>10, <1>11, <2>2
  <2>3. CASE q # r /\ o # r
    BY <1>2, <1>6, <1>9, <1>11, <2>3 DEF WritesKnown
  <2>4. QED
    BY <2>1, <2>2, <2>3
<1>12. /\ answered'[id] = "none" /\ \A i \in Ids : i # id => answered'[i] = answered[i]
       /\ answered' \in [Ids -> {"none", "allowed", "revoked"}]
  BY <1>2
<1>13. \A q \in AdminRequests, i \in Ids : Writing(q, i)' => answered'[i] = "none"
  BY <1>2, <1>9, <1>10, <1>12 DEF WritesKnown
<1>14. \A q \in AdminRequests :
         request'[q].at = "wrote" /\ request'[q].alone =>
           (request'[q].id \in allow' <=> request'[q].kind = "create")
  BY <1>2, <1>3, <1>5, <1>6 DEF WritesKnown
<1>15. AnswersHold'
  BY <1>2, <1>12 DEF WritesKnown, AnswersHold
<1>16. WritesKnown'
  BY <1>11, <1>13, <1>14, <1>15 DEF WritesKnown
<1>17. ListingKnown'
  <2>1. \A q \in AdminRequests : /\ request'[q].kind = "list" <=> request[q].kind = "list"
                                 /\ request[q].kind = "list" => request'[q] = request[q]
    BY <1>2, <1>3, <1>5, <1>6 DEF Writing
  <2>2. steady' \subseteq steady /\ steady' \subseteq seen'
    BY <1>2 DEF ListingKnown, NamedSoFar
  <2>3. QED
    BY <1>2, <2>1, <2>2, ListingQuiet
<1>18. AllowedTypeOK'
  BY <1>2, <1>7, <1>12 DEF AllowedTypeOK
<1>19. QED
  BY <1>8, <1>16, <1>17, <1>18 DEF AllowedInv

LEMMA FailsStep ==
  ASSUME AllowedInv, NEW r \in AdminRequests, Fails(r)
  PROVE  AllowedInv'
<1>1. /\ request[r] \in AdminStates /\ AllowedTypeOK /\ KnownStates /\ WritesKnown /\ ListingKnown
      /\ UNCHANGED <<allow, seen, next, named, answered>> /\ Become(r, Idle)
      /\ steady' = IF request[r].kind = "list" /\ next = Start THEN {} ELSE steady
  BY DEF AllowedInv, AllowedTypeOK, Fails
<1>2. Idle.kind = "none" /\ Idle.at = "idle" /\ Idle \in AdminStates
  BY IdleTyped DEF Idle
<1>3. KnownStates' /\ request' \in [AdminRequests -> AdminStates]
  BY <1>1, <1>2, StatesStay
<1>4. AnswersHold' /\ \A id \in Ids : answered'[id] = answered[id]
  BY <1>1 DEF WritesKnown, AnswersHold
<1>5. WritesKnown'
  BY <1>1, <1>2, <1>4, WritesEnd
<1>6. ListingKnown'
  <2>1. request'[r] = Idle /\ \A q \in AdminRequests : q # r => request'[q] = request[q]
    BY <1>1, <1>2, Becoming
  <2>2. CASE request[r].kind # "list"
    BY <1>1, <1>2, <2>2, NoListing
  <2>3. CASE request[r].kind = "list"
    <3>1. \A q \in AdminRequests : request'[q].kind # "list"
      BY <1>1, <1>2, <2>1, <2>3 DEF ListingKnown
    <3>2. NamedSoFar'
      BY <1>1, <2>3 DEF ListingKnown, NamedSoFar, Ascending, ToSet
    <3>3. QED
      BY <3>1, <3>2 DEF ListingKnown
  <2>4. QED
    BY <2>2, <2>3
<1>7. AllowedTypeOK'
  BY <1>1, <1>3 DEF AllowedTypeOK
<1>8. QED
  BY <1>3, <1>5, <1>6, <1>7 DEF AllowedInv

\* An edge that catches up, or nothing at all.
LEMMA PropagateStep ==
  ASSUME AllowedInv, (\E id \in Ids : Propagate(id)) \/ UNCHANGED allowedVars
  PROVE  AllowedInv'
<1>1. /\ AllowedTypeOK /\ KnownStates /\ WritesKnown /\ ListingKnown
      /\ UNCHANGED <<allow, request, next, named, answered>>
      /\ seen' \subseteq seen \cup Ids /\ steady' \subseteq steady /\ steady' \subseteq seen'
  BY DEF AllowedInv, Propagate, allowedVars, ListingKnown, NamedSoFar
<1>2. AllowedTypeOK'
  BY <1>1 DEF AllowedTypeOK
<1>3. KnownStates' /\ WritesKnown'
  BY <1>1 DEF KnownStates, WritesKnown, AnswersHold, Writing
<1>4. ListingKnown'
  BY <1>1, ListingQuiet
<1>5. QED
  BY <1>2, <1>3, <1>4 DEF AllowedInv

\* A request that was writing to nothing and goes on so has no part in the writes.
LEMMA NoWrite ==
  ASSUME AllowedInv, NEW r \in AdminRequests, NEW s \in AdminStates, Become(r, s),
         s.kind \in {"none", "list"}, s.at # "wrote", UNCHANGED <<allow, answered>>
  PROVE  WritesKnown'
<1>1. AnswersHold' /\ \A id \in Ids : answered'[id] = answered[id]
  BY DEF AllowedInv, WritesKnown, AnswersHold
<1>2. QED
  BY <1>1, WritesEnd DEF AllowedInv

\* A page is read from where the last one ended (502-523).
LEMMA ListStep ==
  ASSUME AllowedInv, AllowedAssumption, NEW r \in AdminRequests,
         NEW cursor \in Cursors \cup {Start}, List(r, cursor)
  PROVE  AllowedInv'
<1>1. PICK keys \in [1 .. Cardinality(Passed(cursor)) -> Passed(cursor)] :
        /\ Ascending(keys) /\ ToSet(keys) = Passed(cursor)
        /\ Become(r, [Idle EXCEPT !.at = "listed", !.kind = "list",
                                  !.keys = keys, !.cursor = cursor])
  BY DEF List
<1>2. PICK s : s = [Idle EXCEPT !.at = "listed", !.kind = "list", !.keys = keys, !.cursor = cursor]
  OBVIOUS
<1>3. /\ AllowedTypeOK /\ KnownStates /\ ListingKnown /\ next \in CursorStates /\ seen \subseteq Ids
      /\ Become(r, s) /\ Unread
      /\ cursor = Start \/ next.after <= cursor.after
      /\ UNCHANGED <<allow, seen, next, answered>>
      /\ next = Start => steady' = seen /\ named' = <<>>
      /\ next # Start => steady' = steady /\ named' = named
  BY <1>1, <1>2 DEF AllowedInv, AllowedTypeOK, List, Unread
<1>4. /\ keys \in Seq(Ids) /\ Len(keys) \in Nat /\ DOMAIN keys = 1 .. Len(keys)
      /\ \A i \in DOMAIN keys : keys[i] \in Passed(cursor) /\ keys[i] \in Nat
      /\ next.after \in Nat /\ cursor \in CursorStates
  <2>1. Passed(cursor) \subseteq Ids
    BY <1>3 DEF Passed
  <2>2. IsFiniteSet(Passed(cursor))
    <3>1. IsFiniteSet(Ids)
      BY FS_Interval DEF Ids, AllowedAssumption
    <3>2. QED
      BY <2>1, <3>1, FS_Subset
  <2>3. PICK n \in Nat : n = Cardinality(Passed(cursor))
    BY <2>2, FS_CardinalityType
  <2>4. keys \in [1 .. n -> Ids] /\ \A i \in 1 .. n : keys[i] \in Passed(cursor)
    BY <1>1, <2>1, <2>3
  <2>5. keys \in Seq(Ids)
    BY <2>4, SeqDef
  <2>6. \A i \in DOMAIN keys : keys[i] \in Passed(cursor)
    BY <2>4
  <2>7. \A id \in Ids : id \in Nat
    BY DEF Ids
  <2>8. next.after \in Nat /\ cursor \in CursorStates
    BY <1>3, StartTyped DEF CursorStates, Cursors, AllowedAssumption
  <2>9. QED
    BY <2>1, <2>5, <2>6, <2>7, <2>8
<1>5. s \in AdminStates
  <2>1. ASSUME NEW q \in AdminStates
        PROVE  [q EXCEPT !.at = "listed", !.kind = "list", !.keys = keys, !.cursor = cursor]
                 \in AdminStates
    BY <1>4 DEF AdminStates
  <2>2. QED
    BY <1>2, <2>1, IdleTyped
<1>6. /\ s.at = "listed" /\ s.kind = "list" /\ s.keys = keys /\ s.cursor = cursor
      /\ s.offset = 0 /\ s.clients = <<>>
  BY <1>2 DEF Idle
<1>7. KnownStates' /\ request' \in [AdminRequests -> AdminStates]
  BY <1>3, <1>5, <1>6, StatesStay
<1>8. WritesKnown'
  BY <1>3, <1>5, <1>6, NoWrite
<1>9. steady' \subseteq seen /\ steady' \subseteq Ids /\ named' \in Seq(Ids)
  <2>1. CASE next = Start
    BY <1>3, <2>1, EmptySeq
  <2>2. CASE next # Start
    BY <1>3, <2>2 DEF ListingKnown, NamedSoFar, AllowedTypeOK
  <2>3. QED
    BY <2>1, <2>2
<1>10. \A i \in DOMAIN keys : next.after < keys[i]
  BY <1>4 DEF Passed
<1>11. ASSUME cursor # Start
       PROVE  next.after <= cursor.after /\ \A i \in DOMAIN keys : keys[i] <= cursor.after
  BY <1>3, <1>4, <1>11 DEF Passed
<1>12. ASSUME NEW id \in steady', next.after < id, cursor # Start => id <= cursor.after
       PROVE  id \in ToSet(keys)
  <2>1. id \in seen
    BY <1>9
  <2>2. QED
    BY <1>1, <1>12, <2>1 DEF Passed
<1>13. PageRead(s)'
  <2>1. Len(s.clients) = IF s.offset < Len(s.keys) THEN s.offset ELSE Len(s.keys)
    BY <1>4, <1>6
  <2>2. Ascending(keys)' /\ ToSet(keys)' = ToSet(keys)
    BY <1>1 DEF Ascending, ToSet
  <2>3. /\ \A i \in DOMAIN s.clients : s.clients[i] = s.keys[i]
        /\ next' = Start => named' = <<>>
    BY <1>3, <1>6
  <2>4. QED
    BY <1>3, <1>6, <1>10, <1>11, <1>12, <2>1, <2>2, <2>3 DEF PageRead
<1>14. request'[r] = s /\ \A q \in AdminRequests : q # r => request'[q].kind # "list"
  BY <1>3, <1>5, Becoming DEF Unread
<1>15. ListingKnown'
  <2>1. ~Unread'
    BY <1>6, <1>14 DEF Unread
  <2>2. NamedSoFar'
    BY <1>3, <1>9, <2>1 DEF ListingKnown, NamedSoFar, Ascending, ToSet
  <2>3. ASSUME NEW q \in AdminRequests, request'[q].kind = "list" PROVE PageRead(request[q])'
    <3>1. q = r /\ request'[q] = s
      BY <1>14, <2>3
    <3>2. QED
      BY <1>13, <3>1 DEF PageRead, Ascending, ToSet
  <2>4. QED
    BY <1>14, <2>2, <2>3 DEF ListingKnown
<1>16. AllowedTypeOK'
  BY <1>3, <1>7, <1>9 DEF AllowedTypeOK
<1>17. QED
  BY <1>7, <1>8, <1>15, <1>16 DEF AllowedInv

\* The records of a page are read batch after batch (524-548).
LEMMA ReadBatchStep ==
  ASSUME AllowedInv, AllowedAssumption, NEW r \in AdminRequests, ReadBatch(r)
  PROVE  AllowedInv'
<1>1. PICK q : q = request[r]
  OBVIOUS
<1>2. PICK s : s = [q EXCEPT !.clients = @ \o Batch(q), !.offset = @ + Concurrency]
  OBVIOUS
<1>3. /\ AllowedTypeOK /\ KnownStates /\ ListingKnown /\ q \in AdminStates
      /\ q.at = "listed" /\ q.kind = "list" /\ PageRead(q)
      /\ q.offset \in Nat /\ Len(q.keys) \in Nat /\ q.offset < Len(q.keys)
      /\ q.keys \in Seq(Ids) /\ q.clients \in Seq(Ids)
      /\ UNCHANGED <<allow, seen, next, named, steady, answered>>
      /\ Become(r, s) /\ Concurrency \in Nat \ {0}
  BY <1>1, <1>2 DEF AllowedInv, AllowedTypeOK, ReadBatch, KnownStates, ListingKnown, AdminStates, Listing,
                    AllowedAssumption
<1>4. /\ Len(q.clients) = q.offset /\ \A i \in DOMAIN q.clients : q.clients[i] = q.keys[i]
  BY <1>3 DEF PageRead
<1>5. PICK e : e = BatchEnd(q)
  OBVIOUS
<1>6. /\ e \in Nat /\ q.offset < e /\ e <= Len(q.keys)
      /\ e = IF q.offset + Concurrency < Len(q.keys) THEN q.offset + Concurrency ELSE Len(q.keys)
  BY <1>3, <1>5 DEF BatchEnd
<1>7. PICK all : all = q.clients \o Batch(q)
  OBVIOUS
<1>8. all \in Seq(Ids) /\ Len(all) = e /\ \A i \in DOMAIN all : all[i] = q.keys[i]
  <2>1. all = q.clients \o SubSeq(q.keys, q.offset + 1, e)
    BY <1>5, <1>7 DEF Batch
  <2>2. FirstOf(q.clients \o SubSeq(q.keys, q.offset + 1, e), q.keys, e, Ids)
    BY <1>3, <1>4, <1>6, PieceAfter
  <2>3. QED
    BY <2>1, <2>2 DEF FirstOf
<1>9. /\ s.at = "listed" /\ s.kind = "list" /\ s.keys = q.keys /\ s.cursor = q.cursor
      /\ s.offset = q.offset + Concurrency /\ s.clients = all
  BY <1>2, <1>3, <1>7 DEF AdminStates
<1>10. s \in AdminStates
  <2>1. q.offset + Concurrency \in Nat
    BY <1>3
  <2>2. s = [q EXCEPT !.clients = all, !.offset = q.offset + Concurrency]
    BY <1>2, <1>3, <1>7 DEF AdminStates
  <2>3. QED
    BY <1>3, <1>8, <2>1, <2>2 DEF AdminStates
<1>11. KnownStates' /\ request' \in [AdminRequests -> AdminStates]
  BY <1>3, <1>9, <1>10, StatesStay
<1>12. WritesKnown'
  BY <1>3, <1>9, <1>10, NoWrite
<1>13. PageRead(s)'
  <2>1. Len(s.clients) = IF s.offset < Len(s.keys) THEN s.offset ELSE Len(s.keys)
    BY <1>6, <1>8, <1>9
  <2>2. QED
    BY <1>3, <1>8, <1>9, <2>1 DEF PageRead, Ascending, ToSet
<1>14. request'[r] = s /\ \A o \in AdminRequests : o # r => request'[o] = request[o]
  BY <1>3, <1>10, Becoming
<1>15. ListingKnown'
  <2>1. ~Unread' /\ ~Unread
    BY <1>1, <1>3, <1>9, <1>14 DEF Unread
  <2>2. NamedSoFar'
    BY <1>3, <2>1 DEF ListingKnown, NamedSoFar, Ascending, ToSet
  <2>3. ASSUME NEW o \in AdminRequests, request'[o].kind = "list" PROVE o = r
    BY <1>1, <1>3, <1>14, <2>3 DEF ListingKnown
  <2>4. ASSUME NEW o \in AdminRequests, request'[o].kind = "list" PROVE PageRead(request[o])'
    <3>1. request'[o] = s
      BY <1>14, <2>3, <2>4
    <3>2. QED
      BY <1>13, <3>1 DEF PageRead, Ascending, ToSet
  <2>5. QED
    BY <2>2, <2>3, <2>4 DEF ListingKnown
<1>16. AllowedTypeOK'
  BY <1>3, <1>11 DEF AllowedTypeOK
<1>17. QED
  BY <1>11, <1>12, <1>15, <1>16 DEF AllowedInv

LEMMA IdSequences ==
  ASSUME NEW ids \in Seq(Ids)
  PROVE  /\ Len(ids) \in Nat /\ DOMAIN ids = 1 .. Len(ids)
         /\ \A i \in DOMAIN ids : i \in Nat /\ ids[i] \in Nat /\ ids[i] # 0
<1>1. Len(ids) \in Nat /\ DOMAIN ids = 1 .. Len(ids) /\ \A i \in DOMAIN ids : ids[i] \in Ids
  OBVIOUS
<1>2. \A i \in 1 .. Len(ids) : i \in Nat
  BY <1>1
<1>3. \A id \in Ids : id \in Nat /\ id # 0
  BY DEF Ids
<1>4. QED
  BY <1>1, <1>2, <1>3

\* A page that is answered names its clients after all that were named before (549).
LEMMA AnswerPageStep ==
  ASSUME AllowedInv, NEW r \in AdminRequests, AnswerPage(r)
  PROVE  AllowedInv'
<1>1. PICK q : q = request[r]
  OBVIOUS
<1>2. /\ AllowedTypeOK /\ KnownStates /\ ListingKnown /\ q \in AdminStates
      /\ q.at = "listed" /\ q.kind = "list" /\ PageRead(q)
      /\ q.offset \in Nat /\ Len(q.keys) \in Nat /\ ~(q.offset < Len(q.keys))
      /\ q.keys \in Seq(Ids) /\ q.clients \in Seq(Ids) /\ q.cursor \in CursorStates
      /\ UNCHANGED <<allow, seen, steady, answered>> /\ Become(r, Idle)
      /\ next \in CursorStates /\ next' = q.cursor /\ named' = named \o q.clients
      /\ named \in Seq(Ids) /\ steady \subseteq Ids
      /\ next.after \in Nat /\ q.cursor.after \in Nat
  BY <1>1 DEF AllowedInv, AllowedTypeOK, AnswerPage, KnownStates, ListingKnown, AdminStates,
              CursorStates
<1>3. PICK old, ks, all, n, m :
        /\ old = named /\ ks = q.clients /\ all = old \o ks /\ n = Len(old) /\ m = Len(ks)
  OBVIOUS
<1>4. /\ old \in Seq(Ids) /\ ks \in Seq(Ids) /\ n \in Nat /\ m \in Nat
      /\ DOMAIN old = 1 .. n /\ DOMAIN ks = 1 .. m
      /\ (\A i \in 1 .. n : old[i] \in Nat) /\ \A i \in 1 .. m : ks[i] \in Nat
  <2>1. old \in Seq(Ids) /\ ks \in Seq(Ids)
    BY <1>2, <1>3
  <2>2. QED
    BY <1>3, <2>1, IdSequences
<1>5. /\ all \in Seq(Ids) /\ Len(all) = n + m /\ DOMAIN all = 1 .. (n + m)
      /\ \A i \in 1 .. n : all[i] = old[i]
      /\ \A i \in 1 .. m : all[n + i] = ks[i]
  <2>1. /\ all \in Seq(Ids) /\ Len(all) = n + m
        /\ \A i \in 1 .. (n + m) : all[i] = IF i <= n THEN old[i] ELSE ks[i - n]
    BY <1>3, <1>4, ConcatProperties
  <2>2. \A i \in 1 .. n : i \in 1 .. (n + m)
    BY <1>4
  <2>3. \A i \in 1 .. m : n + i \in 1 .. (n + m) /\ ~(n + i <= n) /\ (n + i) - n = i
    BY <1>4
  <2>4. \A i \in 1 .. m : all[n + i] = ks[i]
    BY <2>1, <2>3
  <2>5. QED
    BY <2>1, <2>2, <2>4
<1>6. /\ Ascending(old) /\ Ascending(ks)
      /\ \A i \in 1 .. n, j \in 1 .. m : old[i] < ks[j]
      /\ m = Len(q.keys) /\ \A i \in 1 .. m : ks[i] = q.keys[i]
  <2>1. /\ m = Len(q.keys) /\ DOMAIN q.keys = 1 .. m /\ \A i \in 1 .. m : ks[i] = q.keys[i]
    <3>1. m = Len(q.keys) /\ \A i \in DOMAIN ks : ks[i] = q.keys[i]
      BY <1>2, <1>3 DEF PageRead
    <3>2. QED
      BY <1>2, <1>4, <3>1, IdSequences
  <2>2. Ascending(ks) /\ \A j \in 1 .. m : next.after < ks[j]
    BY <1>2, <1>4, <2>1 DEF PageRead, Ascending
  <2>3. Ascending(old)
    BY <1>2, <1>3 DEF ListingKnown, NamedSoFar
  <2>4. ASSUME NEW i \in 1 .. n, NEW j \in 1 .. m PROVE old[i] < ks[j]
    <3>1. next # Start
      <4>1. next = Start => n = 0
        BY <1>2, <1>3, EmptySeq DEF PageRead
      <4>2. QED
        BY <1>4, <2>4, <4>1
    <3>2. old[i] <= next.after
      BY <1>2, <1>3, <1>4, <3>1 DEF ListingKnown, NamedSoFar
    <3>3. QED
      BY <1>2, <1>4, <2>2, <3>2
  <2>5. QED
    BY <2>1, <2>2, <2>3, <2>4
<1>7. Ascending(all)
  <2>1. ASSUME NEW i \in 1 .. (n + m), NEW j \in 1 .. (n + m), i < j PROVE all[i] < all[j]
    <3>1. CASE j <= n
      <4>1. i \in 1 .. n /\ j \in 1 .. n
        BY <1>4, <2>1, <3>1
      <4>2. QED
        BY <1>4, <1>5, <1>6, <2>1, <4>1 DEF Ascending
    <3>2. CASE ~(j <= n) /\ i <= n
      <4>1. i \in 1 .. n /\ j - n \in 1 .. m /\ n + (j - n) = j
        BY <1>4, <2>1, <3>2
      <4>2. all[i] = old[i] /\ all[j] = ks[j - n]
        BY <1>5, <4>1
      <4>3. QED
        BY <1>6, <4>1, <4>2
    <3>3. CASE ~(j <= n) /\ ~(i <= n)
      <4>1. i - n \in 1 .. m /\ j - n \in 1 .. m /\ n + (i - n) = i /\ n + (j - n) = j /\ i - n < j - n
        BY <1>4, <2>1, <3>3
      <4>2. all[i] = ks[i - n] /\ all[j] = ks[j - n]
        BY <1>5, <4>1
      <4>3. QED
        BY <1>4, <1>6, <4>1, <4>2 DEF Ascending
    <3>4. QED
      BY <3>1, <3>2, <3>3
  <2>2. QED
    BY <1>5, <2>1 DEF Ascending
<1>8. ASSUME q.cursor # Start, NEW i \in 1 .. (n + m) PROVE all[i] <= q.cursor.after
  <2>1. next.after <= q.cursor.after /\ \A j \in 1 .. m : ks[j] <= q.cursor.after
    BY <1>2, <1>4, <1>6, <1>8 DEF PageRead
  <2>2. CASE i <= n
    <3>1. i \in 1 .. n /\ all[i] = old[i]
      BY <1>4, <1>5, <2>2
    <3>2. next # Start
      <4>1. next = Start => n = 0
        BY <1>2, <1>3, EmptySeq DEF PageRead
      <4>2. QED
        BY <1>4, <3>1, <4>1
    <3>3. old[i] <= next.after
      BY <1>2, <1>3, <1>4, <3>1, <3>2 DEF ListingKnown, NamedSoFar
    <3>4. QED
      BY <1>2, <1>4, <2>1, <3>1, <3>3
  <2>3. CASE ~(i <= n)
    <3>1. i - n \in 1 .. m /\ n + (i - n) = i
      BY <1>4, <2>3
    <3>2. QED
      BY <1>5, <2>1, <3>1
  <2>4. QED
    BY <2>2, <2>3
<1>9. ASSUME NEW id \in steady, q.cursor # Start => id <= q.cursor.after PROVE id \in ToSet(all)
  <2>1. id \in Nat /\ id # 0
    BY <1>2 DEF Ids
  <2>2. CASE id <= next.after
    <3>0. next # Start
      BY <2>1, <2>2, StartTyped
    <3>1. id \in ToSet(old)
      BY <1>2, <1>3, <2>1, <2>2, <3>0 DEF ListingKnown, NamedSoFar
    <3>2. PICK i \in 1 .. n : id = old[i]
      BY <1>4, <3>1 DEF ToSet
    <3>3. i \in DOMAIN all /\ all[i] = id
      BY <1>4, <1>5, <3>2
    <3>4. QED
      BY <3>3 DEF ToSet
  <2>3. CASE ~(id <= next.after)
    <3>1. id \in ToSet(q.keys)
      BY <1>2, <1>9, <2>1, <2>3 DEF PageRead
    <3>2. PICK i \in 1 .. m : id = ks[i]
      <4>1. DOMAIN q.keys = 1 .. m
        BY <1>2, <1>6, IdSequences
      <4>2. QED
        BY <1>6, <3>1, <4>1 DEF ToSet
    <3>3. n + i \in DOMAIN all /\ all[n + i] = id
      BY <1>4, <1>5, <3>2
    <3>4. QED
      BY <3>3 DEF ToSet
  <2>4. QED
    BY <2>2, <2>3
<1>10. Idle.kind = "none" /\ Idle.at = "idle" /\ Idle \in AdminStates
  BY IdleTyped DEF Idle
<1>11. KnownStates' /\ request' \in [AdminRequests -> AdminStates]
  BY <1>2, <1>10, StatesStay
<1>12. WritesKnown'
  BY <1>2, <1>10, NoWrite
<1>13. named' = all /\ next' = q.cursor
  BY <1>2, <1>3
<1>14. NamedSoFar'
  <2>1. steady' = steady /\ seen' = seen /\ steady \subseteq seen
    BY <1>2 DEF ListingKnown, NamedSoFar
  <2>2. Ascending(named)' /\ ToSet(named)' = ToSet(all) /\ DOMAIN named' = 1 .. (n + m)
    BY <1>5, <1>7, <1>13 DEF Ascending, ToSet
  <2>3. QED
    BY <1>8, <1>9, <1>13, <2>1, <2>2 DEF NamedSoFar
<1>15. \A o \in AdminRequests : request'[o].kind # "list"
  <2>1. request'[r] = Idle /\ \A o \in AdminRequests : o # r => request'[o] = request[o]
    BY <1>2, <1>10, Becoming
  <2>2. \A o \in AdminRequests : request[o].kind = "list" => o = r
    BY <1>1, <1>2 DEF ListingKnown
  <2>3. QED
    BY <1>10, <2>1, <2>2
<1>16. ListingKnown'
  BY <1>14, <1>15 DEF ListingKnown
<1>17. AllowedTypeOK'
  BY <1>2, <1>5, <1>11, <1>13 DEF AllowedTypeOK
<1>18. QED
  BY <1>11, <1>12, <1>16, <1>17 DEF AllowedInv

LEMMA AllowedStart ==
  ASSUME AllowedInit
  PROVE  AllowedInv
<1>1. /\ allow = {} /\ seen = {} /\ next = Start /\ named = <<>> /\ steady = {}
      /\ request = [r \in AdminRequests |-> Idle] /\ answered = [i \in Ids |-> "none"]
  BY DEF AllowedInit
<1>2. /\ Idle \in AdminStates /\ Idle.at = "idle" /\ Idle.kind = "none"
  BY IdleTyped DEF Idle
<1>3. AllowedTypeOK
  BY <1>1, <1>2, StartTyped, EmptySeq DEF AllowedTypeOK
<1>4. KnownStates
  BY <1>1, <1>2 DEF KnownStates
<1>5. WritesKnown
  BY <1>1, <1>2 DEF WritesKnown, Writing, AnswersHold
<1>6. ListingKnown
  BY <1>1, <1>2 DEF ListingKnown, NamedSoFar, Ascending, ToSet
<1>7. QED
  BY <1>3, <1>4, <1>5, <1>6 DEF AllowedInv

LEMMA AllowedStep ==
  ASSUME AllowedInv, AllowedAssumption, [AllowedNext]_allowedVars
  PROVE  AllowedInv'
<1>1. ASSUME NEW r \in AdminRequests, NEW kind \in {"create", "delete"}, NEW id \in Ids, Call(r, kind, id)
      PROVE  AllowedInv'
  BY <1>1, CallStep
<1>2. ASSUME NEW r \in AdminRequests, Put(r) \/ Delete(r) PROVE AllowedInv'
  BY <1>2, PutStep
<1>3. ASSUME NEW r \in AdminRequests, LookUp(r) \/ Confirm(r) \/ Fails(r) PROVE AllowedInv'
  BY <1>3, LookUpStep, ConfirmStep, FailsStep
<1>4. ASSUME NEW r \in AdminRequests, NEW cursor \in Cursors \cup {Start}, List(r, cursor)
      PROVE  AllowedInv'
  BY <1>4, ListStep
<1>5. ASSUME NEW r \in AdminRequests, ReadBatch(r) \/ AnswerPage(r) PROVE AllowedInv'
  BY <1>5, ReadBatchStep, AnswerPageStep
<1>6. CASE (\E id \in Ids : Propagate(id)) \/ UNCHANGED allowedVars
  BY <1>6, PropagateStep
<1>7. QED
  BY <1>1, <1>2, <1>3, <1>4, <1>5, <1>6 DEF AllowedNext

LEMMA AllowedInvariant == AllowedSpec => []AllowedInv
<1>1. AllowedInit => AllowedInv
  BY AllowedStart
<1>2. AllowedInv /\ [AllowedNext]_allowedVars => AllowedInv'
  BY AllowedStep, AllowedAssumption
<1>3. QED
  BY <1>1, <1>2, PTL DEF AllowedSpec

\* What an administrator was told of a client last holds of the store until somebody
\* else calls about it, for any number of requests that look up, write and delete
\* between each other and any lag of the edge (index.ts 450-493).
THEOREM AllowedAnswersHold == AllowedSpec => []AnswersHold
<1>1. AllowedInv => AnswersHold
  BY DEF AllowedInv, WritesKnown
<1>2. QED
  BY <1>1, AllowedInvariant, PTL

\* A listing names no client twice and, once a page says it is the last, has skipped none
\* that was listed all along, for any sizes of pages and batches and however short KV
\* cuts its pages, empty ones that still have a continuation included (502-549).
THEOREM AllowedListingComplete == AllowedSpec => []ListingComplete
<1>1. AllowedInv => ListingComplete
  <2>1. SUFFICES ASSUME AllowedInv PROVE ListingComplete
    OBVIOUS
  <2>2. Ascending(named) /\ (next = Start /\ Unread => steady \subseteq ToSet(named))
        /\ named \in Seq(Ids)
    BY <2>1 DEF AllowedInv, AllowedTypeOK, ListingKnown, NamedSoFar
  <2>3. ASSUME NEW i \in DOMAIN named, NEW j \in DOMAIN named, named[i] = named[j] PROVE i = j
    <3>1. named[i] \in Nat /\ named[j] \in Nat /\ i \in Nat /\ j \in Nat
      BY <2>2, IdSequences
    <3>2. ~(i < j) /\ ~(j < i)
      BY <2>2, <2>3, <3>1 DEF Ascending
    <3>3. QED
      BY <3>1, <3>2
  <2>4. QED
    BY <2>2, <2>3 DEF ListingComplete, Unread, ToSet
<1>2. QED
  BY <1>1, AllowedInvariant, PTL
=============================================================================
