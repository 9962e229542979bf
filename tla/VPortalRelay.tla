----------------------------- MODULE VPortalRelay -----------------------------
(***************************************************************************)
(* The VPortal relay of one Worker isolate (src/vportal.ts).               *)
(*                                                                         *)
(* Requests share the module-level counter activeRelays.  Between awaits a *)
(* handler runs without interruption, so the steps are: the wait for the   *)
(* rate limiter, the reading of the request body with all checks up to the *)
(* start of the relay, each event of the upstream call or of its timer,    *)
(* and the finally block that gives the place back.  Requests wait for     *)
(* each other nowhere.  An evicted isolate loses its counter and its       *)
(* requests together.                                                      *)
(***************************************************************************)
EXTENDS Naturals, FiniteSets

CONSTANTS Requests,   \* requests in the isolate at a time
          Concurrent  \* VPORTAL_LIMITS.concurrent: 2 in the code

ASSUME RelayAssumption == Concurrent \in Nat \ {0} /\ IsFiniteSet(Requests)

VARIABLES activeRelays, \* the counter
          at,           \* request -> where its handler is
          auth,         \* request -> did requireInstallation accept it
          timer,        \* request -> "off", "armed" or "fired"
          reply         \* request -> what it was answered last

vars == <<activeRelays, at, auth, timer, reply>>

Places == {"idle", "limiting", "reading", "fetching", "receiving", "settled"}

Refusals == {"405", "429", "401", "503 unavailable", "415", "413", "400", "403", "503 busy", "502"}
Outcomes == {"ok", "upstream_http", "invalid_json", "response_limit", "transport", "timeout"}

RelayTypeOK ==
  /\ activeRelays \in 0 .. Concurrent
  /\ at \in [Requests -> Places]
  /\ auth \in [Requests -> BOOLEAN]
  /\ timer \in [Requests -> {"off", "armed", "fired"}]
  /\ reply \in [Requests -> Refusals \cup Outcomes \cup {"none"}]

Init ==
  /\ activeRelays = 0
  /\ at = [r \in Requests |-> "idle"]
  /\ auth = [r \in Requests |-> FALSE]
  /\ timer = [r \in Requests |-> "off"]
  /\ reply = [r \in Requests |-> "none"]

Go(r, place) == at' = [at EXCEPT ![r] = place]
Reply(r, what) == reply' = [reply EXCEPT ![r] = what]

\* Relays that hold one of the places.
Relaying == {r \in Requests : at[r] \in {"fetching", "receiving", "settled"}}

-----------------------------------------------------------------------------
(* Admission *)

\* Method, credentials (looked up, not yet enforced) and a configured limiter.
Arrive(r, accepted) ==
  /\ at[r] = "idle"
  /\ auth' = [auth EXCEPT ![r] = accepted]
  /\ Go(r, "limiting")
  /\ Reply(r, "none")
  /\ UNCHANGED <<activeRelays, timer>>

\* Requests turned away before anything is awaited.
TurnAway(r) ==
  /\ at[r] = "idle"
  /\ \E status \in {"405", "503 unavailable"} : Reply(r, status)
  /\ UNCHANGED <<activeRelays, at, auth, timer>>

\* Quota first, and only then the credentials: failed logins use up quota too.
FirstRefusal(r, granted) ==
  IF ~granted THEN {"429"} ELSE IF ~auth[r] THEN {"401"} ELSE {}

\* The limiter has answered; configuration and content type are checked at once.
Limited(r, granted) ==
  /\ at[r] = "limiting"
  /\ \/ /\ FirstRefusal(r, granted) = {}
        /\ Go(r, "reading")
        /\ UNCHANGED reply
     \/ /\ \E status \in FirstRefusal(r, granted)
              \cup (IF FirstRefusal(r, granted) = {} THEN {"503 unavailable", "415"} ELSE {}) :
             Reply(r, status)
        /\ Go(r, "idle")
  /\ UNCHANGED <<activeRelays, auth, timer>>

\* The call of the limiter throws; no place is held yet.
LimiterFails(r) ==
  /\ at[r] = "limiting"
  /\ Reply(r, "502")
  /\ Go(r, "idle")
  /\ UNCHANGED <<activeRelays, auth, timer>>

\* The body is too large, is no valid request, or names no configured endpoint.
BadBody(r) ==
  /\ at[r] = "reading"
  /\ \E status \in {"413", "400", "403"} : Reply(r, status)
  /\ Go(r, "idle")
  /\ UNCHANGED <<activeRelays, auth, timer>>

Busy == activeRelays >= Concurrent

RefuseBusy(r) ==
  /\ at[r] = "reading" /\ Busy
  /\ Reply(r, "503 busy")
  /\ Go(r, "idle")
  /\ UNCHANGED <<activeRelays, auth, timer>>

\* A plausible slip: the deadline is not armed before the call.
MutArmTimer(r) == UNCHANGED timer
ArmTimer(r) == timer' = [timer EXCEPT ![r] = "armed"]

\* No await separates the check from the increment.
StartRelay(r) ==
  /\ at[r] = "reading" /\ ~Busy
  /\ activeRelays' = activeRelays + 1
  /\ ArmTimer(r)
  /\ Go(r, "fetching")
  /\ UNCHANGED <<auth, reply>>

-----------------------------------------------------------------------------
(* relay(): the first of the deadline and the upstream call to settle wins. *)

Settle(r, outcome) ==
  /\ Reply(r, outcome)
  /\ Go(r, "settled")
  /\ UNCHANGED <<activeRelays, auth>>

\* Any status but 2xx, and 204; redirects are not followed.
UpstreamRefuses(r) ==
  at[r] = "fetching" /\ Settle(r, "upstream_http") /\ UNCHANGED timer

UpstreamAnswers(r) ==
  /\ at[r] = "fetching"
  /\ Go(r, "receiving")
  /\ UNCHANGED <<activeRelays, auth, timer, reply>>

ConnectionFails(r) ==
  /\ at[r] \in {"fetching", "receiving"}
  /\ Settle(r, "transport") /\ UNCHANGED timer

\* The whole body arrived, in bounds or not, JSON or not.
BodyEnds(r) ==
  /\ at[r] = "receiving"
  /\ \E outcome \in {"ok", "invalid_json", "response_limit"} : Settle(r, outcome)
  /\ UNCHANGED timer

\* A plausible slip: the abort that the deadline causes is taken for a transport error.
MutDeadlineCode(r) == "transport"
DeadlineCode(r) == "timeout"

\* The deadline aborts the call; what the call makes of that is no longer heard.
DeadlinePasses(r) ==
  /\ at[r] \in {"fetching", "receiving"} /\ timer[r] = "armed"
  /\ timer' = [timer EXCEPT ![r] = "fired"]
  /\ Settle(r, DeadlineCode(r))

\* A plausible slip: the place is given back on success only.
MutPlacesLeft(r) == IF reply[r] = "ok" THEN activeRelays - 1 ELSE activeRelays
PlacesLeft(r) == activeRelays - 1

\* Both finally blocks.
Release(r) ==
  /\ at[r] = "settled"
  /\ activeRelays' = PlacesLeft(r)
  /\ timer' = [timer EXCEPT ![r] = IF @ = "armed" THEN "off" ELSE @]
  /\ Go(r, "idle")
  /\ UNCHANGED <<auth, reply>>

\* The platform may drop the isolate with everything in it.
Evict ==
  /\ activeRelays' = 0
  /\ at' = [r \in Requests |-> "idle"]
  /\ timer' = [r \in Requests |-> "off"]
  /\ UNCHANGED <<auth, reply>>

Next ==
  \/ Evict
  \/ \E r \in Requests :
       \/ \E accepted \in BOOLEAN : Arrive(r, accepted)
       \/ TurnAway(r)
       \/ \E granted \in BOOLEAN : Limited(r, granted)
       \/ LimiterFails(r)
       \/ BadBody(r)
       \/ RefuseBusy(r)
       \/ StartRelay(r)
       \/ UpstreamRefuses(r)
       \/ UpstreamAnswers(r)
       \/ ConnectionFails(r)
       \/ BodyEnds(r)
       \/ DeadlinePasses(r)
       \/ Release(r)

Spec == Init /\ [][Next]_vars

(* Timers fire and settled promises are resumed.  Nothing is assumed of the   *)
(* upstream, nor of callers that are still sending their bodies.             *)
FairSpec ==
  /\ Spec
  /\ \A r \in Requests : WF_vars(DeadlinePasses(r)) /\ WF_vars(Release(r))

-----------------------------------------------------------------------------
(* Properties *)

\* The counter says exactly how many relays hold a place, on every way out of a
\* relay: no failure, timeout or eviction leaks a place or returns one twice, and
\* at most Concurrent responses are buffered at a time (vportal.ts 173-178).
PlacesAccounted ==
  /\ activeRelays = Cardinality(Relaying)
  /\ Cardinality(Relaying) <= Concurrent

\* No request whose credentials were rejected ever holds a place or reaches the
\* upstream, although its credentials are looked up before the limiter is awaited
\* and enforced after it (146-152).
OnlyAcceptedRelay == \A r \in Relaying : auth[r]

\* And a caller is told "timeout" exactly when its deadline passed before the upstream
\* call had settled, and an answer coming in after that is not relayed (103-139).
TimeoutMeansDeadline ==
  \A r \in Requests : at[r] = "settled" => (reply[r] = "timeout" <=> timer[r] = "fired")

\* What was decided before a wait still holds after it, in both cases.
DecisionsHold == OnlyAcceptedRelay /\ TimeoutMeansDeadline

\* A place is always given back, even if the upstream accepts the call and then
\* stays silent for ever (108, 178).
PlacesComeBack == \A r \in Requests : r \in Relaying ~> r \notin Relaying
=============================================================================
