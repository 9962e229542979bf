----------------------------- MODULE SwopHandoff -----------------------------
(***************************************************************************)
(* What the session store promises, with no clock, credentials or storage. *)
(*                                                                         *)
(* A session occupies one short code while it lasts.  Its phone side may   *)
(* offer one value; its player side may be handed that value once; and a   *)
(* session that is over never comes back.  A code has one tenant at a      *)
(* time, so a code is free for a new session only after the earlier one    *)
(* has run out.  SwopSession implements this specification.                *)
(***************************************************************************)
EXTENDS Naturals

CONSTANTS Codes,       \* the short codes
          MaxSessions, \* sessions are numbered 1 .. MaxSessions in order of birth
          Values,      \* what a phone may offer
          NoValue

Sessions == 1 .. MaxSessions

VARIABLES stage,   \* session -> how far it has come
          tenant,  \* code -> the session that occupies it, or 0
          offer,   \* session -> the value offered, or NoValue
          handed   \* session -> how many times its value was handed out

hvars == <<stage, tenant, offer, handed>>

Stages == {"unborn", "open", "offered", "taken", "over"}

HandoffTypeOK ==
  /\ stage \in [Sessions -> Stages]
  /\ tenant \in [Codes -> Sessions \cup {0}]
  /\ offer \in [Sessions -> Values \cup {NoValue}]
  /\ handed \in [Sessions -> Nat]

HandoffInit ==
  /\ stage = [s \in Sessions |-> "unborn"]
  /\ tenant = [c \in Codes |-> 0]
  /\ offer = [s \in Sessions |-> NoValue]
  /\ handed = [s \in Sessions |-> 0]

\* A free code gets a session that never existed before.
Open(c, s) ==
  /\ tenant[c] = 0
  /\ stage[s] = "unborn"
  /\ stage' = [stage EXCEPT ![s] = "open"]
  /\ tenant' = [tenant EXCEPT ![c] = s]
  /\ UNCHANGED <<offer, handed>>

Offer(s, v) ==
  /\ stage[s] = "open"
  /\ stage' = [stage EXCEPT ![s] = "offered"]
  /\ offer' = [offer EXCEPT ![s] = v]
  /\ UNCHANGED <<tenant, handed>>

Hand(s) ==
  /\ stage[s] = "offered"
  /\ stage' = [stage EXCEPT ![s] = "taken"]
  /\ handed' = [handed EXCEPT ![s] = @ + 1]
  /\ UNCHANGED <<tenant, offer>>

\* Time runs out for the tenants of some codes: untaken values are lost.
RunOut(C) ==
  /\ \A c \in C : tenant[c] # 0
  /\ tenant' = [c \in Codes |-> IF c \in C THEN 0 ELSE tenant[c]]
  /\ stage' = [s \in Sessions |->
                 IF (\E c \in C : tenant[c] = s) /\ stage[s] # "taken"
                 THEN "over" ELSE stage[s]]
  /\ UNCHANGED <<offer, handed>>

HandoffNext ==
  \/ \E c \in Codes, s \in Sessions : Open(c, s)
  \/ \E s \in Sessions, v \in Values : Offer(s, v)
  \/ \E s \in Sessions : Hand(s)
  \/ \E C \in SUBSET Codes : RunOut(C)

HandoffSpec == HandoffInit /\ [][HandoffNext]_hvars
==============================================================================
