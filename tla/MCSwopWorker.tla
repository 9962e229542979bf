---------------------------- MODULE MCSwopWorker ----------------------------
(***************************************************************************)
(* Three small instances of SwopWorker in one run, two requests at a time  *)
(* in each.  A behaviour is of the scene it starts in:                     *)
(*   codes:  players ask for sessions over occupied codes;                 *)
(*   phones: everything that happens around one session at one code, with  *)
(*           phones that race and submit different values;                 *)
(*   reuse:  one code has a second session while requests of the time of   *)
(*           the first are under way.  Legacy callers only: their sessions *)
(*           let late phones in, those of installations do not.            *)
(* `Within` only leaves calls out: what is being served can always go on.  *)
(***************************************************************************)
EXTENDS SwopWorker

CONSTANT SpareCode \* the code that only the scene "codes" uses

VARIABLE scene

Kinds(kinds) == \A r \in Slots : slot[r].kind \in kinds \cup {"none"}

OneCode == latest[SpareCode] = 0 /\ \A r \in Slots : slot[r].code # SpareCode

OneLifetime == now <= 1 /\ \A s \in Sessions : book[s].deadline <= 1

OneOfAKind ==
  \A q, r \in Slots : slot[q].kind = slot[r].kind /\ slot[q].kind # "none" => q = r

Within ==
  CASE scene = "codes" -> OneLifetime /\ Kinds({"create"})
    [] scene = "phones" -> OneLifetime /\ OneCode
    [] scene = "reuse" -> /\ OneCode /\ Kinds({"create", "submit"}) /\ OneOfAKind
                          /\ \A r \in Slots : slot[r].inst = NoInst

MCInit == WorkerInit /\ scene \in {"codes", "phones", "reuse"}

MCNext == WorkerNext /\ UNCHANGED scene /\ Within'

MCSpec ==
  /\ MCInit /\ [][MCNext]_<<allVars, scene>>
  /\ \A r \in Slots : WF_allVars(Serve(r))
=============================================================================
