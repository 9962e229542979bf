-------------------------- MODULE MCAllowedClients --------------------------
(***************************************************************************)
(* Two small instances of AllowedClients in one run.  A behaviour is of    *)
(* the scene it starts in:                                                 *)
(*   writes:  two administrators add and delete clients, and overlap;      *)
(*   listing: one lists page by page while another adds and deletes, whose *)
(*            calls end without an answer; answers are the other scene's.    *)
(***************************************************************************)
EXTENDS AllowedClients

VARIABLE scene

Writers == {r \in AdminRequests : request[r].kind \in {"create", "delete"}}

Within ==
  CASE scene = "writes" -> \A r \in AdminRequests : request[r].kind # "list"
    [] scene = "listing" -> /\ Cardinality(Writers) <= 1
                            /\ \A id \in Ids : answered[id] = "none"

MCInit == AllowedInit /\ scene \in {"writes", "listing"}
MCNext == AllowedNext /\ UNCHANGED scene /\ Within'
MCSpec == MCInit /\ [][MCNext]_<<allowedVars, scene>>

\* Sound: no request is told from another.
Symmetry == Permutations(AdminRequests)
=============================================================================
