----------------------------- MODULE AllowedClients -----------------------------
(***************************************************************************)
(* The allowlist of legacy clients and its administration                  *)
(* (src/index.ts over a Workers KV namespace).                             *)
(*                                                                         *)
(* KV is eventually consistent: a write is accepted at once, but what an   *)
(* edge reads and lists may lag behind.  The handlers never lock: a delete *)
(* reads and then deletes, and a listing lists one page of keys and then   *)
(* reads their records in batches.  An administrator reads a listing page  *)
(* by page, passing each page's cursor on.  Record contents are left out:  *)
(* a damaged or vanished record is listed by its name all the same.        *)
(***************************************************************************)
EXTENDS Naturals, Sequences, FiniteSets, SequencesExt

CONSTANTS AdminRequests, \* administrative requests being served at a time
          MaxId,         \* client ids are 1 .. MaxId, in the order KV lists them
          PageSize,      \* ADMIN_CLIENT_PAGE_SIZE: 100 in the code
          Concurrency,   \* readConcurrency: 4 in the code
          Turns          \* bound: cursors that KV has for one place in its list

ASSUME AllowedAssumption ==
  /\ MaxId \in Nat /\ PageSize \in Nat \ {0} /\ Concurrency \in Nat \ {0}
  /\ Turns \in Nat \ {0}

Ids == 1 .. MaxId

\* A cursor is opaque to the Worker.  To KV it is a place: all keys up to `after` are
\* behind it.  KV may have several cursors for one place, so a page can be empty and
\* still have a continuation.  No cursor at all is the start of a listing.
Cursors == [after : 0 .. MaxId, turn : 1 .. Turns]
Start == [after |-> 0, turn |-> 0]

VARIABLES allow,   \* ids that KV has accepted as allowed
          seen,    \* ids that the edge reads and lists
          request, \* what each request being served is at
          next,    \* the cursor with which the administrator's listing goes on
          named,   \* ids the listing has named so far
          steady,  \* history: ids the edge has listed throughout this listing
          answered \* history: id -> what the last undisputed answer said of it

allowedVars == <<allow, seen, request, next, named, steady, answered>>

Idle == [at |-> "idle", kind |-> "none", id |-> 0,
         alone |-> TRUE, \* history: no other write to this client overlapped
         keys |-> <<>>, offset |-> 0,
         clients |-> <<>>, cursor |-> Start]

AllowedInit ==
  /\ allow = {} /\ seen = {}
  /\ request = [r \in AdminRequests |-> Idle]
  /\ next = Start /\ named = <<>> /\ steady = {}
  /\ answered = [i \in Ids |-> "none"]

Become(r, q) == request' = [request EXCEPT ![r] = q]
Listing == <<next, named, steady>>

Writing(q, id) == request[q].id = id /\ request[q].kind \in {"create", "delete"}
Say(r, what) ==
  answered' = [answered EXCEPT ![request[r].id] = IF request[r].alone THEN what ELSE "none"]

-----------------------------------------------------------------------------
(* POST and DELETE /admin/clients *)

Call(r, kind, id) ==
  /\ request[r].at = "idle"
  /\ request' = [q \in AdminRequests |->
       IF q = r THEN [Idle EXCEPT !.at = "called", !.kind = kind, !.id = id,
                                  !.alone = ~\E o \in AdminRequests \ {r} : Writing(o, id)]
       ELSE IF Writing(q, id) THEN [request[q] EXCEPT !.alone = FALSE] ELSE request[q]]
  /\ answered' = [answered EXCEPT ![id] = "none"]
  /\ UNCHANGED <<allow, seen, Listing>>

Put(r) ==
  /\ request[r].at = "called" /\ request[r].kind = "create"
  /\ allow' = allow \cup {request[r].id}
  /\ Become(r, [request[r] EXCEPT !.at = "wrote"])
  /\ UNCHANGED <<seen, Listing, answered>>

\* A plausible slip: deleting an id that is not found counts as success.
MutNotFound(r) == "revoked"
\* The edge may not know of a record yet: 404, and nothing is deleted.
NotFound(r) == "none"

LookUp(r) ==
  LET id == request[r].id
  IN /\ request[r].at = "called" /\ request[r].kind = "delete"
     /\ \/ id \in seen /\ Become(r, [request[r] EXCEPT !.at = "read"]) /\ UNCHANGED answered
        \/ id \notin seen /\ Become(r, Idle) /\ Say(r, NotFound(r))
     /\ UNCHANGED <<allow, seen, Listing>>

Delete(r) ==
  /\ request[r].at = "read"
  /\ allow' = allow \ {request[r].id}
  /\ Become(r, [request[r] EXCEPT !.at = "wrote"])
  /\ UNCHANGED <<seen, Listing, answered>>

\* 201 or 204.
Confirm(r) ==
  /\ request[r].at = "wrote"
  /\ Say(r, IF request[r].kind = "create" THEN "allowed" ELSE "revoked")
  /\ Become(r, Idle)
  /\ UNCHANGED <<allow, seen, Listing>>

-----------------------------------------------------------------------------
(* GET /admin/clients *)

\* What KV passes over from the cursor it is given to the one it returns, or to the end.
Passed(cursor) ==
  {id \in seen : next.after < id /\ (cursor # Start => id <= cursor.after)}

Ascending(keys) == \A i, j \in DOMAIN keys : i < j => keys[i] < keys[j]

\* KV lists a page of what follows the cursor, in order, at most PageSize keys and possibly
\* fewer or none, and says that these were the last (then there is no cursor: Start) or
\* where it goes on.  An answer with the very cursor that was sent is an error.
List(r, cursor) ==
  /\ request[r].at = "idle"
  /\ \A q \in AdminRequests : request[q].kind # "list"
  /\ cursor = Start \/ (cursor # next /\ next.after <= cursor.after)
  /\ Cardinality(Passed(cursor)) <= PageSize
  /\ \E keys \in [1 .. Cardinality(Passed(cursor)) -> Passed(cursor)] :
       /\ Ascending(keys) /\ ToSet(keys) = Passed(cursor)
       /\ Become(r, [Idle EXCEPT !.at = "listed", !.kind = "list",
                                 !.keys = keys, !.cursor = cursor])
  /\ IF next = Start THEN steady' = seen /\ named' = <<>> ELSE UNCHANGED <<steady, named>>
  /\ UNCHANGED <<allow, seen, next, answered>>

BatchEnd(q) == IF q.offset + Concurrency < Len(q.keys) THEN q.offset + Concurrency ELSE Len(q.keys)

\* A plausible slip: the offset skips the first key of every batch but the first.
MutBatch(q) == SubSeq(q.keys, q.offset + (IF q.offset = 0 THEN 1 ELSE 2), BatchEnd(q))
\* The keys whose records are read together; they stay in list order.
Batch(q) == SubSeq(q.keys, q.offset + 1, BatchEnd(q))

\* All reads of a batch have settled; vanished and damaged records keep their names.
ReadBatch(r) ==
  /\ request[r].at = "listed" /\ request[r].offset < Len(request[r].keys)
  /\ Become(r, [request[r] EXCEPT !.clients = @ \o Batch(request[r]),
                                  !.offset = @ + Concurrency])
  /\ UNCHANGED <<allow, seen, Listing, answered>>

\* The page is answered; the administrator goes on with its cursor or is done.
AnswerPage(r) ==
  /\ request[r].at = "listed" /\ request[r].offset >= Len(request[r].keys)
  /\ next' = request[r].cursor
  /\ named' = named \o request[r].clients
  /\ Become(r, Idle)
  /\ UNCHANGED <<allow, seen, steady, answered>>

\* A KV call throws, or a page is invalid: 500.  The administrator asks again.
Fails(r) ==
  /\ request[r].at # "idle"
  /\ Become(r, Idle)
  /\ steady' = IF request[r].kind = "list" /\ next = Start THEN {} ELSE steady
  /\ UNCHANGED <<allow, seen, next, named, answered>>

\* What KV has accepted about a client reaches the edge.
Propagate(id) ==
  /\ (id \in seen) # (id \in allow)
  /\ seen' = IF id \in allow THEN seen \cup {id} ELSE seen \ {id}
  /\ steady' = steady \cap seen'
  /\ UNCHANGED <<allow, request, next, named, answered>>

AllowedNext ==
  \/ \E r \in AdminRequests :
       \/ \E kind \in {"create", "delete"}, id \in Ids : Call(r, kind, id)
       \/ Put(r)
       \/ LookUp(r)
       \/ Delete(r)
       \/ Confirm(r)
       \/ \E cursor \in Cursors \cup {Start} : List(r, cursor)
       \/ ReadBatch(r)
       \/ AnswerPage(r)
       \/ Fails(r)
  \/ \E id \in Ids : Propagate(id)

AllowedSpec == AllowedInit /\ [][AllowedNext]_allowedVars

-----------------------------------------------------------------------------
(* Properties *)

\* An answer can be relied on: after 201 the client is allowed and after 204 it is
\* not, until another request about it, although a delete acts on what a lagging
\* edge has read (478-493).
AnswersHold ==
  \A id \in Ids : /\ answered[id] = "allowed" => id \in allow
                  /\ answered[id] = "revoked" => id \notin allow

\* A listing read page by page, until a page says it is the last, names no client twice
\* and leaves out none that was listed all along, whatever is added or removed meanwhile,
\* however short KV cuts its pages (down to an empty one that still has a continuation,
\* README.md 134), and although records are read in batches (502-549).
ListingComplete ==
  /\ \A i, j \in DOMAIN named : named[i] = named[j] => i = j
  /\ next = Start /\ (\A r \in AdminRequests : request[r].kind # "list") =>
       steady \subseteq {named[i] : i \in DOMAIN named}
=============================================================================
