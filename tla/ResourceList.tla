---------------------------- MODULE ResourceList ----------------------------
(***************************************************************************)
(* RL::Heap and RL::Presentity: a list of contacts that is kept by an XCAP *)
(* server.  Each request has a session of its own, so that the server may  *)
(* take them, and answer them, in any order; nothing is changed here but   *)
(* by reading the whole list again.                                        *)
(***************************************************************************)
EXTENDS FiniteSets, Naturals, SequencesExt

CONSTANTS
  Uris,
  MaxPending,     \* bound: requests without an answer
  MaxInterest     \* bound: of `interest` when the server takes a read

ResourceListAssumption == MaxPending \in Nat /\ MaxInterest \in Nat

VARIABLES
  document,       \* the entries at the server
  shown,          \* how many presentities each uri has in the heap
  pending,        \* XCAP::CoreImpl::pending_sessions
  interest,       \* what PresenceCore counts for this list
  complete,       \* was the newest read answered well?
  revived         \* entries that an edit has put there again

vars == <<document, shown, pending, interest, complete, revived>>

Nothing == [u \in Uris |-> 0]

(* .current: the heap was not refreshed since; .answer: "" until the server *)
(* has taken it.  Everything but "200 OK" is an error, also that an entry   *)
(* was created.                                                             *)
Request(op, u) ==
  [op |-> op, uri |-> u, current |-> TRUE, answer |-> "", entries |-> {}]

TypeOK ==
  /\ document \subseteq Uris /\ revived \subseteq Uris
  /\ shown \in [Uris -> Nat]
  /\ interest \in [Uris -> Nat]
  /\ Len(pending) <= MaxPending
  /\ complete \in BOOLEAN

-----------------------------------------------------------------------------
(* The requests; the server takes one, or it or its answer gets lost. *)

Send(requests) ==
  /\ pending' = requests
  /\ Len(requests) <= MaxPending

Answered(i, answer) ==
  pending' = [pending EXCEPT ![i].answer = answer,
                ![i].entries = IF pending[i].op = "read" THEN document ELSE {}]

Takes(op, u) ==
  CASE op = "read"  -> UNCHANGED <<document, revived>>
    [] op = "erase" -> document' = document \ {u} /\ revived' = revived \ {u}
    [] op = "write" -> document' = document \cup {u} /\ revived' = revived \ {u}
    [] OTHER        -> /\ document' = document \cup {u}
                       /\ revived' = revived \cup ({u} \ document)

Serve(i) ==
  LET r == pending[i]
  IN  /\ r.answer = ""
      /\ \/ /\ r.op = "read" => \A u \in Uris : interest[u] < MaxInterest
            /\ Takes(r.op, r.uri)
            /\ Answered(i, IF r.op = "read" \/ r.uri \in document
                             THEN "ok" ELSE "error")
         \/ /\ Takes(r.op, r.uri) \/ UNCHANGED <<document, revived>>
            /\ Answered(i, "error")
      /\ UNCHANGED <<shown, interest, complete>>

-----------------------------------------------------------------------------
(* The heap *)

(* What is on its way for the presentities of before finds them no more     *)
(* (they are freed: that nothing comes of it is one of the outcomes).       *)
Refresh(requests) ==
  /\ Send(Append([i \in DOMAIN requests |->
                    [requests[i] EXCEPT !.current = FALSE]],
                 Request("read", "")))
  /\ shown' = Nothing /\ complete' = FALSE
  /\ UNCHANGED interest

refresh == Refresh(pending) /\ UNCHANGED <<document, revived>>

(* A mutation: an error of new_entry_result ends it. *)
ReloadsUnlessItFailed(r) ==
  \/ r.op = "write" /\ r.answer = "ok"
  \/ r.op = "erase" /\ r.current
  \/ r.op = "move" /\ r.current
  \/ r.op = "edit" /\ r.current /\ r.answer = "error"

(* new_entry_result, erase_result and save_result. *)
Reloads(r) ==
  \/ r.op = "write"
  \/ r.op = "erase" /\ r.current
  \/ r.op = "move" /\ r.current
  \/ r.op = "edit" /\ r.current /\ r.answer = "error"

(* on_document_received: a presentity for each entry, beside those that are *)
(* there; each of them fetches its presence.                                *)
Received(entries) ==
  LET More(f) == [u \in Uris |-> f[u] + (IF u \in entries THEN 1 ELSE 0)]
  IN  shown' = More(shown) /\ interest' = More(interest)

Result(i) ==
  LET r == pending[i]
      others == RemoveAt(pending, i)
  IN  /\ r.answer # ""
      /\ \/ /\ r.op = "read" /\ r.answer = "ok"
            /\ Received(r.entries)
            /\ complete' = (complete \/ r.current)
            /\ Send(others)
         \/ Reloads(r) /\ Refresh(others)
         \/ /\ ~Reloads(r) /\ (r.op = "read" => r.answer = "error")
            /\ Send(others) /\ UNCHANGED <<shown, interest, complete>>
      /\ UNCHANGED <<document, revived>>

(* list_node may be gone with its document; then this may send nothing. *)
new_entry(u) ==
  /\ Send(Append(pending, Request("write", u)))
  /\ UNCHANGED <<document, shown, interest, complete, revived>>

-----------------------------------------------------------------------------
(* The presentities *)

Unfetched(u) == interest' = [interest EXCEPT ![u] = IF @ = 0 THEN 0 ELSE @ - 1]

(* The name or the groups; or the uri, of which the old one is sent. *)
edit_presentity(u, op) ==
  /\ shown[u] > 0
  /\ Send(Append(pending, Request(op, u)))
  /\ IF op = "move" THEN Unfetched(u) ELSE UNCHANGED interest
  /\ UNCHANGED <<document, shown, complete, revived>>

(* The node is freed, and used all the same by what is asked for meanwhile. *)
remove(u) ==
  /\ shown[u] > 0
  /\ Send(Append(pending, Request("erase", u)))
  /\ Unfetched(u)
  /\ UNCHANGED <<document, shown, complete, revived>>

(* The constructor refreshes. *)
Init ==
  /\ document \in SUBSET Uris /\ revived = {}
  /\ shown = Nothing /\ interest = Nothing /\ complete = FALSE
  /\ pending = <<Request("read", "")>>

Next ==
  \/ refresh
  \/ \E u \in Uris : new_entry(u) \/ remove(u)
  \/ \E u \in Uris, op \in {"edit", "move"} : edit_presentity(u, op)
  \/ \E i \in DOMAIN pending : Serve(i) \/ Result(i)

Spec == Init /\ [][Next]_vars

-----------------------------------------------------------------------------
(* Properties *)

(* When all is answered and the newest read was answered well, each entry   *)
(* of the document is shown, and the presence of each contact that is shown *)
(* is fetched, in whatever order the server took the requests and answered  *)
(* them.  Not so an entry that was removed while an edit of it was on its   *)
(* way: it is in the document again, and nobody is told.                    *)
NothingIsMissing ==
  pending = <<>> /\ complete =>
    \A u \in Uris :
      /\ u \in document \ revived => shown[u] > 0
      /\ interest[u] >= shown[u]

(* The heap shows each entry once.  Not kept: two refreshes at a time add   *)
(* all of it twice.                                                         *)
EachIsShownOnce == pending = <<>> => \A u \in Uris : shown[u] <= 1

(* presence-core.h:123, "or now unneeded".  Not kept: the destructor of a   *)
(* presentity lets go of nothing, so that each refresh adds to the interest.*)
InterestEnds == pending = <<>> => \A u \in Uris : interest[u] <= shown[u]
=============================================================================
