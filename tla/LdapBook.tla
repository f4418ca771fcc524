------------------------------ MODULE LdapBook ------------------------------
(***************************************************************************)
(* OPENLDAP::Book: an address book that searches a directory.  A refresh   *)
(* binds, searches and collects, all in the main thread; where the server  *)
(* does not answer within a second, it goes on from a timer, as long as    *)
(* its patience lasts.  What runs without waiting for a timer is one step: *)
(* so each function here yields the set of what a book may be after it.    *)
(***************************************************************************)
EXTENDS Integers, Sequences, FiniteSets

CONSTANTS
  Filters,        \* what the user searches for
  Entries,        \* contacts of the directory
  Matching,       \* the entries that match a filter
  Header          \* the first entry of every answer of ekiga.net

LdapBookAssumption ==
  /\ Matching \in [Filters -> SUBSET Entries]
  /\ IsFiniteSet(Entries) /\ Header \in Entries

VARIABLE
  book    \* .context   is ldap_context open?
          \* .asked     requests that the server has yet to answer
          \* .patience  looks at the server that are left
          \* .timers    delayed calls of refresh_bound and refresh_result
          \* .status, .number   what is shown of the search
          \* .contacts  how often each entry is shown
          \* .filter, .sasl, .ekiga   the settings; the last: is uri_host
          \*             that of ekiga.net?
          \* .searched  is the connection one to ekiga.net?
          \* .exists    false once it was removed
          \* .counted   history: what .ekiga was when the users were counted

Statuses == {"none", "refreshing", "error", "no server", "no search",
             "waiting", "found"}

TypeOK ==
  book \in [context : BOOLEAN, asked : Seq({"bind"} \cup Filters),
            patience : 0..3, timers : Seq({"refresh_bound", "refresh_result"}),
            status : Statuses, number : Int, contacts : [Entries -> Nat],
            filter : Filters, sasl : BOOLEAN, ekiga : BOOLEAN,
            searched : BOOLEAN, counted : BOOLEAN, exists : BOOLEAN]

Nothing == [e \in Entries |-> 0]

-----------------------------------------------------------------------------
(* The refresh *)

Unbound(b, status) ==
  [b EXCEPT !.context = FALSE, !.asked = <<>>, !.status = status]

(* A mutation: who gives up leaves the connection open. *)
WaitsAndLeaves(b, next, status) ==
  IF b.patience > 0
    THEN {[b EXCEPT !.patience = @ - 1, !.timers = Append(@, next)]}
    ELSE {[b EXCEPT !.status = status]}

(* Nothing came within a second: again in 12, 21, 30 seconds, or give up. *)
Waits(b, next, status) ==
  IF b.patience > 0
    THEN {[b EXCEPT !.patience = @ - 1, !.timers = Append(@, next)]}
    ELSE {Unbound(b, status)}

(* The entries of an answer that have a name and an address.  Any message   *)
(* is taken for the answer of the search, also the one to the bind.         *)
First(ekiga) == IF ekiga THEN {Header} ELSE {}

Answers(b, request) ==
  IF request = "bind"
    THEN {{}} ELSE {First(b.searched) \cup s : s \in SUBSET Matching[request]}

(* The first entry of ekiga.net is not counted: it is there if the host was *)
(* that one when the search began, and left out if it is so now.            *)

refresh_result(b) ==
  Waits(b, "refresh_result", "no search")
    \cup {[Unbound(b, "found") EXCEPT
             !.contacts = [e \in Entries |->
                             b.contacts[e] + (IF e \in found THEN 1 ELSE 0)],
             !.number = Cardinality(found) - Cardinality(First(b.ekiga)),
             !.counted = b.ekiga] :
           found \in IF b.asked = <<>> THEN {} ELSE Answers(b, Head(b.asked))}

(* ldap_search_ext may fail. *)
Search(b) ==
  {Unbound(b, "no search")}
    \cup refresh_result([b EXCEPT !.asked = Append(@, b.filter),
                                  !.status = "waiting", !.patience = 3])

refresh_bound(b) ==
  IF b.sasl
    THEN Search(b)
    ELSE Waits(b, "refresh_bound", "no server")
           \cup (IF b.asked = <<>> THEN {}
                                   ELSE Search([b EXCEPT !.asked = Tail(@)]))

(* The initialisation, TLS or the bind may fail.  A bind by SASL is waited  *)
(* for, the other is only sent.                                             *)
refresh_start(b) ==
  {Unbound(b, "error")}
    \cup refresh_bound([b EXCEPT !.context = TRUE, !.status = "refreshing",
                          !.searched = b.ekiga,
                          !.asked = IF b.sasl THEN <<>> ELSE <<"bind">>,
                          !.patience = 3])

(* A mutation: a second search is begun beside the first. *)
RefreshAtOnce(b) == refresh_start([b EXCEPT !.contacts = Nothing])

Refresh(b) ==
  LET flushed == [b EXCEPT !.contacts = Nothing]
  IN  IF b.context THEN {flushed} ELSE refresh_start(flushed)

-----------------------------------------------------------------------------
refresh == book.exists /\ book' \in Refresh(book)

set_search_filter(f) ==
  book.exists /\ book' \in Refresh([book EXCEPT !.filter = f])

(* The form; of the settings, those that the refresh tells apart. *)
on_edit_form_submitted(sasl, ekiga) ==
  book.exists /\ book' = [book EXCEPT !.sasl = sasl, !.ekiga = ekiga]

(* The source drops the book.  What its timers do after that is a use of    *)
(* freed memory.                                                            *)
remove == book.exists /\ book' = [book EXCEPT !.exists = FALSE]

Timer ==
  /\ book.exists /\ book.timers # <<>>
  /\ LET b == [book EXCEPT !.timers = Tail(@)]
     IN  book' \in IF Head(book.timers) = "refresh_bound"
                     THEN refresh_bound(b) ELSE refresh_result(b)

Init ==
  \E f \in Filters, sasl \in BOOLEAN, ekiga \in BOOLEAN :
    book = [context |-> FALSE, asked |-> <<>>, patience |-> 0, timers |-> <<>>,
            status |-> "none", number |-> 0, contacts |-> Nothing,
            filter |-> f, sasl |-> sasl, ekiga |-> ekiga,
            searched |-> ekiga, counted |-> ekiga, exists |-> TRUE]

Next ==
  \/ refresh \/ remove \/ Timer
  \/ \E f \in Filters : set_search_filter(f)
  \/ \E sasl, ekiga \in BOOLEAN : on_edit_form_submitted(sasl, ekiga)

Spec == Init /\ [][Next]_book

(* The main loop runs its timers; the server need not answer. *)
FairSpec == Spec /\ WF_book(Timer)

-----------------------------------------------------------------------------
(* Properties *)

(* The number that is shown is the one of the contacts, but for the first   *)
(* entry of ekiga.net.  Not kept by itself: refresh_result looks at the     *)
(* host of the settings, not at the one that was searched.                  *)
NumberIsRight ==
  book.status = "found" =>
    Cardinality({e \in Entries : book.contacts[e] = 1})
      = book.number + Cardinality(First(book.searched))

(* While the connection is open there is one timer that will close it, and  *)
(* none without a connection, whatever is refreshed, searched for or edited *)
(* meanwhile; and what was found is shown once each, with its number: no    *)
(* refresh adds to what another one found.  The number is right unless the  *)
(* host was edited, to or from that of ekiga.net, during the search.        *)
FoundIsShown ==
  book.exists =>
    /\ Len(book.timers) = IF book.context THEN 1 ELSE 0
    /\ book.status = "found" =>
         /\ book.contacts \in [Entries -> 0..1]
         /\ book.counted = book.searched => NumberIsRight

(* A search comes to its end, even if the server never answers, so that the *)
(* next one is not refused.                                                 *)
SearchEnds == book.context ~> ~book.context \/ ~book.exists

(* filterable.h:47, of set_search_filter: "Set the search filter. @param    *)
(* The new search filter for that object".  So what is found matches it.    *)
(* Not kept: a refresh during a search empties the list and does no more.   *)
FoundIsSearchedFor ==
  book.status = "found" =>
    \A e \in Entries \ {Header} :
      book.contacts[e] > 0 => e \in Matching[book.filter]

(* Nothing of a book goes on once it was removed.  Not kept: the timer of   *)
(* refresh_bound or refresh_result holds a bare pointer to the book.        *)
NoTimerOutlivesTheBook == ~book.exists => book.timers = <<>>
=============================================================================
