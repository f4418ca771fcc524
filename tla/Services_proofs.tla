-------------------------- MODULE Services_proofs ---------------------------
(***************************************************************************)
(* Theorems about the services of the engine that share no state: LdapBook *)
(* for any directory, KickStart for any sparks in any order, Stun, and     *)
(* Codecs for any codecs and settings.                                     *)
(***************************************************************************)
EXTENDS Services, Functions, FiniteSetTheorems, SequenceTheorems,
        WellFoundedInduction, TLAPS

TimerNames == {"refresh_bound", "refresh_result"}

Books ==
  [context : BOOLEAN, asked : Seq({"bind"} \cup Filters), patience : 0..3,
   timers : Seq(TimerNames), status : Statuses, number : Int,
   contacts : [Entries -> Nat], filter : Filters, sasl : BOOLEAN,
   ekiga : BOOLEAN, searched : BOOLEAN, counted : BOOLEAN, exists : BOOLEAN]

(* A search that has found nothing yet. *)
Searching(b) ==
  b \in Books /\ b.context /\ b.contacts = Nothing /\ b.status # "found"

(* What a search shows of what it found. *)
ShowsTheFound(b) ==
  /\ b.contacts \in [Entries -> 0..1]
  /\ b.counted = b.searched =>
       Cardinality({e \in Entries : b.contacts[e] = 1})
         = b.number + Cardinality(First(b.searched))

Resting(b) ==
  /\ b \in Books /\ ~b.context /\ b.timers = <<>>
  /\ b.status = "found" => ShowsTheFound(b)

(* Either the connection is open, and one timer will come back to it, or it *)
(* is closed and no timer is left.                                          *)
Settled(b) == Resting(b) \/ (Searching(b) /\ Len(b.timers) = 1)

IInv == Settled(book)

-----------------------------------------------------------------------------
(* The functions of the refresh: each begins with an open connection and no *)
(* timer, and ends settled.                                                 *)

LEMMA NothingShown == Nothing \in [Entries -> Nat]
BY DEF Nothing

LEMMA UnboundFacts ==
  ASSUME NEW b \in Books, b.timers = <<>>, NEW status \in Statuses \ {"found"}
  PROVE  Resting(Unbound(b, status))
<1>1. <<>> \in Seq({"bind"} \cup Filters)
  OBVIOUS
<1> QED
  BY <1>1 DEF Unbound, Resting, Books

LEMMA WaitsFacts ==
  ASSUME NEW b, Searching(b), b.timers = <<>>, NEW next \in TimerNames,
         NEW status \in Statuses \ {"found"}, NEW c \in Waits(b, next, status)
  PROVE  Settled(c)
<1>1. CASE b.patience > 0
  <2>1. c = [[b EXCEPT !.patience = b.patience - 1]
               EXCEPT !.timers = Append(b.timers, next)]
    BY <1>1 DEF Waits, Searching, Books
  <2>2. Append(b.timers, next) \in Seq(TimerNames) /\ Len(Append(b.timers, next)) = 1
    OBVIOUS
  <2>3. b.patience - 1 \in 0..3
    BY <1>1 DEF Searching, Books
  <2> QED
    BY <2>1, <2>2, <2>3 DEF Settled, Searching, Books
<1>2. CASE ~(b.patience > 0)
  BY <1>2, UnboundFacts DEF Waits, Searching, Settled
<1> QED
  BY <1>1, <1>2

LEMMA ResultFacts ==
  ASSUME LdapBookAssumption, NEW b, Searching(b), b.timers = <<>>,
         NEW c \in refresh_result(b)
  PROVE  Settled(c)
<1>1. CASE c \in Waits(b, "refresh_result", "no search")
  BY <1>1, WaitsFacts DEF TimerNames, Statuses
<1>2. CASE c \notin Waits(b, "refresh_result", "no search")
  <2>1. PICK found \in IF b.asked = <<>> THEN {} ELSE Answers(b, Head(b.asked)) :
          c = [Unbound(b, "found") EXCEPT
                 !.contacts = [e \in Entries |->
                                 b.contacts[e] + (IF e \in found THEN 1 ELSE 0)],
                 !.number = Cardinality(found) - Cardinality(First(b.ekiga)),
                 !.counted = b.ekiga]
    BY <1>2 DEF refresh_result
  <2>2. Head(b.asked) \in {"bind"} \cup Filters
    BY <2>1 DEF Searching, Books
  <2>3. found \subseteq Entries
    BY <2>1, <2>2 DEF Answers, First, LdapBookAssumption
  <2>4. Cardinality(found) \in Nat /\ Cardinality(First(b.ekiga)) \in Nat
    <3>1. First(b.ekiga) \subseteq Entries
      BY DEF First, LdapBookAssumption
    <3> QED
      BY <2>3, <3>1, FS_Subset, FS_CardinalityType DEF LdapBookAssumption
  <2> DEFINE shown == [e \in Entries |-> IF e \in found THEN 1 ELSE 0]
  <2>5. [e \in Entries |-> b.contacts[e] + (IF e \in found THEN 1 ELSE 0)] = shown
    BY DEF Searching, Nothing
  <2>6. c = [[[Unbound(b, "found") EXCEPT !.contacts = shown]
               EXCEPT !.number = Cardinality(found) - Cardinality(First(b.ekiga))]
               EXCEPT !.counted = b.ekiga]
    BY <2>1, <2>5
  <2>7. shown \in [Entries -> 0..1] /\ shown \in [Entries -> Nat]
    OBVIOUS
  <2>8. {e \in Entries : shown[e] = 1} = found
    BY <2>3
  <2> HIDE DEF shown
  <2>9. /\ c \in Books /\ ~c.context /\ c.timers = <<>> /\ c.contacts = shown
        /\ c.number = Cardinality(found) - Cardinality(First(b.ekiga))
        /\ c.counted = b.ekiga /\ c.searched = b.searched
    <3>1. PICK number : number = Cardinality(found) - Cardinality(First(b.ekiga))
      OBVIOUS
    <3>2. number \in Int
      BY <2>4, <3>1
    <3>3. /\ Unbound(b, "found") \in Books /\ ~Unbound(b, "found").context
          /\ Unbound(b, "found").timers = <<>>
          /\ Unbound(b, "found").searched = b.searched /\ b.ekiga \in BOOLEAN
      <4>1. <<>> \in Seq({"bind"} \cup Filters)
        OBVIOUS
      <4> QED
        BY <4>1 DEF Unbound, Searching, Books, Statuses
    <3> QED
      BY <2>6, <2>7, <3>1, <3>2, <3>3 DEF Books
  <2>10. c.counted = c.searched =>
           Cardinality({e \in Entries : c.contacts[e] = 1})
             = c.number + Cardinality(First(c.searched))
    <3>1. {e \in Entries : c.contacts[e] = 1} = found
      BY <2>8, <2>9
    <3>2. Cardinality(found) = c.number + Cardinality(First(b.ekiga))
      BY <2>4, <2>9
    <3> QED
      BY <2>9, <3>1, <3>2
  <2> QED
    BY <2>7, <2>9, <2>10 DEF Settled, Resting, ShowsTheFound
<1> QED
  BY <1>1, <1>2

LEMMA SearchFacts ==
  ASSUME LdapBookAssumption, NEW b, Searching(b), b.timers = <<>>, NEW c \in Search(b)
  PROVE  Settled(c)
<1>1. PICK asked : asked = Append(b.asked, b.filter)
  OBVIOUS
<1>2. asked \in Seq({"bind"} \cup Filters)
  BY <1>1 DEF Searching, Books
<1> DEFINE d == [b EXCEPT !.asked = asked, !.status = "waiting", !.patience = 3]
<1>3. Searching(d) /\ d.timers = <<>>
  <2>1. 3 \in 0..3 /\ "waiting" \in Statuses
    BY DEF Statuses
  <2>2. d \in Books
    BY <1>2, <2>1 DEF Searching, Books
  <2>3. /\ d.context /\ d.contacts = Nothing /\ d.status # "found"
        /\ d.timers = <<>>
    BY DEF Searching, Books
  <2> QED
    BY <2>2, <2>3 DEF Searching
<1>4. c = Unbound(b, "no search") \/ c \in refresh_result(d)
  <2>1. c \in {Unbound(b, "no search")} \cup
          refresh_result([b EXCEPT !.asked = Append(b.asked, b.filter),
                                   !.status = "waiting", !.patience = 3])
    BY Zenon DEF Search
  <2>2. d = [b EXCEPT !.asked = Append(b.asked, b.filter),
                      !.status = "waiting", !.patience = 3]
    BY <1>1
  <2> HIDE DEF d
  <2> QED
    BY <2>1, <2>2
<1> HIDE DEF d
<1>5. CASE c = Unbound(b, "no search")
  <2>1. b \in Books /\ "no search" \in Statuses \ {"found"}
    BY DEF Searching, Statuses
  <2> QED
    BY <1>5, <2>1, UnboundFacts DEF Settled
<1>6. CASE c \in refresh_result(d)
  BY <1>3, <1>6, ResultFacts
<1> QED
  BY <1>4, <1>5, <1>6

LEMMA BoundFacts ==
  ASSUME LdapBookAssumption, NEW b, Searching(b), b.timers = <<>>,
         NEW c \in refresh_bound(b)
  PROVE  Settled(c)
<1>1. CASE c \in Search(b)
  BY <1>1, SearchFacts
<1>2. CASE c \in Waits(b, "refresh_bound", "no server")
  BY <1>2, WaitsFacts DEF TimerNames, Statuses
<1>3. CASE b.asked # <<>> /\ c \in Search([b EXCEPT !.asked = Tail(b.asked)])
  <2> DEFINE d == [b EXCEPT !.asked = Tail(b.asked)]
  <2>1. Searching(d) /\ d.timers = <<>>
    <3>1. Tail(b.asked) \in Seq({"bind"} \cup Filters)
      BY <1>3 DEF Searching, Books
    <3> QED
      BY <3>1 DEF Searching, Books
  <2> HIDE DEF d
  <2> QED
    BY <1>3, <2>1, SearchFacts DEF d
<1> QED
  BY <1>1, <1>2, <1>3 DEF refresh_bound, Searching, Books

LEMMA StartFacts ==
  ASSUME LdapBookAssumption, NEW b \in Books, ~b.context, b.timers = <<>>,
         b.contacts = Nothing, NEW c \in refresh_start(b)
  PROVE  Settled(c)
<1>1. PICK asked : asked = IF b.sasl THEN <<>> ELSE <<"bind">>
  OBVIOUS
<1>2. asked \in Seq({"bind"} \cup Filters)
  <2>1. <<>> \in Seq({"bind"} \cup Filters) /\ <<"bind">> \in Seq({"bind"} \cup Filters)
    OBVIOUS
  <2> QED
    BY <1>1, <2>1
<1> DEFINE d == [b EXCEPT !.context = TRUE, !.status = "refreshing",
                          !.searched = b.ekiga, !.asked = asked, !.patience = 3]
<1>3. Searching(d) /\ d.timers = <<>>
  <2>1. 3 \in 0..3 /\ "refreshing" \in Statuses
    BY DEF Statuses
  <2>2. d \in Books
    BY <1>2, <2>1 DEF Searching, Books
  <2>3. /\ d.context /\ d.contacts = Nothing /\ d.status # "found"
        /\ d.timers = <<>>
    BY DEF Searching, Books
  <2> QED
    BY <2>2, <2>3 DEF Searching
<1>4. c = Unbound(b, "error") \/ c \in refresh_bound(d)
  BY <1>1 DEF refresh_start
<1> HIDE DEF d
<1>5. CASE c = Unbound(b, "error")
  BY <1>5, UnboundFacts DEF Settled, Statuses
<1>6. CASE c \in refresh_bound(d)
  BY <1>3, <1>6, BoundFacts
<1> QED
  BY <1>4, <1>5, <1>6

LEMMA RefreshFacts ==
  ASSUME LdapBookAssumption, NEW b, Settled(b), NEW c \in Refresh(b)
  PROVE  Settled(c)
<1> DEFINE d == [b EXCEPT !.contacts = Nothing]
<1>1. d \in Books /\ d.contacts = Nothing /\ d.context = b.context
      /\ d.timers = b.timers /\ d.status = b.status
  BY NothingShown DEF Settled, Resting, Searching, Books
<1>2. IF b.context THEN c = d ELSE c \in refresh_start(d)
  BY DEF Refresh
<1> HIDE DEF d
<1> QED
  BY <1>1, <1>2, StartFacts DEF Settled, Resting, Searching

-----------------------------------------------------------------------------
LEMMA InitIInv == Init => IInv
<1>1. SUFFICES ASSUME NEW f \in Filters, NEW sasl \in BOOLEAN,
                     NEW ekiga \in BOOLEAN,
          book = [context |-> FALSE, asked |-> <<>>, patience |-> 0,
                  timers |-> <<>>, status |-> "none", number |-> 0,
                  contacts |-> Nothing, filter |-> f, sasl |-> sasl,
                  ekiga |-> ekiga, searched |-> ekiga, counted |-> ekiga,
                  exists |-> TRUE]
       PROVE  IInv
  BY DEF Init
<1>2. <<>> \in Seq({"bind"} \cup Filters) /\ <<>> \in Seq(TimerNames)
  OBVIOUS
<1> QED
  BY <1>1, <1>2, NothingShown DEF IInv, Settled, Resting, Books, Statuses

LEMMA NextIInv ==
  ASSUME LdapBookAssumption, IInv, [Next]_book
  PROVE  IInv'
<1>1. CASE refresh
  BY <1>1, RefreshFacts DEF refresh, IInv
<1>2. ASSUME NEW f \in Filters, set_search_filter(f)
      PROVE  IInv'
  <2> DEFINE b == [book EXCEPT !.filter = f]
  <2>1. Settled(b)
    BY DEF IInv, Settled, Resting, Searching, ShowsTheFound, Books
  <2>2. book' \in Refresh(b)
    BY <1>2 DEF set_search_filter
  <2> HIDE DEF b
  <2> QED
    BY <2>1, <2>2, RefreshFacts DEF IInv
<1>3. ASSUME NEW sasl \in BOOLEAN, NEW ekiga \in BOOLEAN,
             on_edit_form_submitted(sasl, ekiga)
      PROVE  IInv'
  BY <1>3 DEF on_edit_form_submitted, IInv, Settled, Resting, Searching,
     ShowsTheFound, Books
<1>4. CASE remove
  BY <1>4 DEF remove, IInv, Settled, Resting, Searching, ShowsTheFound, Books
<1>5. CASE Timer
  <2>1. Searching(book) /\ Len(book.timers) = 1 /\ book.timers \in Seq(TimerNames)
    BY <1>5 DEF Timer, IInv, Settled, Resting, Searching, Books
  <2>2. PICK rest : rest = Tail(book.timers)
    OBVIOUS
  <2> DEFINE b == [book EXCEPT !.timers = rest]
  <2>3. rest = <<>> /\ rest \in Seq(TimerNames)
    <3>1. PICK q : q = book.timers
      OBVIOUS
    <3>2. q \in Seq(TimerNames) /\ Len(q) = 1 /\ rest = Tail(q)
      BY <2>1, <2>2, <3>1, Zenon
    <3>3. q # <<>>
      BY <3>2, EmptySeq
    <3>4. rest \in Seq(TimerNames) /\ Len(rest) = 0
      BY <3>2, <3>3, HeadTailProperties
    <3> QED
      BY <3>4, EmptySeq
  <2>4. Searching(b) /\ b.timers = <<>>
    BY <2>1, <2>3 DEF Searching, Books
  <2>5. book' \in refresh_bound(b) \cup refresh_result(b)
    BY <1>5, <2>2 DEF Timer
  <2> HIDE DEF b
  <2> QED
    BY <2>4, <2>5, BoundFacts, ResultFacts DEF IInv
<1>6. CASE UNCHANGED book
  BY <1>6 DEF IInv
<1> QED
  BY <1>1, <1>2, <1>3, <1>4, <1>5, <1>6 DEF Next

(* While the connection to the directory is open one timer will come back   *)
(* to it, and what was found is shown once each; with its number, if the    *)
(* host was not edited, to or from that of ekiga.net, during the search.    *)
THEOREM FoundCorrect ==
  ASSUME LdapBookAssumption PROVE Spec => []FoundIsShown
<1>1. IInv /\ [Next]_book => IInv'
  BY NextIInv
<1>2. IInv => FoundIsShown
  BY DEF IInv, Settled, Resting, Searching, ShowsTheFound, FoundIsShown,
     NumberIsRight, Books
<1> QED
  BY <1>1, <1>2, InitIInv, PTL DEF Spec

(* The state of the book keeps its type.                                   *)
THEOREM BookTypesCorrect ==
  ASSUME LdapBookAssumption PROVE Spec => []TypeOK
<1>1. IInv /\ [Next]_book => IInv'
  BY NextIInv
<1>2. IInv => TypeOK
  BY DEF IInv, Settled, Resting, Searching, TypeOK, Books, TimerNames
<1> QED
  BY <1>1, <1>2, InitIInv, PTL DEF Spec

-----------------------------------------------------------------------------
(* Lists.  One is made entry by entry: what holds of the empty one, and of  *)
(* Append(q, e) where it holds of q, holds of every list.                   *)

LEMMA LeastOf ==
  ASSUME NEW T \in SUBSET Nat, T # {}
  PROVE  \E n \in T : \A m \in T : n <= m
<1> DEFINE Less == {ss \in Nat \X Nat : ss[1] < ss[2]}
<1>1. IsWellFoundedOn(Less, Nat)
  BY NatLessThanWellFounded DEF OpToRel
<1> HIDE DEF Less
<1>2. PICK n \in T : \A m \in T : <<m, n>> \notin Less
  BY <1>1, WFMin
<1>3. ASSUME NEW m \in T PROVE n <= m
  <2>1. <<m, n>> \in Less <=> m < n
    BY DEF Less
  <2> QED
    BY <1>2, <2>1
<1> QED
  BY <1>3

LEMMA ListInduction ==
  ASSUME NEW S, NEW T, <<>> \in T,
         \A q \in Seq(S), e \in S : q \in T => Append(q, e) \in T
  PROVE  Seq(S) \subseteq T
<1> SUFFICES ASSUME NEW q \in Seq(S), q \notin T PROVE FALSE
  OBVIOUS
<1> DEFINE Bad == {i \in 0 .. Len(q) : SubSeq(q, 1, i) \notin T}
<1>1. Len(q) \in Nat /\ \A i \in 1 .. Len(q) : q[i] \in S
  OBVIOUS
<1>2. Len(q) \in Bad
  <2>1. SubSeq(q, 1, Len(q)) = q /\ Len(q) \in 0 .. Len(q)
    OBVIOUS
  <2>2. SubSeq(q, 1, Len(q)) \notin T
    BY <2>1
  <2> QED
    BY <2>1, <2>2
<1>3. PICK n \in Bad : \A m \in Bad : n <= m
  <2>1. Bad \in SUBSET Nat /\ Bad # {}
    BY <1>1, <1>2
  <2> HIDE DEF Bad
  <2> QED
    BY <2>1, LeastOf
<1>4. n # 0
  <2>1. SubSeq(q, 1, 0) = <<>>
    OBVIOUS
  <2> QED
    BY <1>3, <2>1
<1>5. n \in 1 .. Len(q) /\ n - 1 \in 0 .. Len(q) /\ n - 1 \notin Bad
  BY <1>1, <1>3, <1>4
<1>6. /\ SubSeq(q, 1, n - 1) \in Seq(S) /\ q[n] \in S
      /\ SubSeq(q, 1, n) = Append(SubSeq(q, 1, n - 1), q[n])
  BY <1>1, <1>5
<1> QED
  BY <1>3, <1>5, <1>6

-----------------------------------------------------------------------------
(* The start.  A loop of kick in which no spark went on is the last one: so *)
(* the invariant says that, as long as none has, those that were tried      *)
(* before can still do nothing.                                             *)

In(q) == {q[i] : i \in DOMAIN q}

Stuck(s) == s \in disabled \/ ~K!CanDoMore(s)

ListsOfSparks ==
  /\ {blanks, partials, temp} \subseteq Seq(Sparks)
  /\ done \in [Sparks -> Nat] /\ \A s \in Sparks : done[s] <= Len(Stages[s])
  /\ step \in K!Steps /\ phase \in {"idle", "blanks", "partials"}
  /\ phase # "idle" => step \in {"kick", "kick again"}
  /\ phase = "idle" => temp = <<>>

(* A spark that is not full is in one of the lists. *)
NoneIsLost ==
  \A s \in Sparks : K!IsFull(s) \/ s \in In(blanks) \cup In(partials) \cup In(temp)

TriedAreStuck ==
  /\ phase = "blanks" /\ ~went_on => \A s \in In(blanks) : Stuck(s)
  /\ phase = "partials" /\ ~went_on
       => \A s \in In(blanks) \cup In(partials) : Stuck(s)

(* Before the user interface comes, and at the end. *)
AtRest ==
  /\ step \in {"gui", "end"} => \A s \in Sparks : Stuck(s)
  /\ step = "kick again" => gui
  /\ step = "end" => gui \/ ~(GuiNeeds \subseteq K!services)

StartIInv == ListsOfSparks /\ NoneIsLost /\ TriedAreStuck /\ AtRest

LEMMA InFacts ==
  ASSUME NEW E, NEW q \in Seq(E)
  PROVE  /\ In(q) \subseteq E /\ In(<<>>) = {}
         /\ \A e \in E : Append(q, e) \in Seq(E) /\ In(Append(q, e)) = In(q) \cup {e}
         /\ q # <<>> => /\ Head(q) \in E /\ Tail(q) \in Seq(E)
                        /\ In(q) = In(Tail(q)) \cup {Head(q)}
<1>1. Len(q) \in Nat /\ DOMAIN q = 1 .. Len(q)
  OBVIOUS
<1>2. In(q) \subseteq E /\ In(<<>>) = {}
  BY DEF In
<1>3. ASSUME NEW e \in E
      PROVE  Append(q, e) \in Seq(E) /\ In(Append(q, e)) = In(q) \cup {e}
  <2>1. /\ Append(q, e) \in Seq(E) /\ Len(Append(q, e)) = Len(q) + 1
        /\ \A i \in 1 .. Len(q) : Append(q, e)[i] = q[i]
        /\ Append(q, e)[Len(q) + 1] = e
        /\ DOMAIN Append(q, e) = 1 .. (Len(q) + 1)
    BY <1>1
  <2>2. \A i \in 1 .. (Len(q) + 1) : i \in 1 .. Len(q) \/ i = Len(q) + 1
    BY <1>1
  <2>3. In(Append(q, e)) \subseteq In(q) \cup {e}
    BY <1>1, <2>1, <2>2 DEF In
  <2>4. In(q) \subseteq In(Append(q, e))
    BY <1>1, <2>1 DEF In
  <2>5. e \in In(Append(q, e))
    BY <1>1, <2>1 DEF In
  <2> QED
    BY <2>1, <2>3, <2>4, <2>5
<1>4. ASSUME q # <<>>
      PROVE  /\ Head(q) \in E /\ Tail(q) \in Seq(E)
             /\ In(q) = In(Tail(q)) \cup {Head(q)}
  <2>1. /\ Head(q) = q[1] /\ Head(q) \in E /\ 1 \in DOMAIN q
        /\ Tail(q) \in Seq(E) /\ Len(Tail(q)) = Len(q) - 1
        /\ \A i \in 1 .. (Len(q) - 1) : Tail(q)[i] = q[i + 1]
        /\ DOMAIN Tail(q) = 1 .. (Len(q) - 1)
    BY <1>1, <1>4
  <2>2. In(q) \subseteq In(Tail(q)) \cup {Head(q)}
    <3>1. ASSUME NEW i \in DOMAIN q, i # 1 PROVE q[i] \in In(Tail(q))
      <4>1. i - 1 \in 1 .. (Len(q) - 1) /\ Tail(q)[i - 1] = q[i]
        BY <1>1, <2>1, <3>1
      <4> QED
        BY <2>1, <4>1 DEF In
    <3> QED
      BY <2>1, <3>1 DEF In
  <2>3. In(Tail(q)) \subseteq In(q)
    <3>1. ASSUME NEW i \in 1 .. (Len(q) - 1) PROVE Tail(q)[i] \in In(q)
      <4>1. i + 1 \in DOMAIN q
        BY <1>1
      <4> QED
        BY <2>1, <4>1 DEF In
    <3> QED
      BY <2>1, <3>1 DEF In
  <2> QED
    BY <2>1, <2>2, <2>3 DEF In
<1> QED
  BY <1>2, <1>3, <1>4

(* Whether a spark is stuck depends on what was done, and on nothing else. *)
LEMMA StuckStays ==
  ASSUME UNCHANGED K!startup
  PROVE  /\ \A s \in Sparks : (Stuck(s)' <=> Stuck(s)) /\ (K!IsFull(s)' <=> K!IsFull(s))
         /\ K!services' = K!services
BY DEF K!startup, Stuck, K!CanDoMore, K!IsFull, K!services

LEMMA FullIsStuck == \A s \in Sparks : K!IsFull(s) => Stuck(s)
BY DEF Stuck, K!CanDoMore

LEMMA StartInit == K!KickStartAssumption /\ K!Init => StartIInv
<1> SUFFICES ASSUME K!KickStartAssumption, K!Init PROVE StartIInv
  OBVIOUS
<1> DEFINE n == Cardinality(Sparks)
<1>0. IsFiniteSet(Sparks)
  <2>1. K!IsFiniteSet(Sparks)
    BY DEF K!KickStartAssumption
  <2> QED
    BY <2>1 DEF K!IsFiniteSet, IsFiniteSet
<1>1. n \in Nat /\ IsFiniteSet(1 .. n) /\ Cardinality(1 .. n) = n
  <2>1. n \in Nat
    BY <1>0, FS_CardinalityType
  <2> QED
    BY <2>1, FS_Interval
<1>2. blanks \in Injection(1 .. n, Sparks)
  <2>1. K!Cardinality(Sparks) = n
    BY DEF K!Cardinality, Cardinality
  <2>2. blanks \in K!Injection(1 .. n, Sparks)
    BY <2>1 DEF K!Init
  <2> QED
    BY <2>2 DEF K!Injection, K!IsInjective, Injection, IsInjective
<1> HIDE DEF n
<1>3. blanks \in Surjection(1 .. n, Sparks)
  BY <1>0, <1>1, <1>2, FS_Injection DEF n
<1>4. blanks \in Seq(Sparks) /\ In(blanks) = Sparks
  BY <1>1, <1>3 DEF In, Surjection
<1>5. /\ done = [s \in Sparks |-> 0] /\ phase = "idle" /\ step = "kick"
      /\ partials = <<>> /\ temp = <<>>
  BY DEF K!Init, K!StartupInit
<1>6. partials \in Seq(Sparks) /\ temp \in Seq(Sparks)
  BY <1>5
<1>7. ListsOfSparks
  BY <1>4, <1>5, <1>6 DEF ListsOfSparks, K!Steps, K!KickStartAssumption, K!StartupAssumption
<1>8. NoneIsLost
  BY <1>4 DEF NoneIsLost
<1> QED
  BY <1>5, <1>7, <1>8 DEF StartIInv, TriedAreStuck, AtRest

LEMMA KickKeeps ==
  ASSUME K!KickStartAssumption, StartIInv, K!kick
  PROVE  StartIInv'
<1>1. /\ step \in {"kick", "kick again"} /\ phase = "idle" /\ temp = <<>>
      /\ UNCHANGED K!startup /\ UNCHANGED partials
  BY DEF K!kick, StartIInv, ListsOfSparks
<1>2. CASE blanks = <<>> /\ partials = <<>>
  <2>1. /\ step' = IF step = "kick" THEN "gui" ELSE "end"
        /\ UNCHANGED <<phase, blanks, temp, went_on>>
    BY <1>1, <1>2 DEF K!kick, K!After
  <2>2. \A s \in Sparks : K!IsFull(s)
    <3>1. In(<<>>) = {}
      BY DEF In
    <3> QED
      BY <1>1, <1>2, <3>1 DEF StartIInv, NoneIsLost
  <2>3. \A s \in Sparks : Stuck(s)'
    BY <1>1, <2>2, FullIsStuck, StuckStays
  <2>4. ListsOfSparks' /\ NoneIsLost' /\ TriedAreStuck'
    BY <1>1, <2>1, StuckStays DEF StartIInv, ListsOfSparks, NoneIsLost, TriedAreStuck,
       K!Steps, K!startup
  <2>5. AtRest'
    BY <1>1, <2>1, <2>3, StuckStays DEF StartIInv, AtRest, K!startup
  <2> QED
    BY <2>4, <2>5 DEF StartIInv
<1>3. CASE ~(blanks = <<>> /\ partials = <<>>)
  <2>1. /\ phase' = "blanks" /\ temp' = blanks /\ blanks' = <<>>
        /\ went_on' = FALSE /\ UNCHANGED step
    BY <1>1, <1>3 DEF K!kick, K!GoThroughBlanks
  <2>2. In(<<>>) = {} /\ <<>> \in Seq(Sparks)
    BY DEF In
  <2>3. ListsOfSparks'
    BY <1>1, <2>1, <2>2 DEF StartIInv, ListsOfSparks, K!startup
  <2>4. NoneIsLost'
    BY <1>1, <2>1, <2>2, StuckStays DEF StartIInv, NoneIsLost
  <2>5. TriedAreStuck' /\ AtRest'
    BY <1>1, <2>1, <2>2 DEF StartIInv, TriedAreStuck, AtRest, K!startup
  <2> QED
    BY <2>3, <2>4, <2>5 DEF StartIInv
<1> QED
  BY <1>2, <1>3

(* A spark that goes on is full, or goes to the list of those that have     *)
(* done something; the others stay where they are.                          *)
LEMMA PromotedKeeps ==
  ASSUME K!KickStartAssumption, StartIInv, phase # "idle", temp # <<>>,
         temp' = Tail(temp), K!Promoted(Head(temp)),
         UNCHANGED <<blanks, step, phase>>
  PROVE  StartIInv'
<1> DEFINE s == Head(temp)
<1>1. /\ s \in Sparks /\ Tail(temp) \in Seq(Sparks)
      /\ In(temp) = In(Tail(temp)) \cup {s}
  BY InFacts DEF StartIInv, ListsOfSparks
<1>2. /\ ~K!IsFull(s) /\ done' = [done EXCEPT ![s] = @ + 1]
      /\ UNCHANGED <<gui, disabled>> /\ went_on'
      /\ partials' = IF K!get_state(s, done[s] + 1) = "PARTIAL"
                       THEN Append(partials, s) ELSE partials
  BY DEF K!Promoted, K!Advance, K!CanDoMore
<1> HIDE DEF s
<1>3. done[s] \in Nat /\ Len(Stages[s]) \in Nat /\ done[s] < Len(Stages[s])
  <2>1. done[s] \in Nat /\ done[s] <= Len(Stages[s])
    BY <1>1 DEF StartIInv, ListsOfSparks
  <2>2. Len(Stages[s]) \in Nat
    BY <1>1 DEF K!KickStartAssumption, K!StartupAssumption
  <2>3. done[s] # Len(Stages[s])
    BY <1>2 DEF K!IsFull
  <2> QED
    BY <2>1, <2>2, <2>3
<1>4. /\ partials' \in Seq(Sparks) /\ In(partials) \subseteq In(partials')
      /\ done[s] + 1 = Len(Stages[s]) \/ s \in In(partials')
  <2>1. partials \in Seq(Sparks)
    BY DEF StartIInv, ListsOfSparks
  <2>2. /\ Append(partials, s) \in Seq(Sparks)
        /\ In(Append(partials, s)) = In(partials) \cup {s}
    BY <1>1, <2>1, InFacts
  <2>3. done[s] + 1 # Len(Stages[s]) => K!get_state(s, done[s] + 1) = "PARTIAL"
    BY <1>3 DEF K!get_state
  <2> QED
    BY <1>2, <2>1, <2>2, <2>3
<1>5. ListsOfSparks'
  <2>1. done' \in [Sparks -> Nat] /\ \A u \in Sparks : done'[u] <= Len(Stages[u])
    <3>1. done \in [Sparks -> Nat] /\ \A u \in Sparks : done[u] <= Len(Stages[u])
      BY DEF StartIInv, ListsOfSparks
    <3>2. done[s] + 1 \in Nat /\ done[s] + 1 <= Len(Stages[s])
      BY <1>3
    <3> QED
      BY <1>1, <1>2, <3>1, <3>2
  <2> QED
    BY <1>1, <1>4, <2>1 DEF StartIInv, ListsOfSparks
<1>6. NoneIsLost'
  <2>1. ASSUME NEW u \in Sparks
        PROVE  K!IsFull(u)' \/ u \in In(blanks') \cup In(partials') \cup In(temp')
    <3>1. CASE u = s
      BY <1>1, <1>2, <1>3, <1>4, <3>1 DEF StartIInv, ListsOfSparks, K!IsFull
    <3>2. CASE u # s
      <4>1. K!IsFull(u)' <=> K!IsFull(u)
        BY <1>1, <1>2, <3>2 DEF StartIInv, ListsOfSparks, K!IsFull
      <4> QED
        BY <1>1, <1>4, <3>2, <4>1 DEF StartIInv, NoneIsLost
    <3> QED
      BY <3>1, <3>2
  <2> QED
    BY <2>1 DEF NoneIsLost, In
<1>7. TriedAreStuck'
  BY <1>2 DEF TriedAreStuck
<1>8. AtRest'
  BY <1>2 DEF StartIInv, ListsOfSparks, AtRest
<1> QED
  BY <1>5, <1>6, <1>7, <1>8 DEF StartIInv

(* One that cannot go on goes back to its list. *)
LEMMA TryBlankKeeps ==
  ASSUME K!KickStartAssumption, StartIInv, K!TryBlank
  PROVE  StartIInv'
<1> DEFINE s == Head(temp)
<1>1. phase = "blanks" /\ temp # <<>> /\ temp' = Tail(temp) /\ UNCHANGED <<step, phase>>
  BY DEF K!TryBlank
<1>2. /\ s \in Sparks /\ Tail(temp) \in Seq(Sparks)
      /\ In(temp) = In(Tail(temp)) \cup {s}
  BY <1>1, InFacts DEF StartIInv, ListsOfSparks
<1>3. CASE K!Promoted(s) /\ UNCHANGED blanks
  BY <1>1, <1>3, PromotedKeeps
<1>4. CASE /\ s \in disabled \/ ~K!CanDoMore(s)
           /\ blanks' = Append(blanks, s)
           /\ UNCHANGED <<K!startup, partials, went_on>>
  <2>1. /\ blanks \in Seq(Sparks) /\ blanks' \in Seq(Sparks)
        /\ In(blanks') = In(blanks) \cup {s}
    <3>1. blanks \in Seq(Sparks)
      BY DEF StartIInv, ListsOfSparks
    <3> QED
      BY <1>2, <1>4, <3>1, InFacts
  <2>2. Stuck(s)
    BY <1>4 DEF Stuck
  <2> HIDE DEF s
  <2>3. ListsOfSparks'
    BY <1>1, <1>2, <1>4, <2>1 DEF StartIInv, ListsOfSparks, K!startup
  <2>4. NoneIsLost'
    BY <1>1, <1>2, <1>4, <2>1, StuckStays DEF StartIInv, NoneIsLost
  <2>5. In(blanks) \subseteq Sparks
    BY <2>1, InFacts
  <2>6. ~went_on => \A u \in In(blanks') : Stuck(u)'
    BY <1>1, <1>2, <1>4, <2>1, <2>2, <2>5, StuckStays DEF StartIInv, TriedAreStuck
  <2>7. TriedAreStuck'
    BY <1>1, <1>4, <2>6 DEF TriedAreStuck
  <2>8. AtRest'
    BY <1>1, <1>4, StuckStays DEF StartIInv, ListsOfSparks, AtRest, K!startup
  <2> QED
    BY <2>3, <2>4, <2>7, <2>8 DEF StartIInv
<1> QED
  BY <1>3, <1>4 DEF K!TryBlank

LEMMA TryPartialKeeps ==
  ASSUME K!KickStartAssumption, StartIInv, K!TryPartial
  PROVE  StartIInv'
<1> DEFINE s == Head(temp)
<1>1. /\ phase = "partials" /\ temp # <<>> /\ temp' = Tail(temp)
      /\ UNCHANGED <<step, phase, blanks>>
  BY DEF K!TryPartial
<1>2. /\ s \in Sparks /\ Tail(temp) \in Seq(Sparks)
      /\ In(temp) = In(Tail(temp)) \cup {s}
  BY <1>1, InFacts DEF StartIInv, ListsOfSparks
<1>3. CASE K!Promoted(s)
  BY <1>1, <1>3, PromotedKeeps
<1>4. CASE /\ ~K!CanDoMore(s)
           /\ partials' = Append(partials, s)
           /\ UNCHANGED <<K!startup, went_on>>
  <2>1. /\ partials \in Seq(Sparks) /\ partials' \in Seq(Sparks)
        /\ In(partials') = In(partials) \cup {s}
    <3>1. partials \in Seq(Sparks)
      BY DEF StartIInv, ListsOfSparks
    <3> QED
      BY <1>2, <1>4, <3>1, InFacts
  <2>2. Stuck(s)
    BY <1>4 DEF Stuck
  <2> HIDE DEF s
  <2>3. ListsOfSparks'
    BY <1>1, <1>2, <1>4, <2>1 DEF StartIInv, ListsOfSparks, K!startup
  <2>4. NoneIsLost'
    BY <1>1, <1>2, <1>4, <2>1, StuckStays DEF StartIInv, NoneIsLost
  <2>5. In(blanks) \cup In(partials) \subseteq Sparks
    BY <2>1, InFacts DEF StartIInv, ListsOfSparks
  <2>6. ~went_on => \A u \in In(blanks) \cup In(partials') : Stuck(u)'
    BY <1>1, <1>2, <1>4, <2>1, <2>2, <2>5, StuckStays DEF StartIInv, TriedAreStuck
  <2>7. TriedAreStuck'
    BY <1>1, <1>4, <2>6 DEF TriedAreStuck
  <2>8. AtRest'
    BY <1>1, <1>4, StuckStays DEF StartIInv, ListsOfSparks, AtRest, K!startup
  <2> QED
    BY <2>3, <2>4, <2>7, <2>8 DEF StartIInv
<1> QED
  BY <1>3, <1>4 DEF K!TryPartial

LEMMA GoThroughPartialsKeeps ==
  ASSUME StartIInv, K!GoThroughPartials
  PROVE  StartIInv'
<1>1. /\ phase = "blanks" /\ temp = <<>> /\ phase' = "partials"
      /\ temp' = partials /\ partials' = <<>>
      /\ UNCHANGED <<K!startup, step, blanks, went_on>>
  BY DEF K!GoThroughPartials
<1>2. In(<<>>) = {} /\ <<>> \in Seq(Sparks)
  BY DEF In
<1>3. ListsOfSparks'
  BY <1>1, <1>2 DEF StartIInv, ListsOfSparks, K!startup
<1>4. NoneIsLost'
  BY <1>1, <1>2, StuckStays DEF StartIInv, NoneIsLost
<1>5. In(blanks) \subseteq Sparks
  BY InFacts DEF StartIInv, ListsOfSparks
<1>6. TriedAreStuck'
  BY <1>1, <1>2, <1>5, StuckStays DEF StartIInv, TriedAreStuck
<1>7. AtRest'
  BY <1>1, StuckStays DEF StartIInv, ListsOfSparks, AtRest, K!startup
<1> QED
  BY <1>3, <1>4, <1>6, <1>7 DEF StartIInv

LEMMA LoopKeeps ==
  ASSUME StartIInv, K!Loop
  PROVE  StartIInv'
<1>1. phase = "partials" /\ temp = <<>> /\ UNCHANGED <<K!startup, partials>>
  BY DEF K!Loop
<1>2. In(<<>>) = {} /\ <<>> \in Seq(Sparks)
  BY DEF In
<1>3. step \in {"kick", "kick again"}
  BY <1>1 DEF StartIInv, ListsOfSparks
<1>4. CASE K!GoThroughBlanks /\ UNCHANGED step
  <2>1. /\ phase' = "blanks" /\ temp' = blanks /\ blanks' = <<>>
        /\ went_on' = FALSE /\ UNCHANGED step
    BY <1>4 DEF K!GoThroughBlanks
  <2>2. ListsOfSparks'
    BY <1>1, <1>2, <1>3, <2>1 DEF StartIInv, ListsOfSparks, K!startup
  <2>3. NoneIsLost'
    BY <1>1, <1>2, <2>1, StuckStays DEF StartIInv, NoneIsLost
  <2>4. TriedAreStuck' /\ AtRest'
    BY <1>1, <1>2, <1>3, <2>1 DEF StartIInv, TriedAreStuck, AtRest, K!startup
  <2> QED
    BY <2>2, <2>3, <2>4 DEF StartIInv
<1>5. CASE ~went_on /\ phase' = "idle" /\ step' = K!After[step]
           /\ UNCHANGED <<blanks, temp, went_on>>
  <2>1. step' = IF step = "kick" THEN "gui" ELSE "end"
    BY <1>3, <1>5 DEF K!After
  <2>2. ListsOfSparks'
    BY <1>1, <1>5, <2>1 DEF StartIInv, ListsOfSparks, K!startup, K!Steps
  <2>3. NoneIsLost'
    BY <1>1, <1>5, StuckStays DEF StartIInv, NoneIsLost
  <2>4. \A s \in Sparks : Stuck(s)'
    BY <1>1, <1>2, <1>5, FullIsStuck, StuckStays
    DEF StartIInv, NoneIsLost, TriedAreStuck
  <2>5. TriedAreStuck' /\ AtRest'
    BY <1>1, <1>3, <1>5, <2>1, <2>4 DEF StartIInv, TriedAreStuck, AtRest, K!startup
  <2> QED
    BY <2>2, <2>3, <2>5 DEF StartIInv
<1> QED
  BY <1>4, <1>5 DEF K!Loop

LEMMA FrontendKeeps ==
  ASSUME StartIInv, K!gtk_frontend_init
  PROVE  StartIInv'
<1>1. step = "gui" /\ UNCHANGED <<phase, blanks, partials, temp, went_on>>
  BY DEF K!gtk_frontend_init
<1>2. phase = "idle"
  BY <1>1 DEF StartIInv, ListsOfSparks
<1>3. CASE K!GuiComes /\ step' = K!After[step]
  <2>1. gui' /\ UNCHANGED <<done, disabled>> /\ step' = "kick again"
    BY <1>1, <1>3 DEF K!GuiComes, K!After
  <2> QED
    BY <1>1, <1>2, <2>1 DEF StartIInv, ListsOfSparks, K!Steps, NoneIsLost, K!IsFull,
       TriedAreStuck, AtRest, In
<1>4. CASE ~(GuiNeeds \subseteq K!services) /\ step' = "end" /\ UNCHANGED K!startup
  <2>1. ListsOfSparks' /\ NoneIsLost' /\ TriedAreStuck'
    BY <1>1, <1>2, <1>4, StuckStays DEF StartIInv, ListsOfSparks, K!Steps, NoneIsLost,
       TriedAreStuck, K!startup
  <2>2. AtRest'
    BY <1>1, <1>4, StuckStays DEF StartIInv, AtRest
  <2> QED
    BY <2>1, <2>2 DEF StartIInv
<1> QED
  BY <1>3, <1>4 DEF K!gtk_frontend_init

LEMMA StartStep ==
  K!KickStartAssumption /\ StartIInv /\ [K!Next]_K!vars => StartIInv'
<1> SUFFICES ASSUME K!KickStartAssumption, StartIInv, [K!Next]_K!vars
             PROVE  StartIInv'
  OBVIOUS
<1>1. CASE UNCHANGED K!vars
  <2>1. UNCHANGED <<K!startup, step, phase, blanks, partials, temp, went_on>>
    BY <1>1 DEF K!vars
  <2>2. ListsOfSparks'
    BY <2>1 DEF StartIInv, ListsOfSparks, K!startup
  <2>3. NoneIsLost'
    BY <2>1, StuckStays DEF StartIInv, NoneIsLost
  <2>4. In(blanks) \cup In(partials) \subseteq Sparks
    BY InFacts DEF StartIInv, ListsOfSparks
  <2>5. TriedAreStuck'
    BY <2>1, <2>4, StuckStays DEF StartIInv, TriedAreStuck
  <2>6. AtRest'
    BY <2>1, StuckStays DEF StartIInv, AtRest, K!startup
  <2> QED
    BY <2>2, <2>3, <2>5, <2>6 DEF StartIInv
<1> QED
  BY <1>1, KickKeeps, TryBlankKeeps, GoThroughPartialsKeeps, TryPartialKeeps, LoopKeeps,
     FrontendKeeps DEF K!Next

(* In whatever order the sparks were added, however they need each other    *)
(* and whichever are disabled: when engine_init is through, no spark could  *)
(* do more (Ekiga::KickStart::kick), and the user interface is there unless *)
(* a service that it needs is missing.                                      *)
THEOREM StartCorrect ==
  K!KickStartAssumption => (K!Spec => []K!NothingIsLeft)
<1> SUFFICES ASSUME K!KickStartAssumption PROVE K!Spec => []K!NothingIsLeft
  OBVIOUS
<1>1. StartIInv => K!NothingIsLeft
  BY DEF StartIInv, AtRest, Stuck, K!NothingIsLeft
<1>2. K!Spec => []StartIInv
  BY StartInit, StartStep, PTL DEF K!Spec
<1> QED
  BY <1>1, <1>2, PTL

(* The lists of KickStart implement Startup: a spark goes on only when what *)
(* its next stage needs is there, one stage at a time, and none that is     *)
(* disabled; the user interface comes once.                                 *)
THEOREM StartImplemented ==
  K!KickStartAssumption =>
    (K!Spec => K!StartupInit /\ [][K!StartupNext]_K!startup)
<1> SUFFICES ASSUME K!KickStartAssumption
             PROVE  K!Spec => K!StartupInit /\ [][K!StartupNext]_K!startup
  OBVIOUS
<1>1. K!Init => K!StartupInit
  BY DEF K!Init
<1>2. StartIInv /\ [K!Next]_K!vars => [K!StartupNext]_K!startup
  <2> SUFFICES ASSUME StartIInv, [K!Next]_K!vars
               PROVE  [K!StartupNext]_K!startup
    OBVIOUS
  <2>1. temp # <<>> => Head(temp) \in Sparks
    BY InFacts DEF StartIInv, ListsOfSparks
  <2>2. CASE K!TryBlank \/ K!TryPartial
    <3>1. K!Promoted(Head(temp)) \/ UNCHANGED K!startup
      BY <2>2 DEF K!TryBlank, K!TryPartial
    <3>2. temp # <<>>
      BY <2>2 DEF K!TryBlank, K!TryPartial
    <3> QED
      BY <2>1, <3>1, <3>2 DEF K!Promoted, K!StartupNext
  <2>3. CASE K!kick \/ K!GoThroughPartials \/ K!Loop \/ UNCHANGED K!vars
    BY <2>3 DEF K!kick, K!GoThroughPartials, K!Loop, K!vars
  <2>4. CASE K!gtk_frontend_init
    BY <2>4 DEF K!gtk_frontend_init, K!StartupNext
  <2> QED
    BY <2>2, <2>3, <2>4 DEF K!Next
<1>3. K!Spec => []StartIInv
  BY StartInit, StartStep, PTL DEF K!Spec
<1> QED
  BY <1>1, <1>2, <1>3, PTL DEF K!Spec

(* How often a spark is in a list. *)
Once(p) == IF p THEN 1 ELSE 0

LEMMA TimesType ==
  ASSUME NEW s, NEW q \in Seq(Sparks)
  PROVE  /\ IsFiniteSet({i \in DOMAIN q : q[i] = s})
         /\ K!Times(s, q) = Cardinality({i \in DOMAIN q : q[i] = s})
         /\ K!Times(s, q) \in Nat
<1> DEFINE At == {i \in DOMAIN q : q[i] = s}
<1>1. DOMAIN q = 1 .. Len(q) /\ Len(q) \in Nat
  OBVIOUS
<1>2. IsFiniteSet(At)
  <2>1. IsFiniteSet(1 .. Len(q)) /\ At \subseteq 1 .. Len(q)
    BY <1>1, FS_Interval
  <2> HIDE DEF At
  <2> QED
    BY <2>1, FS_Subset
<1>3. K!Times(s, q) = Cardinality(At)
  <2>1. K!Times(s, q) = K!Cardinality(At)
    BY DEF K!Times
  <2> HIDE DEF At
  <2>2. K!Cardinality(At) = Cardinality(At)
    BY DEF K!Cardinality, Cardinality
  <2> QED
    BY <2>1, <2>2
<1> QED
  BY <1>2, <1>3, FS_CardinalityType

LEMMA TimesNone ==
  ASSUME NEW s
  PROVE  K!Times(s, <<>>) = 0
<1>1. PICK q \in Seq(Sparks) : q = <<>>
  <2>1. <<>> \in Seq(Sparks)
    OBVIOUS
  <2> QED
    BY <2>1
<1>2. {i \in DOMAIN q : q[i] = s} = {}
  BY <1>1
<1> QED
  BY <1>1, <1>2, TimesType, FS_EmptySet

LEMMA TimesAppend ==
  ASSUME NEW s, NEW q \in Seq(Sparks), NEW e \in Sparks
  PROVE  K!Times(s, Append(q, e)) = K!Times(s, q) + Once(e = s)
<1>1. PICK r \in Seq(Sparks) : r = Append(q, e)
  <2>1. Append(q, e) \in Seq(Sparks)
    OBVIOUS
  <2> QED
    BY <2>1
<1>2. PICK P : P = {i \in DOMAIN q : q[i] = s}
  OBVIOUS
<1>3. PICK R : R = {i \in DOMAIN r : r[i] = s}
  OBVIOUS
<1>4. /\ DOMAIN q = 1 .. Len(q) /\ DOMAIN r = 1 .. Len(q) + 1 /\ Len(q) \in Nat
      /\ \A i \in 1 .. Len(q) : r[i] = q[i]
      /\ r[Len(q) + 1] = e
  BY <1>1
<1>5. R = IF e = s THEN P \cup {Len(q) + 1} ELSE P
  <2>1. \A i \in 1 .. Len(q) + 1 : i \in 1 .. Len(q) \/ i = Len(q) + 1
    BY <1>4
  <2>2. Len(q) + 1 \in 1 .. Len(q) + 1 /\ 1 .. Len(q) \subseteq 1 .. Len(q) + 1
    BY <1>4
  <2> QED
    BY <1>2, <1>3, <1>4, <2>1, <2>2
<1>6. Len(q) + 1 \notin P
  BY <1>2, <1>4
<1>7. IsFiniteSet(P) /\ Cardinality(P) = K!Times(s, q) /\ K!Times(s, q) \in Nat
  BY <1>2, TimesType
<1>8. Cardinality(R) = K!Times(s, r)
  BY <1>3, TimesType
<1>9. CASE e = s
  BY <1>1, <1>5, <1>6, <1>7, <1>8, <1>9, FS_AddElement DEF Once
<1>10. CASE e # s
  BY <1>1, <1>5, <1>7, <1>8, <1>10 DEF Once
<1> QED
  BY <1>9, <1>10

LEMMA TimesHead ==
  ASSUME NEW s, NEW q \in Seq(Sparks), q # <<>>
  PROVE  K!Times(s, q) = K!Times(s, Tail(q)) + Once(Head(q) = s)
<1> DEFINE Same(r) == r # <<>> =>
             K!Times(s, r) = K!Times(s, Tail(r)) + Once(Head(r) = s)
           T == {r \in Seq(Sparks) : Same(r)}
<1>1. <<>> \in T
  OBVIOUS
<1>2. ASSUME NEW r \in Seq(Sparks), NEW e \in Sparks, r \in T
      PROVE  Append(r, e) \in T
  <2>1. PICK z \in Seq(Sparks) : z = Append(r, e)
    <3>1. Append(r, e) \in Seq(Sparks)
      OBVIOUS
    <3> QED
      BY <3>1
  <2>2. K!Times(s, z) = K!Times(s, r) + Once(e = s)
    BY <2>1, TimesAppend
  <2>3. CASE r = <<>>
    <3>1. Tail(z) = <<>> /\ Head(z) = e
      BY <2>1, <2>3
    <3> QED
      BY <2>1, <2>2, <2>3, <3>1
  <2>4. CASE r # <<>>
    <3>1. PICK y \in Seq(Sparks) : y = Tail(r)
      <4>1. Tail(r) \in Seq(Sparks)
        BY <2>4
      <4> QED
        BY <4>1
    <3>2. Tail(z) = Append(y, e) /\ Head(z) = Head(r)
      BY <2>1, <2>4, <3>1
    <3>3. K!Times(s, Append(y, e)) = K!Times(s, y) + Once(e = s)
      BY TimesAppend
    <3>4. K!Times(s, r) = K!Times(s, y) + Once(Head(r) = s)
      BY <1>2, <2>4, <3>1
    <3>5. K!Times(s, y) \in Nat /\ Once(e = s) \in Nat /\ Once(Head(r) = s) \in Nat
      BY TimesType DEF Once
    <3>6. K!Times(s, z) = K!Times(s, Tail(z)) + Once(Head(z) = s)
      <4>1. Once(Head(z) = s) = Once(Head(r) = s)
        BY <3>2
      <4>2. K!Times(s, Tail(z)) = K!Times(s, y) + Once(e = s)
        BY <3>2, <3>3
      <4>3. PICK a \in Nat : a = Once(e = s)
        BY <3>5
      <4>4. PICK b \in Nat : b = Once(Head(r) = s)
        BY <3>5
      <4>5. PICK n \in Nat : n = K!Times(s, y)
        BY <3>5
      <4>6. /\ K!Times(s, z) = (n + b) + a
            /\ K!Times(s, Tail(z)) + Once(Head(z) = s) = (n + a) + b
        BY <2>2, <3>4, <4>1, <4>2, <4>3, <4>4, <4>5
      <4> QED
        BY <4>6
    <3> QED
      BY <2>1, <3>6
  <2> QED
    BY <2>3, <2>4
<1> HIDE DEF T
<1>3. Seq(Sparks) \subseteq T
  BY <1>1, <1>2, ListInduction
<1> QED
  BY <1>3 DEF T

(* Who is on his way in temp belongs to the list that is gone through. *)
Counted(s) ==
  /\ K!Times(s, blanks) + (IF phase = "partials" THEN 0 ELSE K!Times(s, temp))
       = Once(done[s] = 0)
  /\ K!Times(s, partials) + (IF phase = "partials" THEN K!Times(s, temp) ELSE 0)
       = Once(done[s] # 0 /\ done[s] # Len(Stages[s]))

AllCounted == \A s \in Sparks : Counted(s)

LEMMA InitCounted == K!KickStartAssumption /\ K!Init => AllCounted
<1> SUFFICES ASSUME K!KickStartAssumption, K!Init, NEW s \in Sparks PROVE Counted(s)
  BY DEF AllCounted
<1>1. StartIInv
  BY StartInit
<1>2. blanks \in Seq(Sparks) /\ s \in In(blanks)
  BY <1>1 DEF StartIInv, ListsOfSparks, NoneIsLost, K!IsFull, K!Init, K!StartupInit,
     K!KickStartAssumption, K!StartupAssumption, In
<1>3. PICK k \in DOMAIN blanks : blanks[k] = s
  BY <1>2 DEF In
<1>4. \A i \in DOMAIN blanks : blanks[i] = s => i = k
  BY <1>3 DEF K!Init, K!Injection, K!IsInjective
<1>5. {i \in DOMAIN blanks : blanks[i] = s} = {k}
  BY <1>3, <1>4
<1>6. K!Times(s, blanks) = 1
  <2>1. Cardinality({k}) = 1
    BY FS_Singleton
  <2> QED
    BY <1>2, <1>5, <2>1, TimesType
<1>7. /\ done[s] = 0 /\ phase = "idle"
      /\ partials = <<>> /\ temp = <<>>
  BY DEF K!Init, K!StartupInit
<1>8. K!Times(s, partials) = 0 /\ K!Times(s, temp) = 0
  BY <1>7, TimesNone
<1> QED
  BY <1>6, <1>7, <1>8 DEF Counted, Once

(* A list that is gone through moves to temp. *)
LEMMA MovedCounted ==
  ASSUME StartIInv, AllCounted, UNCHANGED done,
         \/ /\ phase \in {"idle", "partials"} /\ temp = <<>> /\ phase' = "blanks"
            /\ temp' = blanks /\ blanks' = <<>> /\ UNCHANGED partials
         \/ /\ phase = "blanks" /\ temp = <<>> /\ phase' = "partials"
            /\ temp' = partials /\ partials' = <<>> /\ UNCHANGED blanks
         \/ /\ temp = <<>> /\ UNCHANGED <<temp, blanks, partials>>
         \/ UNCHANGED <<phase, temp, blanks, partials>>
  PROVE  AllCounted'
<1> SUFFICES ASSUME NEW s \in Sparks PROVE Counted(s)'
  BY DEF AllCounted
<1>1. /\ K!Times(s, blanks) \in Nat /\ K!Times(s, partials) \in Nat
      /\ K!Times(s, temp) \in Nat
  BY TimesType DEF StartIInv, ListsOfSparks
<1>2. K!Times(s, <<>>) = 0
  BY TimesNone
<1>3. Counted(s)
  BY DEF AllCounted
<1> QED
  BY <1>1, <1>2, <1>3 DEF Counted

(* A spark that stays in its list goes from the one end to the other. *)
LEMMA StayedCounted ==
  ASSUME StartIInv, AllCounted, temp # <<>>, temp' = Tail(temp),
         UNCHANGED <<done, phase>>,
         \/ /\ phase = "blanks" /\ blanks' = Append(blanks, Head(temp))
            /\ UNCHANGED partials
         \/ /\ phase = "partials" /\ partials' = Append(partials, Head(temp))
            /\ UNCHANGED blanks
  PROVE  AllCounted'
<1> SUFFICES ASSUME NEW s \in Sparks PROVE Counted(s)'
  BY DEF AllCounted
<1>1. /\ blanks \in Seq(Sparks) /\ partials \in Seq(Sparks)
      /\ temp \in Seq(Sparks)
  BY DEF StartIInv, ListsOfSparks
<1>2. Head(temp) \in Sparks /\ Tail(temp) \in Seq(Sparks)
  BY <1>1, InFacts
<1>3. PICK h \in Nat : h = Once(Head(temp) = s)
  BY DEF Once
<1>4. K!Times(s, temp) = K!Times(s, Tail(temp)) + h
  BY <1>1, <1>3, TimesHead
<1>5. K!Times(s, Append(blanks, Head(temp))) = K!Times(s, blanks) + h
  BY <1>1, <1>2, <1>3, TimesAppend
<1>6. K!Times(s, Append(partials, Head(temp))) = K!Times(s, partials) + h
  BY <1>1, <1>2, <1>3, TimesAppend
<1>7. /\ K!Times(s, blanks) \in Nat /\ K!Times(s, partials) \in Nat
      /\ K!Times(s, Tail(temp)) \in Nat
  BY <1>1, <1>2, TimesType
<1>8. Counted(s)
  BY DEF AllCounted
<1>9. CASE phase = "blanks" /\ blanks' = Append(blanks, Head(temp))
           /\ UNCHANGED partials
  <2>1. /\ K!Times(s, blanks') + K!Times(s, temp')
             = K!Times(s, blanks) + K!Times(s, temp)
        /\ K!Times(s, partials') = K!Times(s, partials)
    BY <1>3, <1>4, <1>5, <1>7, <1>9
  <2> QED
    BY <1>8, <1>9, <2>1 DEF Counted
<1>10. CASE phase = "partials" /\ partials' = Append(partials, Head(temp))
            /\ UNCHANGED blanks
  <2>1. /\ K!Times(s, partials') + K!Times(s, temp')
             = K!Times(s, partials) + K!Times(s, temp)
        /\ K!Times(s, blanks') = K!Times(s, blanks)
    BY <1>3, <1>4, <1>6, <1>7, <1>10
  <2> QED
    BY <1>8, <1>10, <2>1 DEF Counted
<1> QED
  BY <1>9, <1>10

LEMMA PromotedCounted ==
  ASSUME K!KickStartAssumption, StartIInv, AllCounted, phase # "idle",
         temp # <<>>, temp' = Tail(temp), K!Promoted(Head(temp)),
         UNCHANGED <<blanks, phase>>
  PROVE  AllCounted'
<1> SUFFICES ASSUME NEW s \in Sparks PROVE Counted(s)'
  BY DEF AllCounted
<1>1. /\ blanks \in Seq(Sparks) /\ partials \in Seq(Sparks)
      /\ temp \in Seq(Sparks)
  BY DEF StartIInv, ListsOfSparks
<1>2. PICK t \in Sparks : t = Head(temp)
  BY <1>1, InFacts
<1>3. /\ ~K!IsFull(t) /\ done' = [done EXCEPT ![t] = @ + 1]
      /\ partials' = IF K!get_state(t, done[t] + 1) = "PARTIAL"
                       THEN Append(partials, t) ELSE partials
  BY <1>2 DEF K!Promoted, K!Advance, K!CanDoMore
<1>4. /\ done \in [Sparks -> Nat] /\ done[t] + 1 # 0
      /\ Len(Stages[t]) # 0 /\ done[t] # Len(Stages[t])
  <2>1. done \in [Sparks -> Nat]
    BY DEF StartIInv, ListsOfSparks
  <2>2. done[t] \in Nat
    BY <2>1
  <2>3. Len(Stages[t]) # 0
    BY DEF K!KickStartAssumption, K!StartupAssumption
  <2> QED
    BY <1>3, <2>1, <2>2, <2>3 DEF K!IsFull
<1>5. K!get_state(t, done[t] + 1) = "PARTIAL" <=> done[t] + 1 # Len(Stages[t])
  BY <1>4 DEF K!get_state
<1>6. Tail(temp) \in Seq(Sparks)
  BY <1>1, InFacts
<1>7. PICK h \in Nat : h = Once(t = s)
  BY DEF Once
<1>8. K!Times(s, temp) = K!Times(s, Tail(temp)) + h
  BY <1>1, <1>2, <1>7, TimesHead
<1>9. K!Times(s, Append(partials, t)) = K!Times(s, partials) + h
  BY <1>1, <1>7, TimesAppend
<1>10. /\ K!Times(s, blanks) \in Nat /\ K!Times(s, partials) \in Nat
       /\ K!Times(s, Tail(temp)) \in Nat
  BY <1>1, <1>6, TimesType
<1>11. Counted(s)
  BY DEF AllCounted
<1>12. phase \in {"blanks", "partials"}
  BY DEF StartIInv, ListsOfSparks
<1>13. CASE t = s
  <2>1. h = 1 /\ done'[s] = done[s] + 1
    BY <1>3, <1>4, <1>7, <1>13 DEF Once
  <2>2. /\ phase = "blanks" => done[s] = 0 /\ K!Times(s, partials) = 0
                                /\ K!Times(s, blanks) = 0
                                /\ K!Times(s, Tail(temp)) = 0
        /\ phase = "partials" => done[s] # 0 /\ K!Times(s, partials) = 0
                                /\ K!Times(s, blanks) = 0
                                /\ K!Times(s, Tail(temp)) = 0
    BY <1>4, <1>8, <1>10, <1>11, <1>13, <2>1 DEF Counted, Once
  <2>3. K!Times(s, partials') = Once(done[s] + 1 # Len(Stages[s]))
    BY <1>3, <1>5, <1>9, <1>12, <1>13, <2>1, <2>2 DEF Once
  <2> QED
    BY <1>4, <1>12, <1>13, <2>1, <2>2, <2>3 DEF Counted, Once
<1>14. CASE t # s
  <2>1. h = 0 /\ done'[s] = done[s]
    BY <1>3, <1>4, <1>7, <1>14 DEF Once
  <2>2. K!Times(s, partials') = K!Times(s, partials)
    BY <1>3, <1>9, <1>10, <2>1
  <2>3. K!Times(s, temp') = K!Times(s, temp)
    BY <1>8, <1>10, <2>1
  <2> QED
    BY <1>11, <2>1, <2>2, <2>3 DEF Counted
<1> QED
  BY <1>13, <1>14

LEMMA StepCounted ==
  ASSUME K!KickStartAssumption, StartIInv, AllCounted, [K!Next]_K!vars
  PROVE  AllCounted'
<1>1. CASE K!kick
  <2>1. phase = "idle" /\ temp = <<>> /\ UNCHANGED <<done, partials>>
    BY <1>1 DEF K!kick, K!startup, StartIInv, ListsOfSparks
  <2> QED
    BY <1>1, <2>1, MovedCounted DEF K!kick, K!GoThroughBlanks
<1>2. CASE K!TryBlank
  <2>1. phase = "blanks" /\ temp # <<>> /\ temp' = Tail(temp) /\ UNCHANGED phase
    BY <1>2 DEF K!TryBlank
  <2>2. CASE K!Promoted(Head(temp)) /\ UNCHANGED blanks
    BY <2>1, <2>2, PromotedCounted
  <2>3. CASE blanks' = Append(blanks, Head(temp)) /\ UNCHANGED <<done, partials>>
    BY <2>1, <2>3, StayedCounted
  <2> QED
    BY <1>2, <2>2, <2>3 DEF K!TryBlank, K!startup
<1>3. CASE K!GoThroughPartials
  BY <1>3, MovedCounted DEF K!GoThroughPartials, K!startup
<1>4. CASE K!TryPartial
  <2>1. /\ phase = "partials" /\ temp # <<>> /\ temp' = Tail(temp)
        /\ UNCHANGED <<phase, blanks>>
    BY <1>4 DEF K!TryPartial
  <2>2. CASE K!Promoted(Head(temp))
    BY <2>1, <2>2, PromotedCounted
  <2>3. CASE partials' = Append(partials, Head(temp)) /\ UNCHANGED done
    BY <2>1, <2>3, StayedCounted
  <2> QED
    BY <1>4, <2>2, <2>3 DEF K!TryPartial, K!startup
<1>5. CASE K!Loop
  <2>1. phase = "partials" /\ temp = <<>> /\ UNCHANGED <<done, partials>>
    BY <1>5 DEF K!Loop, K!startup
  <2>2. CASE K!GoThroughBlanks
    BY <2>1, <2>2, MovedCounted DEF K!GoThroughBlanks
  <2>3. CASE phase' = "idle" /\ UNCHANGED <<blanks, temp>>
    <3> SUFFICES ASSUME NEW s \in Sparks PROVE Counted(s)'
      BY DEF AllCounted
    <3>1. Counted(s) /\ K!Times(s, temp) = 0
      BY <2>1, TimesNone DEF AllCounted
    <3> QED
      BY <2>1, <2>3, <3>1 DEF Counted
  <2> QED
    BY <1>5, <2>2, <2>3 DEF K!Loop
<1>6. CASE K!gtk_frontend_init
  BY <1>6, MovedCounted DEF K!gtk_frontend_init, K!GuiComes, K!startup
<1>7. CASE UNCHANGED K!vars
  BY <1>7, MovedCounted DEF K!vars, K!startup
<1> QED
  BY <1>1, <1>2, <1>3, <1>4, <1>5, <1>6, <1>7 DEF K!Next

(* A spark that is not full is in one list, once, and in the one that its   *)
(* state calls for; a full one is in none: kick runs no spark twice and     *)
(* none that is through (KickStart::kick).                                  *)
THEOREM ListsCorrect ==
  K!KickStartAssumption => (K!Spec => []K!EachIsInItsList)
<1> SUFFICES ASSUME K!KickStartAssumption PROVE K!Spec => []K!EachIsInItsList
  OBVIOUS
<1>1. StartIInv /\ AllCounted => K!EachIsInItsList
  <2> SUFFICES ASSUME StartIInv, AllCounted, NEW s \in Sparks
               PROVE  /\ K!Times(s, blanks)
                           + (IF phase = "partials" THEN 0 ELSE K!Times(s, temp))
                             = Once(K!get_state(s, done[s]) = "BLANK")
                      /\ K!Times(s, partials)
                           + (IF phase = "partials" THEN K!Times(s, temp) ELSE 0)
                             = Once(K!get_state(s, done[s]) = "PARTIAL")
    BY DEF K!EachIsInItsList, Once
  <2>1. Len(Stages[s]) # 0
    BY DEF K!KickStartAssumption, K!StartupAssumption
  <2>2. Once(K!get_state(s, done[s]) = "BLANK") = Once(done[s] = 0)
    BY <2>1 DEF K!get_state, Once
  <2>3. Once(K!get_state(s, done[s]) = "PARTIAL")
          = Once(done[s] # 0 /\ done[s] # Len(Stages[s]))
    BY <2>1 DEF K!get_state, Once
  <2> QED
    BY <2>2, <2>3 DEF AllCounted, Counted
<1>2. K!KickStartAssumption /\ K!Init => StartIInv /\ AllCounted
  BY StartInit, InitCounted
<1>3. StartIInv /\ AllCounted /\ [K!Next]_K!vars => StartIInv' /\ AllCounted'
  BY StartStep, StepCounted
<1> QED
  BY <1>1, <1>2, <1>3, PTL DEF K!Spec

-----------------------------------------------------------------------------
(* The detection of NAT. *)

StunTypes ==
  queue \in Seq(D!NatTypes) /\ polls \in Nat /\ reports \in 0 .. MaxReports

StunIInv == StunTypes /\ D!OneDetector /\ D!NothingIsForgotten

LEMMA StunInit == D!StunAssumption /\ D!Init => StunIInv
<1> SUFFICES ASSUME D!StunAssumption, D!Init PROVE StunIInv
  OBVIOUS
<1>1. StunTypes
  BY DEF D!StunAssumption, D!Init, StunTypes
<1>2. D!OneDetector /\ D!NothingIsForgotten
  BY DEF D!Init, D!OneDetector, D!NothingIsForgotten
<1> QED
  BY <1>1, <1>2 DEF StunIInv

LEMMA StunEnableKeeps ==
  ASSUME D!StunAssumption, StunIInv, NEW enabled \in BOOLEAN,
         D!set_stun_enabled(enabled)
  PROVE  StunIInv'
<1>1. CASE enabled /\ ~stun_thread /\ D!StartsDetector
  BY <1>1 DEF StunIInv, D!StunAssumption, D!set_stun_enabled, D!StartsDetector,
     StunTypes, D!OneDetector, D!NothingIsForgotten
<1>2. CASE D!Ready /\ UNCHANGED <<stun_thread, detector, patience, polls>>
  BY <1>2 DEF StunIInv, D!set_stun_enabled, D!Ready, StunTypes, D!OneDetector,
     D!NothingIsForgotten
<1> QED
  BY <1>1, <1>2 DEF D!set_stun_enabled

LEMMA StunDetectsKeeps ==
  ASSUME StunIInv, D!Detects
  PROVE  StunIInv'
<1>1. PICK result \in D!NatTypes : queue' = Append(queue, result)
  BY DEF D!Detects
<1>2. queue = <<>> /\ queue' = <<result>> /\ queue' \in Seq(D!NatTypes)
  BY <1>1 DEF StunIInv, D!Detects, D!OneDetector, StunTypes
<1> QED
  BY <1>2 DEF StunIInv, D!Detects, StunTypes, D!OneDetector, D!NothingIsForgotten

LEMMA StunTimerKeeps ==
  ASSUME D!StunAssumption, StunIInv, D!HandleSTUNResult
  PROVE  StunIInv'
<1>1. UNCHANGED <<stun_enabled, detector, program>>
  BY DEF D!HandleSTUNResult
<1>2. CASE D!Waits
  BY <1>1, <1>2 DEF StunIInv, D!Waits, StunTypes, D!OneDetector,
     D!NothingIsForgotten, D!StunAssumption
<1>3. ASSUME D!Reports
      PROVE  reports' \in 0 .. MaxReports /\ (untold' => reports' > 0)
  <2>1. reports \in 0 .. MaxReports /\ MaxReports \in Nat \ {0}
    BY DEF StunIInv, StunTypes, D!StunAssumption
  <2>2. CASE program = "runs"
    <3>1. ~untold'
      BY <1>3, <2>2, Zenon DEF D!Reports
    <3>2. reports' = reports
      BY <1>3, <2>2 DEF D!Reports
    <3> QED
      BY <2>1, <3>1, <3>2
  <2>3. CASE program # "runs"
    <3>1. reports' = reports + 1 /\ reports' <= MaxReports
      BY <1>3, <2>3 DEF D!Reports
    <3> QED
      BY <2>1, <3>1
  <2> QED
    BY <2>2, <2>3
<1>4. CASE D!LosesPatience
  BY <1>1, <1>3, <1>4 DEF StunIInv, D!LosesPatience, D!Ready, StunTypes,
     D!OneDetector, D!NothingIsForgotten
<1>5. CASE D!UsesTheResult
  <2>1. queue' = <<>> /\ queue' \in Seq(D!NatTypes)
    BY <1>5 DEF StunIInv, D!UsesTheResult, StunTypes, D!OneDetector
  <2>2. ~detector
    BY <1>5 DEF StunIInv, D!UsesTheResult, D!OneDetector
  <2>3. reports' \in 0 .. MaxReports /\ (untold' => reports' > 0)
    BY <1>3, <1>5 DEF StunIInv, D!UsesTheResult, StunTypes, D!NothingIsForgotten
  <2> QED
    BY <1>1, <1>5, <2>1, <2>2, <2>3 DEF StunIInv, D!UsesTheResult, D!Ready,
       StunTypes, D!OneDetector, D!NothingIsForgotten
<1> QED
  BY <1>2, <1>4, <1>5 DEF D!HandleSTUNResult

LEMMA StunStep == D!StunAssumption /\ StunIInv /\ [D!Next]_D!vars => StunIInv'
<1> SUFFICES ASSUME D!StunAssumption, StunIInv, [D!Next]_D!vars PROVE StunIInv'
  OBVIOUS
<1>1. CASE D!ReportSTUNError
  BY <1>1 DEF StunIInv, D!ReportSTUNError, StunTypes, D!OneDetector,
     D!NothingIsForgotten, D!StunAssumption
<1>2. CASE D!MainWindow \/ D!Quit
  BY <1>2 DEF StunIInv, D!MainWindow, D!Quit, StunTypes, D!OneDetector,
     D!NothingIsForgotten
<1>3. CASE UNCHANGED D!vars
  BY <1>3 DEF StunIInv, D!vars, StunTypes, D!OneDetector, D!NothingIsForgotten
<1> QED
  BY <1>1, <1>2, <1>3, StunEnableKeeps, StunDetectsKeeps, StunTimerKeeps DEF D!Next

(* There is never a second detector, nor a second timer that asks for what *)
(* it found; the detector is there, or its result is, exactly while the    *)
(* pointer is set; and what is awaited, or has yet to be told, has the     *)
(* timer that will bring it (CallManager::set_stun_enabled,                *)
(* HandleSTUNResult, ReportSTUNError).                                     *)
THEOREM StunCorrect ==
  D!StunAssumption => (D!Spec => [](D!OneDetector /\ D!NothingIsForgotten))
<1> SUFFICES ASSUME D!StunAssumption
             PROVE  D!Spec => [](D!OneDetector /\ D!NothingIsForgotten)
  OBVIOUS
<1>1. StunIInv => D!OneDetector /\ D!NothingIsForgotten
  BY DEF StunIInv
<1>2. D!Spec => []StunIInv
  BY StunInit, StunStep, PTL DEF D!Spec
<1> QED
  BY <1>1, <1>2, PTL

-----------------------------------------------------------------------------
(* The codecs. *)

(* f is what Picked makes of the entries, one after the other. *)
Left(f, q, at) ==
  f = [i \in 0 .. Len(q) |->
         IF i = 0 THEN <<>>
           ELSE IF i \in at THEN Append(f[i - 1], q[i]) ELSE f[i - 1]]

Begins(q, r) == Len(q) <= Len(r) /\ \A i \in 1 .. Len(q) : r[i] = q[i]

LEMMA LeftAgree ==
  ASSUME NEW S, NEW at, NEW q \in Seq(S), NEW r \in Seq(S), Begins(q, r),
         NEW f, NEW g, Left(f, q, at), Left(g, r, at)
  PROVE  \A i \in 0 .. Len(q) : g[i] = f[i]
<1> DEFINE Bad == {i \in 0 .. Len(q) : g[i] # f[i]}
<1> SUFFICES ASSUME Bad # {} PROVE FALSE
  OBVIOUS
<1>1. /\ Len(q) \in Nat /\ Len(r) \in Nat /\ Len(q) <= Len(r)
      /\ \A i \in 1 .. Len(q) : r[i] = q[i]
  BY DEF Begins
<1>2. PICK n \in Bad : \A m \in Bad : n <= m
  <2>1. Bad \in SUBSET Nat
    BY <1>1
  <2> HIDE DEF Bad
  <2> QED
    BY <2>1, LeastOf
<1>3. n \in 0 .. Len(q) /\ n \in 0 .. Len(r)
  BY <1>1, <1>2
<1>4. f[n] = IF n = 0 THEN <<>>
               ELSE IF n \in at THEN Append(f[n - 1], q[n]) ELSE f[n - 1]
  BY <1>3 DEF Left
<1>5. g[n] = IF n = 0 THEN <<>>
               ELSE IF n \in at THEN Append(g[n - 1], r[n]) ELSE g[n - 1]
  BY <1>3 DEF Left
<1>6. n # 0
  BY <1>2, <1>4, <1>5
<1>7. n - 1 \in 0 .. Len(q) /\ n - 1 \notin Bad /\ n \in 1 .. Len(q)
  BY <1>1, <1>2, <1>3, <1>6
<1>8. g[n - 1] = f[n - 1] /\ r[n] = q[n]
  BY <1>1, <1>7
<1> QED
  BY <1>2, <1>4, <1>5, <1>6, <1>8

LEMMA LeftExists ==
  ASSUME NEW S, NEW at
  PROVE  \A q \in Seq(S) :
           \E f : Left(f, q, at) /\ \A i \in 0 .. Len(q) : f[i] \in Seq(S)
<1> DEFINE Made(q) ==
             \E f : Left(f, q, at) /\ \A i \in 0 .. Len(q) : f[i] \in Seq(S)
           T == {q \in Seq(S) : Made(q)}
<1>1. <<>> \in T
  <2> DEFINE f == [i \in 0 .. 0 |-> <<>>]
  <2>1. <<>> \in Seq(S) /\ Len(<<>>) = 0 /\ \A i \in 0 .. 0 : i = 0
    OBVIOUS
  <2>2. Left(f, <<>>, at)
    BY <2>1 DEF Left
  <2>3. \A i \in 0 .. 0 : f[i] \in Seq(S)
    BY <2>1
  <2> HIDE DEF f
  <2> QED
    BY <2>1, <2>2, <2>3
<1>2. ASSUME NEW q \in Seq(S), NEW e \in S, Made(q)
      PROVE  Append(q, e) \in Seq(S) /\ Made(Append(q, e))
  <2>1. PICK f : Left(f, q, at) /\ \A i \in 0 .. Len(q) : f[i] \in Seq(S)
    BY <1>2
  <2> DEFINE n == Len(q)
             last == IF n + 1 \in at THEN Append(f[n], e) ELSE f[n]
             g == [i \in 0 .. (n + 1) |-> IF i = n + 1 THEN last ELSE f[i]]
  <2>2. /\ n \in Nat /\ Append(q, e) \in Seq(S) /\ Len(Append(q, e)) = n + 1
        /\ \A i \in 1 .. n : Append(q, e)[i] = q[i]
        /\ Append(q, e)[n + 1] = e
    OBVIOUS
  <2>3. f[n] \in Seq(S) /\ last \in Seq(S)
    BY <2>1, <2>2
  <2>4. g[n + 1] = last /\ \A i \in 0 .. n : g[i] = f[i]
    BY <2>2
  <2>5. \A i \in 0 .. (n + 1) : g[i] \in Seq(S)
    BY <2>1, <2>2, <2>3
  <2>6. ASSUME NEW i \in 0 .. (n + 1)
        PROVE  g[i] = IF i = 0 THEN <<>>
                        ELSE IF i \in at THEN Append(g[i - 1], Append(q, e)[i])
                        ELSE g[i - 1]
    <3>1. CASE i = n + 1
      <4>1. i # 0 /\ i - 1 = n /\ n \in 0 .. n
        BY <2>2, <3>1
      <4>2. g[i - 1] = f[n]
        BY <2>4, <4>1
      <4> HIDE DEF g
      <4> QED
        BY <2>2, <2>4, <3>1, <4>1, <4>2
    <3>2. CASE i # n + 1
      <4>1. i \in 0 .. n /\ (i # 0 => i \in 1 .. n /\ i - 1 \in 0 .. n)
        BY <2>2, <3>2
      <4>2. f[i] = IF i = 0 THEN <<>>
                     ELSE IF i \in at THEN Append(f[i - 1], q[i]) ELSE f[i - 1]
        BY <2>1, <4>1 DEF Left
      <4>3. g[i] = f[i] /\ (i # 0 => g[i - 1] = f[i - 1])
        BY <2>4, <4>1
      <4> HIDE DEF g, n
      <4> QED
        BY <2>2, <4>1, <4>2, <4>3
    <3> QED
      BY <3>1, <3>2
  <2>7. Left(g, Append(q, e), at)
    <3>1. g = [i \in 0 .. (n + 1) |-> g[i]]
      OBVIOUS
    <3> HIDE DEF g
    <3>2. g = [i \in 0 .. (n + 1) |->
                 IF i = 0 THEN <<>>
                   ELSE IF i \in at THEN Append(g[i - 1], Append(q, e)[i])
                   ELSE g[i - 1]]
      BY <2>6, <3>1
    <3> QED
      BY <2>2, <3>2 DEF Left
  <2> HIDE DEF g, n, last
  <2> QED
    BY <2>2, <2>5, <2>7
<1> HIDE DEF Made
<1>3. \A q \in Seq(S), e \in S : q \in T => Append(q, e) \in T
  BY <1>2
<1> HIDE DEF T
<1>4. Seq(S) \subseteq T
  BY <1>1, <1>3, ListInduction
<1> QED
  BY <1>4 DEF T, Made

LEMMA PickedIsLeft ==
  ASSUME NEW S, NEW at, NEW q \in Seq(S), NEW f, Left(f, q, at)
  PROVE  C!Picked(q, at) = f[Len(q)]
<1> DEFINE F == CHOOSE g : g = [i \in 0 .. Len(q) |->
                   IF i = 0 THEN <<>>
                     ELSE IF i \in at THEN Append(g[i - 1], q[i]) ELSE g[i - 1]]
<1>1. Left(F, q, at)
  BY DEF Left
<1>2. C!Picked(q, at) = F[Len(q)]
  BY DEF C!Picked
<1> HIDE DEF F
<1>3. Begins(q, q) /\ Len(q) \in 0 .. Len(q)
  BY DEF Begins
<1>4. F[Len(q)] = f[Len(q)]
  BY <1>1, <1>3, LeftAgree
<1> QED
  BY <1>2, <1>4

(* What is picked of a list, entry by entry. *)
LEMMA PickedNone ==
  ASSUME NEW at
  PROVE  C!Picked(<<>>, at) = <<>>
<1>1. PICK q \in Seq({}) : q = <<>>
  <2>1. <<>> \in Seq({})
    OBVIOUS
  <2> QED
    BY <2>1
<1>2. PICK f : Left(f, q, at)
  BY LeftExists
<1>3. Len(q) = 0 /\ 0 \in 0 .. Len(q)
  BY <1>1
<1>4. f[0] = <<>>
  BY <1>2, <1>3 DEF Left
<1>5. C!Picked(q, at) = f[Len(q)]
  BY <1>2, PickedIsLeft
<1> QED
  BY <1>1, <1>3, <1>4, <1>5

LEMMA PickedType ==
  ASSUME NEW S, NEW q \in Seq(S), NEW at
  PROVE  C!Picked(q, at) \in Seq(S)
<1>1. PICK f : Left(f, q, at) /\ \A i \in 0 .. Len(q) : f[i] \in Seq(S)
  BY LeftExists
<1>2. Len(q) \in 0 .. Len(q)
  OBVIOUS
<1> QED
  BY <1>1, <1>2, PickedIsLeft

LEMMA PickedAppend ==
  ASSUME NEW S, NEW q \in Seq(S), NEW e \in S, NEW at
  PROVE  C!Picked(Append(q, e), at) =
           IF Len(q) + 1 \in at THEN Append(C!Picked(q, at), e)
                                ELSE C!Picked(q, at)
<1>1. PICK f : Left(f, q, at)
  BY LeftExists
<1>2. PICK r : r = Append(q, e)
  OBVIOUS
<1>3. /\ r \in Seq(S) /\ Len(r) = Len(q) + 1
      /\ Begins(q, r) /\ r[Len(q) + 1] = e
      /\ Len(q) \in Nat /\ Len(q) \in 0 .. Len(q)
  BY <1>2 DEF Begins
<1>4. PICK g : Left(g, r, at)
  BY <1>3, LeftExists
<1>5. g[Len(q)] = f[Len(q)]
  <2>1. \A i \in 0 .. Len(q) : g[i] = f[i]
    BY <1>1, <1>3, <1>4, LeftAgree
  <2> QED
    BY <1>3, <2>1
<1>6. PICK n : n = Len(q) + 1
  OBVIOUS
<1>7. n \in 0 .. Len(r) /\ n # 0 /\ n - 1 = Len(q) /\ n = Len(r)
  BY <1>3, <1>6
<1>8. g[n] = IF n \in at THEN Append(g[n - 1], r[n]) ELSE g[n - 1]
  BY <1>4, <1>7 DEF Left
<1>9. C!Picked(q, at) = f[Len(q)] /\ C!Picked(r, at) = g[n]
  BY <1>1, <1>3, <1>4, <1>7, PickedIsLeft
<1> QED
  BY <1>2, <1>3, <1>5, <1>6, <1>7, <1>8, <1>9

(* Only the positions in the list matter. *)
Agree(a, b, n) == \A i \in 1 .. n : i \in a <=> i \in b

LEMMA PickedSame ==
  ASSUME NEW S, NEW q \in Seq(S), NEW a, NEW b, Agree(a, b, Len(q))
  PROVE  C!Picked(q, a) = C!Picked(q, b)
<1> DEFINE Same(r) == Agree(a, b, Len(r)) => C!Picked(r, a) = C!Picked(r, b)
           T == {r \in Seq(S) : Same(r)}
<1>1. <<>> \in T
  <2>1. <<>> \in Seq(S)
    OBVIOUS
  <2> QED
    BY <2>1, PickedNone
<1>2. ASSUME NEW r \in Seq(S), NEW e \in S, r \in T
      PROVE  Append(r, e) \in T
  <2>1. /\ Append(r, e) \in Seq(S) /\ Len(Append(r, e)) = Len(r) + 1
        /\ Len(r) \in Nat
    OBVIOUS
  <2>2. ASSUME Agree(a, b, Len(r) + 1)
        PROVE  C!Picked(Append(r, e), a) = C!Picked(Append(r, e), b)
    <3>1. Agree(a, b, Len(r)) /\ (Len(r) + 1 \in a <=> Len(r) + 1 \in b)
      BY <2>1, <2>2 DEF Agree
    <3>2. C!Picked(r, a) = C!Picked(r, b)
      BY <1>2, <3>1
    <3>3. C!Picked(Append(r, e), a) =
            IF Len(r) + 1 \in a THEN Append(C!Picked(r, a), e) ELSE C!Picked(r, a)
      BY PickedAppend
    <3>4. C!Picked(Append(r, e), b) =
            IF Len(r) + 1 \in b THEN Append(C!Picked(r, b), e) ELSE C!Picked(r, b)
      BY PickedAppend
    <3> QED
      BY <3>1, <3>2, <3>3, <3>4
  <2> QED
    BY <2>1, <2>2
<1> HIDE DEF T
<1>3. Seq(S) \subseteq T
  BY <1>1, <1>2, ListInduction
<1> QED
  BY <1>3 DEF T

LEMMA OnlyAppend ==
  ASSUME NEW S, NEW q \in Seq(S), NEW e \in S, NEW N
  PROVE  C!Only(Append(q, e), N) =
           IF e.name \in N THEN Append(C!Only(q, N), e) ELSE C!Only(q, N)
<1> DEFINE At(r) == {i \in DOMAIN r : r[i].name \in N}
<1>1. PICK r : r = Append(q, e)
  OBVIOUS
<1>2. C!Only(q, N) = C!Picked(q, At(q)) /\ C!Only(r, N) = C!Picked(r, At(r))
  BY DEF C!Only
<1>3. /\ DOMAIN q = 1 .. Len(q) /\ DOMAIN r = 1 .. Len(q) + 1 /\ Len(q) \in Nat
      /\ \A i \in 1 .. Len(q) : r[i] = q[i]
      /\ r[Len(q) + 1] = e
  BY <1>1
<1>4. Agree(At(r), At(q), Len(q)) /\ (Len(q) + 1 \in At(r) <=> e.name \in N)
  BY <1>3 DEF Agree
<1> HIDE DEF At
<1>5. C!Picked(q, At(r)) = C!Picked(q, At(q))
  BY <1>4, PickedSame
<1>6. C!Picked(r, At(r)) =
        IF Len(q) + 1 \in At(r) THEN Append(C!Picked(q, At(r)), e)
                                ELSE C!Picked(q, At(r))
  BY <1>1, PickedAppend
<1> QED
  BY <1>1, <1>2, <1>4, <1>5, <1>6

LEMMA OnlyType ==
  ASSUME NEW S, NEW q \in Seq(S), NEW N
  PROVE  C!Only(q, N) \in Seq(S)
BY PickedType DEF C!Only

LEMMA OnlyOfNone ==
  ASSUME NEW N
  PROVE  C!Only(<<>>, N) = <<>>
BY PickedNone DEF C!Only

(* What holds the names that one looks for may be picked before. *)
Keeps(q, at, N) == \A i \in 1 .. Len(q) : q[i].name \in N => i \in at

LEMMA OnlyPicked ==
  ASSUME NEW S, NEW q \in Seq(S), NEW at, NEW N, Keeps(q, at, N)
  PROVE  C!Only(C!Picked(q, at), N) = C!Only(q, N)
<1> DEFINE Same(r) == Keeps(r, at, N) => C!Only(C!Picked(r, at), N) = C!Only(r, N)
           T == {r \in Seq(S) : Same(r)}
<1>1. <<>> \in T
  <2>1. <<>> \in Seq(S)
    OBVIOUS
  <2> QED
    BY <2>1, PickedNone
<1>2. ASSUME NEW r \in Seq(S), NEW e \in S, r \in T
      PROVE  Append(r, e) \in T
  <2>1. PICK z : z = Append(r, e)
    OBVIOUS
  <2>2. /\ z \in Seq(S) /\ Len(z) = Len(r) + 1 /\ Len(r) \in Nat
        /\ z[Len(r) + 1] = e /\ \A i \in 1 .. Len(r) : z[i] = r[i]
    BY <2>1
  <2>3. ASSUME Keeps(z, at, N)
        PROVE  C!Only(C!Picked(z, at), N) = C!Only(z, N)
    <3>1. Keeps(r, at, N) /\ (e.name \in N => Len(r) + 1 \in at)
      BY <2>2, <2>3 DEF Keeps
    <3>2. C!Only(C!Picked(r, at), N) = C!Only(r, N)
      BY <1>2, <3>1
    <3>3. PICK p \in Seq(S) : p = C!Picked(r, at)
      BY PickedType
    <3>4. C!Picked(z, at) = IF Len(r) + 1 \in at THEN Append(p, e) ELSE p
      BY <2>1, <3>3, PickedAppend
    <3>5. /\ C!Only(Append(p, e), N) =
               IF e.name \in N THEN Append(C!Only(p, N), e) ELSE C!Only(p, N)
          /\ C!Only(z, N) =
               IF e.name \in N THEN Append(C!Only(r, N), e) ELSE C!Only(r, N)
      BY <2>1, <3>3, OnlyAppend
    <3> QED
      BY <3>1, <3>2, <3>3, <3>4, <3>5
  <2> QED
    BY <2>1, <2>2, <2>3
<1> HIDE DEF T
<1>3. Seq(S) \subseteq T
  BY <1>1, <1>2, ListInduction
<1> QED
  BY <1>3 DEF T

LEMMA OnlyConcat ==
  ASSUME NEW S, NEW q \in Seq(S), NEW r \in Seq(S), NEW N
  PROVE  C!Only(q \o r, N) = C!Only(q, N) \o C!Only(r, N)
<1> DEFINE Same(z) == C!Only(q \o z, N) = C!Only(q, N) \o C!Only(z, N)
           T == {z \in Seq(S) : Same(z)}
<1>1. <<>> \in T
  <2>1. <<>> \in Seq(S) /\ q \o <<>> = q
    OBVIOUS
  <2>2. C!Only(<<>>, N) = <<>> /\ C!Only(q, N) \in Seq(S)
    BY OnlyType, OnlyOfNone
  <2>3. C!Only(q, N) \o <<>> = C!Only(q, N)
    BY <2>2
  <2> QED
    BY <2>1, <2>2, <2>3
<1>2. ASSUME NEW z \in Seq(S), NEW e \in S, z \in T
      PROVE  Append(z, e) \in T
  <2>1. /\ Append(z, e) \in Seq(S) /\ q \o z \in Seq(S)
        /\ q \o Append(z, e) = Append(q \o z, e)
    OBVIOUS
  <2>2. C!Only(Append(q \o z, e), N) =
          IF e.name \in N THEN Append(C!Only(q \o z, N), e)
                          ELSE C!Only(q \o z, N)
    <3>1. PICK y \in Seq(S) : y = q \o z
      BY <2>1
    <3>2. C!Only(Append(y, e), N) =
            IF e.name \in N THEN Append(C!Only(y, N), e) ELSE C!Only(y, N)
      BY OnlyAppend
    <3> QED
      BY <3>1, <3>2
  <2>5. C!Only(Append(z, e), N) =
          IF e.name \in N THEN Append(C!Only(z, N), e) ELSE C!Only(z, N)
    BY OnlyAppend
  <2>3. C!Only(q, N) \in Seq(S) /\ C!Only(z, N) \in Seq(S)
    BY OnlyType
  <2>4. C!Only(q, N) \o Append(C!Only(z, N), e)
          = Append(C!Only(q, N) \o C!Only(z, N), e)
    BY <2>3
  <2> QED
    BY <1>2, <2>1, <2>2, <2>4, <2>5
<1> HIDE DEF T
<1>3. Seq(S) \subseteq T
  BY <1>1, <1>2, ListInduction
<1> QED
  BY <1>3 DEF T

LEMMA OnlyOnly ==
  ASSUME NEW S, NEW q \in Seq(S), NEW M, NEW N
  PROVE  C!Only(C!Only(q, M), N) = C!Only(q, M \cap N)
<1> DEFINE Same(r) == C!Only(C!Only(r, M), N) = C!Only(r, M \cap N)
           T == {r \in Seq(S) : Same(r)}
<1>1. <<>> \in T
  <2>1. <<>> \in Seq(S)
    OBVIOUS
  <2> QED
    BY <2>1, OnlyOfNone
<1>2. ASSUME NEW r \in Seq(S), NEW e \in S, r \in T
      PROVE  Append(r, e) \in T
  <2>1. PICK p \in Seq(S) : p = C!Only(r, M)
    BY OnlyType
  <2>2. C!Only(Append(r, e), M) = IF e.name \in M THEN Append(p, e) ELSE p
    BY <2>1, OnlyAppend
  <2>3. C!Only(Append(p, e), N) =
          IF e.name \in N THEN Append(C!Only(p, N), e) ELSE C!Only(p, N)
    BY OnlyAppend
  <2>4. PICK L : L = M \cap N
    OBVIOUS
  <2>5. C!Only(Append(r, e), L) =
          IF e.name \in L THEN Append(C!Only(r, L), e) ELSE C!Only(r, L)
    BY OnlyAppend
  <2>6. C!Only(p, N) = C!Only(r, L) /\ Append(r, e) \in Seq(S)
    BY <1>2, <2>1, <2>4
  <2>7. e.name \in L <=> e.name \in M /\ e.name \in N
    BY <2>4
  <2>8. C!Only(C!Only(Append(r, e), M), N) = C!Only(Append(r, e), L)
    BY <2>2, <2>3, <2>5, <2>6, <2>7
  <2> QED
    BY <2>4, <2>6, <2>8
<1> HIDE DEF T
<1>3. Seq(S) \subseteq T
  BY <1>1, <1>2, ListInduction
<1> QED
  BY <1>3 DEF T

(* Only names that are in the list matter. *)
LEMMA OnlySame ==
  ASSUME NEW q, NEW M, NEW N, C!NamesIn(q) \cap M = C!NamesIn(q) \cap N
  PROVE  C!Only(q, M) = C!Only(q, N)
<1>1. \A i \in DOMAIN q : q[i].name \in M <=> q[i].name \in N
  BY DEF C!NamesIn
<1>2. {i \in DOMAIN q : q[i].name \in M} = {i \in DOMAIN q : q[i].name \in N}
  BY <1>1
<1> QED
  BY <1>2 DEF C!Only

LEMMA OnlyNone ==
  ASSUME NEW S, NEW q \in Seq(S), NEW N, C!NamesIn(q) \cap N = {}
  PROVE  C!Only(q, N) = <<>>
<1> DEFINE T == {r \in Seq(S) : C!Only(r, {}) = <<>>}
<1>1. <<>> \in T
  <2>1. <<>> \in Seq(S)
    OBVIOUS
  <2> QED
    BY <2>1, OnlyOfNone
<1>2. ASSUME NEW r \in Seq(S), NEW e \in S, r \in T
      PROVE  Append(r, e) \in T
  <2>1. Append(r, e) \in Seq(S) /\ e.name \notin {}
    OBVIOUS
  <2>2. C!Only(Append(r, e), {}) = C!Only(r, {})
    BY <2>1, OnlyAppend
  <2> QED
    BY <1>2, <2>1, <2>2
<1> HIDE DEF T
<1>3. Seq(S) \subseteq T
  BY <1>1, <1>2, ListInduction
<1>4. C!Only(q, {}) = <<>>
  BY <1>3 DEF T
<1>5. C!NamesIn(q) \cap N = C!NamesIn(q) \cap {}
  OBVIOUS
<1>6. C!Only(q, N) = C!Only(q, {})
  BY <1>5, OnlySame
<1> QED
  BY <1>4, <1>6

(* The names that a list has, and lists that name nothing twice. *)
Distinct(q) == \A i, j \in 1 .. Len(q) : q[i].name = q[j].name => i = j

LEMMA NamesOfNone == C!NamesIn(<<>>) = {}
<1>1. DOMAIN <<>> = {}
  OBVIOUS
<1> QED
  BY <1>1 DEF C!NamesIn

LEMMA NamesAppend ==
  ASSUME NEW S, NEW q \in Seq(S), NEW e \in S
  PROVE  C!NamesIn(Append(q, e)) = C!NamesIn(q) \cup {e.name}
<1>1. PICK r : r = Append(q, e)
  OBVIOUS
<1>2. /\ DOMAIN q = 1 .. Len(q) /\ DOMAIN r = 1 .. Len(q) + 1 /\ Len(q) \in Nat
      /\ \A i \in 1 .. Len(q) : r[i] = q[i]
      /\ r[Len(q) + 1] = e
  BY <1>1
<1>3. ASSUME NEW m \in C!NamesIn(r) PROVE m \in C!NamesIn(q) \cup {e.name}
  <2>1. PICK i \in 1 .. Len(q) + 1 : m = r[i].name
    BY <1>2, <1>3 DEF C!NamesIn
  <2>2. i = Len(q) + 1 \/ i \in 1 .. Len(q)
    BY <1>2, <2>1
  <2> QED
    BY <1>2, <2>1, <2>2 DEF C!NamesIn
<1>4. ASSUME NEW m \in C!NamesIn(q) PROVE m \in C!NamesIn(r)
  <2>1. PICK i \in 1 .. Len(q) : m = q[i].name
    BY <1>2, <1>4 DEF C!NamesIn
  <2>2. i \in 1 .. Len(q) + 1
    BY <1>2, <2>1
  <2> QED
    BY <1>2, <2>1, <2>2 DEF C!NamesIn
<1>5. e.name \in C!NamesIn(r)
  <2>1. Len(q) + 1 \in 1 .. Len(q) + 1
    BY <1>2
  <2> QED
    BY <1>2, <2>1 DEF C!NamesIn
<1> QED
  BY <1>1, <1>3, <1>4, <1>5

LEMMA NamesConcat ==
  ASSUME NEW S, NEW q \in Seq(S), NEW r \in Seq(S)
  PROVE  C!NamesIn(q \o r) = C!NamesIn(q) \cup C!NamesIn(r)
<1> DEFINE Same(z) == C!NamesIn(q \o z) = C!NamesIn(q) \cup C!NamesIn(z)
           T == {z \in Seq(S) : Same(z)}
<1>1. <<>> \in T
  <2>1. PICK z \in Seq(S) : z = <<>>
    <3>1. <<>> \in Seq(S)
      OBVIOUS
    <3> QED
      BY <3>1
  <2>2. q \o z = q
    BY <2>1
  <2> QED
    BY <2>1, <2>2, NamesOfNone
<1>2. ASSUME NEW z \in Seq(S), NEW e \in S, z \in T
      PROVE  Append(z, e) \in T
  <2>1. PICK y \in Seq(S) : y = q \o z
    <3>1. q \o z \in Seq(S)
      OBVIOUS
    <3> QED
      BY <3>1
  <2>2. Append(z, e) \in Seq(S) /\ q \o Append(z, e) = Append(y, e)
    BY <2>1
  <2>3. C!NamesIn(Append(y, e)) = C!NamesIn(y) \cup {e.name}
    BY NamesAppend
  <2>4. C!NamesIn(Append(z, e)) = C!NamesIn(z) \cup {e.name}
    BY NamesAppend
  <2> QED
    BY <1>2, <2>1, <2>2, <2>3, <2>4
<1> HIDE DEF T
<1>3. Seq(S) \subseteq T
  BY <1>1, <1>2, ListInduction
<1> QED
  BY <1>3 DEF T

LEMMA DistinctAppend ==
  ASSUME NEW S, NEW q \in Seq(S), NEW e \in S
  PROVE  Distinct(Append(q, e)) <=> Distinct(q) /\ e.name \notin C!NamesIn(q)
<1>1. PICK r : r = Append(q, e)
  OBVIOUS
<1>2. /\ DOMAIN q = 1 .. Len(q) /\ Len(r) = Len(q) + 1 /\ Len(q) \in Nat
      /\ \A i \in 1 .. Len(q) : r[i] = q[i]
      /\ r[Len(q) + 1] = e
  BY <1>1
<1>3. ASSUME Distinct(r) PROVE Distinct(q) /\ e.name \notin C!NamesIn(q)
  <2>1. Distinct(q)
    BY <1>2, <1>3 DEF Distinct
  <2>2. ASSUME NEW i \in 1 .. Len(q), e.name = q[i].name PROVE FALSE
    BY <1>2, <1>3, <2>2 DEF Distinct
  <2> QED
    BY <1>2, <2>1, <2>2 DEF C!NamesIn
<1>4. ASSUME Distinct(q), e.name \notin C!NamesIn(q) PROVE Distinct(r)
  <2>1. \A i \in 1 .. Len(q) : e.name # q[i].name
    BY <1>2, <1>4 DEF C!NamesIn
  <2> SUFFICES ASSUME NEW i \in 1 .. Len(q) + 1, NEW j \in 1 .. Len(q) + 1,
                      r[i].name = r[j].name
               PROVE  i = j
    BY <1>2 DEF Distinct
  <2>2. /\ i = Len(q) + 1 \/ i \in 1 .. Len(q)
        /\ j = Len(q) + 1 \/ j \in 1 .. Len(q)
    BY <1>2
  <2> QED
    BY <1>2, <1>4, <2>1, <2>2 DEF Distinct
<1> QED
  BY <1>1, <1>3, <1>4

LEMMA DistinctConcat ==
  ASSUME NEW S, NEW q \in Seq(S), NEW r \in Seq(S), Distinct(q), Distinct(r),
         C!NamesIn(q) \cap C!NamesIn(r) = {}
  PROVE  Distinct(q \o r)
<1>1. PICK z : z = q \o r
  OBVIOUS
<1>2. /\ Len(q) \in Nat /\ Len(r) \in Nat /\ Len(z) = Len(q) + Len(r)
      /\ DOMAIN q = 1 .. Len(q) /\ DOMAIN r = 1 .. Len(r)
      /\ \A i \in 1 .. Len(q) : z[i] = q[i]
      /\ \A i \in 1 .. Len(z) : i > Len(q) => z[i] = r[i - Len(q)]
  BY <1>1
<1>3. \A i \in 1 .. Len(q), j \in 1 .. Len(r) : q[i].name # r[j].name
  BY <1>2 DEF C!NamesIn
<1> SUFFICES ASSUME NEW i \in 1 .. Len(z), NEW j \in 1 .. Len(z),
                    z[i].name = z[j].name
             PROVE  i = j
  BY <1>1 DEF Distinct
<1>4. CASE i \in 1 .. Len(q) /\ j \in 1 .. Len(q)
  BY <1>2, <1>4 DEF Distinct
<1>5. CASE i \in 1 .. Len(q) /\ j \notin 1 .. Len(q)
  <2>1. j - Len(q) \in 1 .. Len(r) /\ z[j] = r[j - Len(q)]
    BY <1>2, <1>5
  <2> QED
    BY <1>2, <1>3, <1>5, <2>1
<1>6. CASE i \notin 1 .. Len(q) /\ j \in 1 .. Len(q)
  <2>1. i - Len(q) \in 1 .. Len(r) /\ z[i] = r[i - Len(q)]
    BY <1>2, <1>6
  <2> QED
    BY <1>2, <1>3, <1>6, <2>1
<1>7. CASE i \notin 1 .. Len(q) /\ j \notin 1 .. Len(q)
  <2>1. /\ i - Len(q) \in 1 .. Len(r) /\ z[i] = r[i - Len(q)]
        /\ j - Len(q) \in 1 .. Len(r) /\ z[j] = r[j - Len(q)]
    BY <1>2, <1>7
  <2>2. i - Len(q) = j - Len(q)
    BY <2>1 DEF Distinct
  <2> QED
    BY <1>2, <2>2
<1> QED
  BY <1>4, <1>5, <1>6, <1>7

(* What is picked of a list has names of the list, each as often. *)
Chosen(q, at) == {q[i].name : i \in at \cap 1 .. Len(q)}

LEMMA PickedNames ==
  ASSUME NEW S, NEW q \in Seq(S), NEW at
  PROVE  C!NamesIn(C!Picked(q, at)) = Chosen(q, at)
<1> DEFINE Same(r) == C!NamesIn(C!Picked(r, at)) = Chosen(r, at)
           T == {r \in Seq(S) : Same(r)}
<1>1. <<>> \in T
  <2>1. <<>> \in Seq(S) /\ 1 .. Len(<<>>) = {}
    OBVIOUS
  <2>2. Chosen(<<>>, at) = {}
    BY <2>1 DEF Chosen
  <2> QED
    BY <2>1, <2>2, NamesOfNone, PickedNone
<1>2. ASSUME NEW r \in Seq(S), NEW e \in S, r \in T
      PROVE  Append(r, e) \in T
  <2>1. PICK z : z = Append(r, e)
    OBVIOUS
  <2>2. /\ z \in Seq(S) /\ Len(z) = Len(r) + 1 /\ Len(r) \in Nat
        /\ z[Len(r) + 1] = e /\ \A i \in 1 .. Len(r) : z[i] = r[i]
    BY <2>1
  <2>3. PICK p \in Seq(S) : p = C!Picked(r, at)
    BY PickedType
  <2>4. C!Picked(z, at) = IF Len(r) + 1 \in at THEN Append(p, e) ELSE p
    BY <2>1, <2>3, PickedAppend
  <2>5. C!NamesIn(Append(p, e)) = C!NamesIn(p) \cup {e.name}
    BY NamesAppend
  <2>6. 1 .. Len(z) = (1 .. Len(r)) \cup {Len(r) + 1}
    BY <2>2
  <2>7. Chosen(z, at) = IF Len(r) + 1 \in at THEN Chosen(r, at) \cup {e.name}
                                             ELSE Chosen(r, at)
    <3>1. CASE Len(r) + 1 \in at
      <4>1. at \cap 1 .. Len(z) = (at \cap 1 .. Len(r)) \cup {Len(r) + 1}
        BY <2>6, <3>1
      <4>2. \A i \in at \cap 1 .. Len(r) : z[i].name = r[i].name
        BY <2>2
      <4>3. z[Len(r) + 1].name = e.name
        BY <2>2
      <4>4. PICK I : I = at \cap 1 .. Len(r)
        OBVIOUS
      <4>5. {z[i].name : i \in I \cup {Len(r) + 1}}
              = {r[i].name : i \in I} \cup {e.name}
        BY <4>2, <4>3, <4>4
      <4> QED
        BY <3>1, <4>1, <4>4, <4>5 DEF Chosen
    <3>2. CASE Len(r) + 1 \notin at
      <4>1. at \cap 1 .. Len(z) = at \cap 1 .. Len(r)
        BY <2>6, <3>2
      <4> QED
        BY <2>2, <3>2, <4>1 DEF Chosen
    <3> QED
      BY <3>1, <3>2
  <2>8. C!NamesIn(p) = Chosen(r, at)
    BY <1>2, <2>3
  <2>9. C!NamesIn(C!Picked(z, at)) = Chosen(z, at)
    BY <2>4, <2>5, <2>7, <2>8
  <2> QED
    BY <2>1, <2>2, <2>9
<1> HIDE DEF T
<1>3. Seq(S) \subseteq T
  BY <1>1, <1>2, ListInduction
<1> QED
  BY <1>3 DEF T

LEMMA ChosenIsNamed ==
  ASSUME NEW S, NEW q \in Seq(S), NEW at
  PROVE  Chosen(q, at) \subseteq C!NamesIn(q)
BY DEF Chosen, C!NamesIn

LEMMA OnlyNames ==
  ASSUME NEW S, NEW q \in Seq(S), NEW N
  PROVE  C!NamesIn(C!Only(q, N)) = C!NamesIn(q) \cap N
<1>1. PICK at : at = {i \in DOMAIN q : q[i].name \in N}
  OBVIOUS
<1>2. C!NamesIn(C!Only(q, N)) = Chosen(q, at)
  BY <1>1, PickedNames DEF C!Only
<1>3. DOMAIN q = 1 .. Len(q)
  OBVIOUS
<1>4. Chosen(q, at) = C!NamesIn(q) \cap N
  BY <1>1, <1>3 DEF Chosen, C!NamesIn
<1> QED
  BY <1>2, <1>4

LEMMA PickedDistinct ==
  ASSUME NEW S, NEW q \in Seq(S), NEW at, Distinct(q)
  PROVE  Distinct(C!Picked(q, at))
<1> DEFINE Same(r) == Distinct(r) => Distinct(C!Picked(r, at))
           T == {r \in Seq(S) : Same(r)}
<1>1. <<>> \in T
  <2>1. <<>> \in Seq(S)
    OBVIOUS
  <2> QED
    BY <2>1, PickedNone
<1>2. ASSUME NEW r \in Seq(S), NEW e \in S, r \in T
      PROVE  Append(r, e) \in T
  <2>1. Append(r, e) \in Seq(S)
    OBVIOUS
  <2>2. ASSUME Distinct(Append(r, e))
        PROVE  Distinct(C!Picked(Append(r, e), at))
    <3>1. Distinct(r) /\ e.name \notin C!NamesIn(r)
      BY <2>2, DistinctAppend
    <3>2. PICK p \in Seq(S) : p = C!Picked(r, at)
      BY PickedType
    <3>3. Distinct(p)
      BY <1>2, <3>1, <3>2
    <3>4. C!NamesIn(p) \subseteq C!NamesIn(r)
      BY <3>2, PickedNames, ChosenIsNamed
    <3>5. Distinct(Append(p, e))
      BY <3>1, <3>3, <3>4, DistinctAppend
    <3>6. C!Picked(Append(r, e), at) = IF Len(r) + 1 \in at THEN Append(p, e) ELSE p
      BY <3>2, PickedAppend
    <3> QED
      BY <3>3, <3>5, <3>6
  <2> QED
    BY <2>1, <2>2
<1> HIDE DEF T
<1>3. Seq(S) \subseteq T
  BY <1>1, <1>2, ListInduction
<1> QED
  BY <1>3 DEF T

LEMMA OnlyDistinct ==
  ASSUME NEW S, NEW q \in Seq(S), NEW N, Distinct(q)
  PROVE  Distinct(C!Only(q, N))
BY PickedDistinct DEF C!Only

(* A list that names nothing twice is as long as its names are many. *)
LEMMA DistinctLength ==
  ASSUME NEW S, NEW q \in Seq(S), Distinct(q)
  PROVE  IsFiniteSet(C!NamesIn(q)) /\ Cardinality(C!NamesIn(q)) = Len(q)
<1> DEFINE Sized(r) == IsFiniteSet(C!NamesIn(r))
                         /\ Cardinality(C!NamesIn(r)) = Len(r)
           Same(r) == Distinct(r) => Sized(r)
           T == {r \in Seq(S) : Same(r)}
<1>1. <<>> \in T
  <2>1. <<>> \in Seq(S) /\ Len(<<>>) = 0
    OBVIOUS
  <2> QED
    BY <2>1, NamesOfNone, FS_EmptySet
<1>2. ASSUME NEW r \in Seq(S), NEW e \in S, r \in T
      PROVE  Append(r, e) \in T
  <2>1. Append(r, e) \in Seq(S) /\ Len(Append(r, e)) = Len(r) + 1
    OBVIOUS
  <2>2. ASSUME Distinct(Append(r, e)) PROVE Sized(Append(r, e))
    <3>1. Distinct(r) /\ e.name \notin C!NamesIn(r)
      BY <2>2, DistinctAppend
    <3>2. Sized(r)
      BY <1>2, <3>1
    <3>3. C!NamesIn(Append(r, e)) = C!NamesIn(r) \cup {e.name}
      BY NamesAppend
    <3>4. /\ IsFiniteSet(C!NamesIn(r) \cup {e.name})
          /\ Cardinality(C!NamesIn(r) \cup {e.name}) = Cardinality(C!NamesIn(r)) + 1
      BY <3>1, <3>2, FS_AddElement
    <3> QED
      BY <2>1, <3>2, <3>3, <3>4
  <2> QED
    BY <2>1, <2>2
<1> HIDE DEF T
<1>3. Seq(S) \subseteq T
  BY <1>1, <1>2, ListInduction
<1> QED
  BY <1>3 DEF T

(* What is supported, described, is a list that names nothing twice; what   *)
(* a list misses is what it has of other names.                             *)
Offered == C!Described(all_codecs)

LEMMA OfferedType ==
  ASSUME C!CodecsAssumption
  PROVE  Offered \in Seq(C!Descriptions)
<1>1. all_codecs \in Seq(Audio \cup Video)
  BY DEF C!CodecsAssumption
<1>2. DOMAIN all_codecs = 1 .. Len(all_codecs) /\ Len(all_codecs) \in Nat
  BY <1>1
<1>3. \A i \in 1 .. Len(all_codecs) :
        [name |-> all_codecs[i], active |-> TRUE] \in C!Descriptions
  BY <1>1 DEF C!Descriptions
<1>4. Offered \in [1 .. Len(all_codecs) -> C!Descriptions]
  BY <1>2, <1>3 DEF Offered, C!Described
<1> QED
  BY <1>2, <1>4

LEMMA OfferedNames ==
  ASSUME C!CodecsAssumption
  PROVE  /\ C!NamesIn(Offered) = C!Supported
         /\ Distinct(Offered)
         /\ Len(Offered) = Len(all_codecs)
<1>1. all_codecs \in Seq(Audio \cup Video) /\ C!IsInjective(all_codecs)
  BY DEF C!CodecsAssumption
<1>2. DOMAIN all_codecs = 1 .. Len(all_codecs) /\ Len(all_codecs) \in Nat
  BY <1>1
<1>3. /\ DOMAIN Offered = DOMAIN all_codecs
      /\ \A i \in DOMAIN all_codecs : Offered[i].name = all_codecs[i]
  BY DEF Offered, C!Described
<1>4. Offered \in Seq(C!Descriptions)
  BY OfferedType
<1>5. DOMAIN Offered = 1 .. Len(Offered) /\ Len(Offered) \in Nat
  BY <1>4
<1>6. Len(Offered) = Len(all_codecs)
  BY <1>2, <1>3, <1>5
<1>7. Distinct(Offered)
  BY <1>1, <1>2, <1>3, <1>6 DEF Distinct, C!IsInjective
<1>8. C!NamesIn(Offered) = C!Supported
  BY <1>3 DEF C!NamesIn, C!Supported, C!ToSet
<1> QED
  BY <1>6, <1>7, <1>8

LEMMA DescribedAppend ==
  ASSUME NEW S, NEW q \in Seq(S), NEW e \in S
  PROVE  C!Described(Append(q, e)) =
           Append(C!Described(q), [name |-> e, active |-> TRUE])
<1> DEFINE d(x) == [name |-> x, active |-> TRUE]
<1>1. PICK r : r = Append(q, e)
  OBVIOUS
<1>2. PICK n \in Nat : n = Len(q)
  OBVIOUS
<1>3. /\ DOMAIN q = 1 .. n /\ DOMAIN r = 1 .. (n + 1)
      /\ \A i \in 1 .. n : r[i] = q[i]
      /\ r[n + 1] = e
  BY <1>1, <1>2
<1>4. PICK t : t = C!Described(q)
  OBVIOUS
<1>5. t = [i \in 1 .. n |-> d(q[i])]
  BY <1>3, <1>4 DEF C!Described
<1>6. PICK R : R = {d(x) : x \in S}
  OBVIOUS
<1>7. \A x \in S : d(x) \in R
  BY <1>6
<1>8. t \in Seq(R) /\ Len(t) = n
  <2>1. \A i \in 1 .. n : q[i] \in S
    BY <1>2
  <2>2. t \in [1 .. n -> R]
    BY <1>5, <1>7, <2>1
  <2> QED
    BY <2>2
<1>9. C!Described(r) = [i \in 1 .. (n + 1) |-> d(r[i])]
  BY <1>3 DEF C!Described
<1> HIDE DEF d
<1>10. PICK y : y = d(e)
  OBVIOUS
<1>11. y \in R
  BY <1>7, <1>10
<1>12. PICK u \in Seq(R) : u = Append(t, y)
  <2>1. Append(t, y) \in Seq(R)
    BY <1>8, <1>11
  <2> QED
    BY <2>1
<1>13. /\ Len(u) = n + 1 /\ DOMAIN u = 1 .. (n + 1)
       /\ u[n + 1] = y /\ \A i \in 1 .. n : u[i] = t[i]
  BY <1>8, <1>11, <1>12
<1>14. ASSUME NEW i \in 1 .. (n + 1)
       PROVE  d(r[i]) = u[i]
  <2>1. i = n + 1 \/ i \in 1 .. n
    OBVIOUS
  <2> QED
    BY <1>3, <1>5, <1>10, <1>13, <2>1
<1>15. C!Described(r) = Append(t, y)
  <2>1. u \in [1 .. Len(u) -> R]
    BY LenProperties
  <2>2. u = [i \in 1 .. (n + 1) |-> u[i]]
    BY <1>13, <2>1
  <2> QED
    BY <1>9, <1>12, <1>14, <2>2
<1> QED
  BY <1>1, <1>4, <1>10, <1>15 DEF d

LEMMA DescribedPicked ==
  ASSUME NEW S, NEW q \in Seq(S), NEW at
  PROVE  C!Described(C!Picked(q, at)) = C!Picked(C!Described(q), at)
<1> DEFINE d(x) == [name |-> x, active |-> TRUE]
           R == {d(x) : x \in S}
           Same(r) == /\ C!Described(r) \in Seq(R) /\ Len(C!Described(r)) = Len(r)
                      /\ C!Described(C!Picked(r, at)) = C!Picked(C!Described(r), at)
           T == {r \in Seq(S) : Same(r)}
<1>1. <<>> \in T
  <2>1. <<>> \in Seq(S) /\ <<>> \in Seq(R) /\ Len(<<>>) = 0
    OBVIOUS
  <2>2. C!Described(<<>>) = <<>>
    BY DEF C!Described
  <2>3. C!Picked(<<>>, at) = <<>>
    BY PickedNone
  <2> HIDE DEF R
  <2> QED
    BY <2>1, <2>2, <2>3
<1>2. ASSUME NEW r \in Seq(S), NEW e \in S, r \in T
      PROVE  Append(r, e) \in T
  <2>1. PICK z \in Seq(S) : z = Append(r, e) /\ Len(z) = Len(r) + 1
    <3>1. Append(r, e) \in Seq(S) /\ Len(Append(r, e)) = Len(r) + 1
      OBVIOUS
    <3> QED
      BY <3>1
  <2>2. d(e) \in R
    OBVIOUS
  <2> HIDE DEF R
  <2>3. PICK t \in Seq(R) : t = C!Described(r) /\ Len(t) = Len(r)
    BY <1>2
  <2>4. C!Described(z) = Append(t, d(e))
    BY <2>1, <2>3, DescribedAppend
  <2>5. PICK p \in Seq(S) : p = C!Picked(r, at)
    BY PickedType
  <2>6. C!Described(p) = C!Picked(t, at)
    BY <1>2, <2>3, <2>5
  <2>7. C!Picked(z, at) = IF Len(r) + 1 \in at THEN Append(p, e) ELSE p
    BY <2>1, <2>5, PickedAppend
  <2>8. C!Described(Append(p, e)) = Append(C!Described(p), d(e))
    BY DescribedAppend
  <2> HIDE DEF d
  <2>9. PICK y \in R : y = d(e)
    BY <2>2
  <2>10. C!Picked(Append(t, y), at) =
           IF Len(t) + 1 \in at THEN Append(C!Picked(t, at), y)
                                ELSE C!Picked(t, at)
    BY PickedAppend
  <2>11. C!Described(C!Picked(z, at)) = C!Picked(C!Described(z), at)
    BY <2>3, <2>4, <2>6, <2>7, <2>8, <2>9, <2>10
  <2>12. Append(t, y) \in Seq(R) /\ Len(Append(t, y)) = Len(t) + 1
    OBVIOUS
  <2> QED
    BY <2>1, <2>3, <2>4, <2>9, <2>11, <2>12
<1> HIDE DEF T
<1>3. Seq(S) \subseteq T
  BY <1>1, <1>2, ListInduction
<1> QED
  BY <1>3 DEF T

LEMMA MissingIsOffered ==
  ASSUME C!CodecsAssumption, NEW q
  PROVE  C!Described(C!Missing(q)) = C!Only(Offered, C!Supported \ C!NamesIn(q))
<1>1. all_codecs \in Seq(Audio \cup Video)
  BY DEF C!CodecsAssumption
<1>2. PICK at : at = {i \in DOMAIN all_codecs : all_codecs[i] \notin C!NamesIn(q)}
  OBVIOUS
<1>3. C!Described(C!Missing(q)) = C!Picked(Offered, at)
  BY <1>1, <1>2, DescribedPicked DEF C!Missing, Offered
<1>4. /\ DOMAIN Offered = DOMAIN all_codecs
      /\ \A i \in DOMAIN all_codecs : Offered[i].name = all_codecs[i]
  BY DEF Offered, C!Described
<1>5. \A i \in DOMAIN all_codecs : all_codecs[i] \in C!Supported
  BY DEF C!Supported, C!ToSet
<1>6. at = {i \in DOMAIN Offered : Offered[i].name \in C!Supported \ C!NamesIn(q)}
  BY <1>2, <1>4, <1>5
<1> QED
  BY <1>3, <1>6 DEF C!Only

(* With what it misses, a list names all that is supported, and names       *)
(* nothing twice, unless it did before.                                     *)
LEMMA WithMissingType ==
  ASSUME C!CodecsAssumption, NEW q \in Seq(C!Descriptions)
  PROVE  C!WithMissing(q) \in Seq(C!Descriptions)
<1>1. PICK x \in Seq(C!Descriptions) : x = C!Described(C!Missing(q))
  BY MissingIsOffered, OfferedType, OnlyType
<1>2. q \o x \in Seq(C!Descriptions)
  OBVIOUS
<1> QED
  BY <1>1, <1>2 DEF C!WithMissing

LEMMA WithMissingNames ==
  ASSUME C!CodecsAssumption, NEW q \in Seq(C!Descriptions)
  PROVE  C!NamesIn(C!WithMissing(q)) = C!NamesIn(q) \cup C!Supported
<1>1. PICK x \in Seq(C!Descriptions) : x = C!Described(C!Missing(q))
  BY MissingIsOffered, OfferedType, OnlyType
<1>2. C!NamesIn(x) = C!Supported \cap (C!Supported \ C!NamesIn(q))
  BY <1>1, MissingIsOffered, OfferedType, OfferedNames, OnlyNames
<1>3. C!NamesIn(q \o x) = C!NamesIn(q) \cup C!NamesIn(x)
  BY NamesConcat
<1> QED
  BY <1>1, <1>2, <1>3 DEF C!WithMissing

LEMMA WithMissingDistinct ==
  ASSUME C!CodecsAssumption, NEW q \in Seq(C!Descriptions), Distinct(q)
  PROVE  Distinct(C!WithMissing(q))
<1>1. PICK x \in Seq(C!Descriptions) : x = C!Described(C!Missing(q))
  BY MissingIsOffered, OfferedType, OnlyType
<1>2. C!NamesIn(x) = C!Supported \cap (C!Supported \ C!NamesIn(q))
  BY <1>1, MissingIsOffered, OfferedType, OfferedNames, OnlyNames
<1>3. Distinct(x)
  BY <1>1, MissingIsOffered, OfferedType, OfferedNames, OnlyDistinct
<1>4. C!NamesIn(q) \cap C!NamesIn(x) = {}
  BY <1>2
<1> QED
  BY <1>1, <1>3, <1>4, DistinctConcat DEF C!WithMissing

-----------------------------------------------------------------------------
(* CallManager::set_codecs of a list of audio codecs, then of video codecs. *)
Typed(lists) ==
  /\ lists \in [C!Types -> Seq(C!Descriptions)]
  /\ \A t \in C!Types : C!NamesIn(lists[t]) \subseteq C!Names[t]

Both(lists) == lists["audio"] \o lists["video"]

(* The positions that RemoveUnsupported keeps. *)
Kept(w) == {i \in DOMAIN w : w[i].name \notin C!Supported
                               => i = 2 /\ w[1].name \notin C!Supported}

LEMMA BothType ==
  ASSUME NEW lists, Typed(lists)
  PROVE  /\ lists["audio"] \in Seq(C!Descriptions)
         /\ lists["video"] \in Seq(C!Descriptions)
         /\ Both(lists) \in Seq(C!Descriptions)
         /\ C!NamesIn(lists["audio"]) \subseteq Audio
         /\ C!NamesIn(lists["video"]) \subseteq Video
<1>1. /\ lists["audio"] \in Seq(C!Descriptions)
      /\ lists["video"] \in Seq(C!Descriptions)
  BY DEF Typed, C!Types
<1>2. /\ C!NamesIn(lists["audio"]) \subseteq Audio
      /\ C!NamesIn(lists["video"]) \subseteq Video
  BY DEF Typed, C!Types, C!Names
<1>3. Both(lists) \in Seq(C!Descriptions)
  BY <1>1 DEF Both
<1> QED
  BY <1>1, <1>2, <1>3

LEMMA SetCodecsIsPicked ==
  ASSUME C!CodecsAssumption, NEW q \in Seq(C!Descriptions)
  PROVE  C!set_codecs(q) = C!Picked(C!WithMissing(q), Kept(C!WithMissing(q)))
<1>1. PICK w \in Seq(C!Descriptions) : w = C!WithMissing(q)
  BY WithMissingType
<1>2. C!RemoveUnsupported[w] = C!Picked(w, Kept(w))
  BY DEF C!RemoveUnsupported, Kept
<1> QED
  BY <1>1, <1>2 DEF C!set_codecs

LEMMA SetCodecsType ==
  ASSUME C!CodecsAssumption, NEW q \in Seq(C!Descriptions)
  PROVE  C!set_codecs(q) \in Seq(C!Descriptions)
BY SetCodecsIsPicked, WithMissingType, PickedType

LEMMA GetListTyped ==
  ASSUME NEW q \in Seq(C!Descriptions)
  PROVE  Typed([t \in C!Types |-> C!get_list(q, t)])
<1>1. \A t \in C!Types : C!get_list(q, t) \in Seq(C!Descriptions)
  BY OnlyType DEF C!get_list
<1>2. ASSUME NEW t \in C!Types
      PROVE  C!NamesIn(C!get_list(q, t)) \subseteq C!Names[t]
  <2>1. PICK N : N = C!Names[t]
    OBVIOUS
  <2>2. C!NamesIn(C!Only(q, N)) = C!NamesIn(q) \cap N
    BY OnlyNames
  <2> QED
    BY <2>1, <2>2 DEF C!get_list
<1> QED
  BY <1>1, <1>2 DEF Typed

(* No supported codec is removed, nor moved before another.                 *)
LEMMA SupportedAreKept ==
  ASSUME C!CodecsAssumption, NEW q \in Seq(C!Descriptions), NEW N,
         N \subseteq C!Supported
  PROVE  \E z \in Seq(C!Descriptions) :
           C!Only(C!set_codecs(q), N) = C!Only(q, N) \o z
<1>1. PICK x \in Seq(C!Descriptions) : x = C!Described(C!Missing(q))
  BY MissingIsOffered, OfferedType, OnlyType
<1>2. PICK w \in Seq(C!Descriptions) : w = C!WithMissing(q)
  BY WithMissingType
<1>3. Keeps(w, Kept(w), N)
  <2>1. DOMAIN w = 1 .. Len(w)
    OBVIOUS
  <2> QED
    BY <2>1 DEF Keeps, Kept
<1>4. C!Only(C!Picked(w, Kept(w)), N) = C!Only(w, N)
  BY <1>3, OnlyPicked
<1>5. C!Only(q \o x, N) = C!Only(q, N) \o C!Only(x, N)
  BY OnlyConcat
<1>6. C!Only(C!set_codecs(q), N) = C!Only(q, N) \o C!Only(x, N)
  BY <1>1, <1>2, <1>4, <1>5, SetCodecsIsPicked DEF C!WithMissing
<1>7. C!Only(x, N) \in Seq(C!Descriptions)
  BY OnlyType
<1> QED
  BY <1>6, <1>7

LEMMA PrefixOfConcat ==
  ASSUME NEW S, NEW q \in Seq(S), NEW z \in Seq(S)
  PROVE  C!IsPrefix(q, q \o z)
<1>1. PICK y \in Seq(S) : y = q \o z
  <2>1. q \o z \in Seq(S)
    OBVIOUS
  <2> QED
    BY <2>1
<1>2. /\ Len(y) = Len(q) + Len(z) /\ Len(q) \in Nat /\ Len(z) \in Nat
      /\ \A i \in 1 .. Len(q) : y[i] = q[i]
  BY <1>1
<1>3. SubSeq(q, 1, Len(q)) = SubSeq(y, 1, Len(q))
  BY <1>2
<1> QED
  BY <1>1, <1>2, <1>3 DEF C!IsPrefix

LEMMA ChoicesOfType ==
  ASSUME C!CodecsAssumption, NEW lists, Typed(lists), NEW t \in C!Types
  PROVE  C!IsPrefix(
           C!Only(lists[t], C!Supported),
           C!Only(C!get_list(C!set_codecs(Both(lists)), t), C!Supported))
<1> DEFINE a == lists["audio"]
           v == lists["video"]
           c == C!set_codecs(Both(lists))
<1>1. /\ a \in Seq(C!Descriptions) /\ v \in Seq(C!Descriptions)
      /\ Both(lists) \in Seq(C!Descriptions)
      /\ C!NamesIn(a) \subseteq Audio /\ C!NamesIn(v) \subseteq Video
  BY BothType
<1>2. c \in Seq(C!Descriptions)
  BY <1>1, SetCodecsType
<1>3. PICK N : N = C!Names[t] \cap C!Supported
  OBVIOUS
<1>4. C!Only(C!get_list(c, t), C!Supported) = C!Only(c, N)
  <2>1. PICK M : M = C!Names[t]
    OBVIOUS
  <2> HIDE DEF c
  <2>2. C!Only(C!Only(c, M), C!Supported) = C!Only(c, M \cap C!Supported)
    BY <1>2, OnlyOnly
  <2> QED
    BY <1>3, <2>1, <2>2 DEF C!get_list
<1>5. PICK z \in Seq(C!Descriptions) : C!Only(c, N) = C!Only(Both(lists), N) \o z
  BY <1>1, <1>3, SupportedAreKept
<1>6. C!Only(Both(lists), N) = C!Only(a, N) \o C!Only(v, N)
  <2> HIDE DEF a, v
  <2>1. C!Only(a \o v, N) = C!Only(a, N) \o C!Only(v, N)
    BY <1>1, OnlyConcat
  <2> QED
    BY <2>1 DEF Both, a, v
<1>7. C!Only(a, N) \in Seq(C!Descriptions) /\ C!Only(v, N) \in Seq(C!Descriptions)
  BY <1>1, OnlyType
<1>8. Audio \cap Video = {}
  BY DEF C!CodecsAssumption
<1> HIDE DEF c, a, v
<1>9. C!Only(Both(lists), N) = C!Only(lists[t], C!Supported)
  <2>1. CASE t = "audio"
    <3>1. N = Audio \cap C!Supported /\ lists[t] = a
      BY <1>3, <2>1 DEF C!Names, a
    <3>2. C!NamesIn(v) \cap N = {}
      BY <1>1, <1>8, <3>1
    <3>3. C!Only(v, N) = <<>>
      BY <1>1, <3>2, OnlyNone
    <3>4. C!NamesIn(a) \cap N = C!NamesIn(a) \cap C!Supported
      BY <1>1, <3>1
    <3>5. C!Only(a, N) = C!Only(a, C!Supported)
      BY <3>4, OnlySame
    <3>6. C!Only(a, N) \o <<>> = C!Only(a, N)
      BY <1>7
    <3> QED
      BY <1>6, <3>1, <3>3, <3>5, <3>6
  <2>2. CASE t = "video"
    <3>1. N = Video \cap C!Supported /\ lists[t] = v
      BY <1>3, <2>2 DEF C!Names, v
    <3>2. C!NamesIn(a) \cap N = {}
      BY <1>1, <1>8, <3>1
    <3>3. C!Only(a, N) = <<>>
      BY <1>1, <3>2, OnlyNone
    <3>4. C!NamesIn(v) \cap N = C!NamesIn(v) \cap C!Supported
      BY <1>1, <3>1
    <3>5. C!Only(v, N) = C!Only(v, C!Supported)
      BY <3>4, OnlySame
    <3>6. <<>> \o C!Only(v, N) = C!Only(v, N)
      BY <1>7
    <3> QED
      BY <1>6, <3>1, <3>3, <3>5, <3>6
  <2> QED
    BY <2>1, <2>2 DEF C!Types
<1>10. C!Only(lists[t], C!Supported) \in Seq(C!Descriptions)
  BY OnlyType DEF Typed
<1>11. C!IsPrefix(C!Only(lists[t], C!Supported),
                  C!Only(lists[t], C!Supported) \o z)
  BY <1>10, PrefixOfConcat
<1> QED
  BY <1>4, <1>5, <1>9, <1>11 DEF c

-----------------------------------------------------------------------------
(* What the settings and the boxes show. *)
CodecIInv ==
  /\ Typed(media_list) /\ Typed(box)
  /\ codecs \in Seq(C!Descriptions)
  /\ notified \subseteq C!Types
  /\ \A t \in C!Types : t \notin notified => box[t] = media_list[t]
  /\ notified = {} =>
       /\ codecs = C!set_codecs(Both(media_list))
       /\ \A t \in C!Types : media_list[t] = C!get_list(codecs, t)

LEMMA TypedExcept ==
  ASSUME NEW lists, Typed(lists), NEW t \in C!Types,
         NEW q \in Seq(C!Descriptions), C!NamesIn(q) \subseteq C!Names[t]
  PROVE  Typed([lists EXCEPT ![t] = q])
BY DEF Typed

LEMMA CodecInitIInv ==
  ASSUME C!CodecsAssumption, C!Init
  PROVE  CodecIInv
<1>1. media_list \in [C!Types -> Seq(C!Descriptions)] /\ media_list \in Stored
  BY DEF C!CodecsAssumption, C!Init
<1>2. \A t \in C!Types : C!NamesIn(media_list[t]) \subseteq C!Names[t]
  BY <1>1 DEF C!CodecsAssumption, C!NamesIn
<1>3. codecs \in Seq(C!Descriptions)
  <2>1. <<>> \in Seq(C!Descriptions)
    OBVIOUS
  <2> QED
    BY <2>1 DEF C!Init
<1>4. Typed(media_list) /\ Typed(box)
  BY <1>1, <1>2 DEF Typed, C!Init
<1>5. notified = C!Types /\ C!Types # {}
  BY DEF C!Init, C!Types
<1> QED
  BY <1>3, <1>4, <1>5 DEF CodecIInv

LEMMA NotifiedIInv ==
  ASSUME C!CodecsAssumption, CodecIInv, NEW t \in C!Types,
         C!on_property_changed(t)
  PROVE  CodecIInv'
<1>1. Both(media_list) \in Seq(C!Descriptions)
  BY BothType DEF CodecIInv
<1>2. /\ codecs' = C!set_codecs(Both(media_list))
      /\ box' = [box EXCEPT ![t] = media_list[t]]
      /\ media_list' = [u \in C!Types |-> C!get_list(codecs', u)]
      /\ notified' = (notified \ {t})
                       \cup {u \in C!Types : media_list'[u] # media_list[u]}
  BY DEF C!on_property_changed, Both
<1>3. codecs' \in Seq(C!Descriptions)
  BY <1>1, <1>2, SetCodecsType
<1>4. Typed(media_list')
  BY <1>2, <1>3, GetListTyped
<1>5. Typed(box')
  <2>1. /\ media_list[t] \in Seq(C!Descriptions)
        /\ C!NamesIn(media_list[t]) \subseteq C!Names[t]
    BY DEF CodecIInv, Typed
  <2> QED
    BY <1>2, <2>1, TypedExcept DEF CodecIInv
<1>6. notified' \subseteq C!Types
  BY <1>2 DEF CodecIInv
<1>7. ASSUME NEW u \in C!Types, u \notin notified'
      PROVE  box'[u] = media_list'[u]
  <2>1. media_list'[u] = media_list[u] /\ (u = t \/ u \notin notified)
    BY <1>2, <1>7
  <2>2. box'[u] = IF u = t THEN media_list[t] ELSE box[u]
    BY <1>2 DEF CodecIInv, Typed
  <2> QED
    BY <2>1, <2>2 DEF CodecIInv
<1>8. ASSUME notified' = {}
      PROVE  /\ codecs' = C!set_codecs(Both(media_list'))
             /\ \A u \in C!Types : media_list'[u] = C!get_list(codecs', u)
  <2>1. \A u \in C!Types : media_list'[u] = media_list[u]
    BY <1>2, <1>8
  <2>2. Both(media_list') = Both(media_list)
    BY <2>1 DEF Both, C!Types
  <2> QED
    BY <1>2, <2>2
<1> QED
  BY <1>3, <1>4, <1>5, <1>6, <1>7, <1>8 DEF CodecIInv

LEMMA ToggledNames ==
  ASSUME NEW q \in Seq(C!Descriptions), NEW i \in DOMAIN q,
         NEW r, r = [q EXCEPT ![i].active = ~@]
  PROVE  /\ r \in Seq(C!Descriptions)
         /\ DOMAIN r = DOMAIN q
         /\ \A j \in DOMAIN q : r[j].name = q[j].name
<1>1. q[i] \in C!Descriptions
  OBVIOUS
<1>2. PICK e : e = [q[i] EXCEPT !.active = ~@]
  OBVIOUS
<1>3. e \in C!Descriptions /\ e.name = q[i].name
  <2>1. e = [name |-> q[i].name, active |-> ~q[i].active]
    BY <1>1, <1>2 DEF C!Descriptions
  <2>2. q[i].active \in BOOLEAN /\ q[i].name \in Audio \cup Video
    BY <1>1 DEF C!Descriptions
  <2>3. (~q[i].active) \in BOOLEAN
    OBVIOUS
  <2> QED
    BY <2>1, <2>2, <2>3 DEF C!Descriptions
<1>4. r = [q EXCEPT ![i] = e]
  BY <1>2
<1>5. r \in Seq(C!Descriptions) /\ DOMAIN r = DOMAIN q
  BY <1>3, <1>4
<1> QED
  BY <1>3, <1>4, <1>5

LEMMA SwappedNames ==
  ASSUME NEW q \in Seq(C!Descriptions), NEW i \in 1 .. Len(q) - 1,
         NEW r, r = [q EXCEPT ![i] = q[i + 1], ![i + 1] = q[i]]
  PROVE  /\ r \in Seq(C!Descriptions) /\ Len(r) = Len(q)
         /\ r[i] = q[i + 1] /\ r[i + 1] = q[i]
         /\ \A j \in 1 .. Len(q) : j # i /\ j # i + 1 => r[j] = q[j]
<1>1. Len(q) \in Nat /\ i \in 1 .. Len(q) /\ i + 1 \in 1 .. Len(q) /\ i # i + 1
  OBVIOUS
<1>2. q[i] \in C!Descriptions /\ q[i + 1] \in C!Descriptions
  BY <1>1
<1>3. PICK p \in Seq(C!Descriptions) :
        /\ p = [q EXCEPT ![i] = q[i + 1]] /\ Len(p) = Len(q)
  <2>1. PICK p : p = [q EXCEPT ![i] = q[i + 1]]
    OBVIOUS
  <2>2. p \in Seq(C!Descriptions) /\ Len(p) = Len(q)
    BY <1>1, <1>2, <2>1
  <2> QED
    BY <2>1, <2>2
<1>4. r = [p EXCEPT ![i + 1] = q[i]]
  BY <1>3
<1>5. r \in Seq(C!Descriptions) /\ Len(r) = Len(q)
  BY <1>1, <1>2, <1>3, <1>4
<1> QED
  BY <1>1, <1>3, <1>4, <1>5

LEMMA ToggledDistinct ==
  ASSUME NEW q \in Seq(C!Descriptions), NEW i \in DOMAIN q,
         NEW r, r = [q EXCEPT ![i].active = ~@]
  PROVE  /\ C!NamesIn(r) = C!NamesIn(q)
         /\ Distinct(q) => Distinct(r)
<1>1. /\ r \in Seq(C!Descriptions) /\ DOMAIN r = DOMAIN q
      /\ \A j \in DOMAIN q : r[j].name = q[j].name
  BY ToggledNames
<1>2. DOMAIN q = 1 .. Len(q) /\ DOMAIN r = 1 .. Len(r) /\ Len(r) = Len(q)
  BY <1>1
<1>3. C!NamesIn(r) = C!NamesIn(q)
  BY <1>1 DEF C!NamesIn
<1>4. Distinct(q) => Distinct(r)
  BY <1>1, <1>2 DEF Distinct
<1> QED
  BY <1>3, <1>4

LEMMA SwappedDistinct ==
  ASSUME NEW q \in Seq(C!Descriptions), NEW i \in 1 .. Len(q) - 1,
         NEW r, r = [q EXCEPT ![i] = q[i + 1], ![i + 1] = q[i]]
  PROVE  /\ C!NamesIn(r) \subseteq C!NamesIn(q)
         /\ Distinct(q) => Distinct(r)
<1>1. /\ r \in Seq(C!Descriptions) /\ Len(r) = Len(q)
      /\ r[i] = q[i + 1] /\ r[i + 1] = q[i]
      /\ \A j \in 1 .. Len(q) : j # i /\ j # i + 1 => r[j] = q[j]
  BY SwappedNames
<1>2. /\ DOMAIN q = 1 .. Len(q) /\ DOMAIN r = 1 .. Len(q)
      /\ Len(q) \in Nat /\ i \in 1 .. Len(q) /\ i + 1 \in 1 .. Len(q)
  BY <1>1
(* Where an entry comes from. *)
<1> DEFINE from(j) == IF j = i THEN i + 1 ELSE IF j = i + 1 THEN i ELSE j
<1>3. \A j \in 1 .. Len(q) : from(j) \in 1 .. Len(q) /\ r[j] = q[from(j)]
  BY <1>1, <1>2
<1>4. \A j, k \in 1 .. Len(q) : from(j) = from(k) => j = k
  BY <1>2
<1> HIDE DEF from
<1>5. C!NamesIn(r) \subseteq C!NamesIn(q)
  BY <1>2, <1>3 DEF C!NamesIn
<1>6. ASSUME Distinct(q) PROVE Distinct(r)
  <2> SUFFICES ASSUME NEW j \in 1 .. Len(q), NEW k \in 1 .. Len(q),
                      r[j].name = r[k].name
               PROVE  j = k
    BY <1>1 DEF Distinct
  <2>1. q[from(j)].name = q[from(k)].name
    BY <1>3
  <2>2. from(j) = from(k)
    BY <1>3, <1>6, <2>1 DEF Distinct
  <2> QED
    BY <1>4, <2>2
<1> QED
  BY <1>5, <1>6

(* What the user does with a box: the list is another one of its codecs.    *)
LEMMA UserChooses ==
  ASSUME Typed(box), NEW t \in C!Types, C!codec_toggled_cb(t) \/ C!codec_moved_cb(t)
  PROVE  \E list \in Seq(C!Descriptions) :
           /\ C!Chooses(t, list)
           /\ C!NamesIn(list) \subseteq C!Names[t]
           /\ Distinct(box[t]) => Distinct(list)
<1>1. box[t] \in Seq(C!Descriptions) /\ C!NamesIn(box[t]) \subseteq C!Names[t]
  BY DEF Typed
<1>2. CASE C!codec_toggled_cb(t)
  <2>1. PICK i \in DOMAIN box[t] : C!Chooses(t, [box[t] EXCEPT ![i].active = ~@])
    BY <1>2 DEF C!codec_toggled_cb
  <2>2. PICK list : list = [box[t] EXCEPT ![i].active = ~@]
    OBVIOUS
  <2>3. list \in Seq(C!Descriptions)
    BY <1>1, <2>2, ToggledNames
  <2>4. /\ C!NamesIn(list) = C!NamesIn(box[t])
        /\ Distinct(box[t]) => Distinct(list)
    BY <1>1, <2>2, ToggledDistinct
  <2> QED
    BY <1>1, <2>1, <2>2, <2>3, <2>4
<1>3. CASE C!codec_moved_cb(t)
  <2>1. PICK i \in 1 .. Len(box[t]) - 1 :
          C!Chooses(t, [box[t] EXCEPT ![i] = box[t][i + 1], ![i + 1] = box[t][i]])
    BY <1>3 DEF C!codec_moved_cb
  <2>2. PICK list :
          list = [box[t] EXCEPT ![i] = box[t][i + 1], ![i + 1] = box[t][i]]
    OBVIOUS
  <2>3. list \in Seq(C!Descriptions)
    BY <1>1, <2>2, SwappedNames
  <2>4. /\ C!NamesIn(list) \subseteq C!NamesIn(box[t])
        /\ Distinct(box[t]) => Distinct(list)
    BY <1>1, <2>2, SwappedDistinct
  <2> QED
    BY <1>1, <2>1, <2>2, <2>3, <2>4
<1> QED
  BY <1>2, <1>3

LEMMA ChosenIInv ==
  ASSUME CodecIInv, NEW t \in C!Types,
         C!codec_toggled_cb(t) \/ C!codec_moved_cb(t)
  PROVE  CodecIInv'
<1>1. PICK list \in Seq(C!Descriptions) :
        C!Chooses(t, list) /\ C!NamesIn(list) \subseteq C!Names[t]
  BY UserChooses DEF CodecIInv
<1>2. /\ box' = [box EXCEPT ![t] = list]
      /\ media_list' = [media_list EXCEPT ![t] = list]
      /\ notified' = notified \cup {t} /\ codecs' = codecs
  BY <1>1 DEF C!Chooses
<1>3. Typed(box')
  BY <1>1, <1>2, TypedExcept DEF CodecIInv
<1>4. Typed(media_list')
  BY <1>1, <1>2, TypedExcept DEF CodecIInv
<1>5. ASSUME NEW u \in C!Types, u \notin notified'
      PROVE  box'[u] = media_list'[u]
  <2>1. u # t /\ u \notin notified
    BY <1>2, <1>5
  <2>2. box'[u] = box[u] /\ media_list'[u] = media_list[u]
    BY <1>2, <2>1 DEF CodecIInv, Typed
  <2> QED
    BY <2>1, <2>2 DEF CodecIInv
<1>6. notified' # {} /\ notified' \subseteq C!Types
  BY <1>2 DEF CodecIInv
<1> QED
  BY <1>2, <1>3, <1>4, <1>5, <1>6 DEF CodecIInv

LEMMA CodecNextIInv ==
  ASSUME C!CodecsAssumption, CodecIInv, [C!Next]_C!vars
  PROVE  CodecIInv'
<1>1. CASE \E t \in C!Types : C!on_property_changed(t)
  BY <1>1, NotifiedIInv
<1>2. CASE \E t \in C!Types : C!codec_toggled_cb(t) \/ C!codec_moved_cb(t)
  BY <1>2, ChosenIInv
<1>3. CASE UNCHANGED C!vars
  BY <1>3 DEF CodecIInv, Typed, Both, C!vars
<1> QED
  BY <1>1, <1>2, <1>3 DEF C!Next

(* Cleaning keeps what the user said of the codecs that are supported,      *)
(* their order and their ticks: what was chosen comes first of what is left *)
(* (CallManager::set_codecs, ConfBridge::on_property_changed).              *)
THEOREM ChoicesCorrect ==
  C!CodecsAssumption => (C!Spec => ChoicesAreKept)
<1> SUFFICES ASSUME C!CodecsAssumption PROVE C!Spec => ChoicesAreKept
  OBVIOUS
<1>1. C!Init => CodecIInv
  BY CodecInitIInv
<1>2. CodecIInv /\ [C!Next]_C!vars => CodecIInv'
  BY CodecNextIInv
<1>3. CodecIInv /\ [C!Next]_C!vars =>
        [(\E t \in C!Types : C!on_property_changed(t)) => \A t \in C!Types :
           C!IsPrefix(C!Only(media_list[t], C!Supported),
                      C!Only(media_list'[t], C!Supported))]_C!vars
  <2> SUFFICES ASSUME CodecIInv, NEW s \in C!Types, C!on_property_changed(s),
                      NEW t \in C!Types
               PROVE  C!IsPrefix(C!Only(media_list[t], C!Supported),
                                 C!Only(media_list'[t], C!Supported))
    OBVIOUS
  <2>1. media_list'[t] = C!get_list(C!set_codecs(Both(media_list)), t)
    BY DEF C!on_property_changed, Both
  <2>2. Typed(media_list)
    BY DEF CodecIInv
  <2> QED
    BY <2>1, <2>2, ChoicesOfType
<1> QED
  BY <1>1, <1>2, <1>3, PTL DEF C!Spec, ChoicesAreKept, C!ChoicesAreKept

-----------------------------------------------------------------------------
(* Once nothing is left to notify, if no list that was stored names a codec *)
(* twice: then no list ever does.                                           *)
NoneIsTwice == \A t \in C!Types : Distinct(media_list[t]) /\ Distinct(box[t])

SettledIInv == CodecIInv /\ NoneIsTwice

LEMMA BothDistinct ==
  ASSUME C!CodecsAssumption, NEW lists, Typed(lists),
         Distinct(lists["audio"]), Distinct(lists["video"])
  PROVE  Distinct(Both(lists))
<1>1. PICK a \in Seq(C!Descriptions) : a = lists["audio"]
  BY BothType
<1>2. PICK v \in Seq(C!Descriptions) : v = lists["video"]
  BY BothType
<1>3. C!NamesIn(a) \cap C!NamesIn(v) = {}
  BY <1>1, <1>2, BothType DEF C!CodecsAssumption
<1>4. Distinct(a \o v)
  BY <1>1, <1>2, <1>3, DistinctConcat
<1> QED
  BY <1>1, <1>2, <1>4 DEF Both

LEMMA NextNoneIsTwice ==
  ASSUME C!CodecsAssumption, SettledIInv, [C!Next]_C!vars
  PROVE  NoneIsTwice'
<1>1. CASE \E t \in C!Types : C!on_property_changed(t)
  <2>1. PICK s \in C!Types : C!on_property_changed(s)
    BY <1>1
  <2>2. PICK q \in Seq(C!Descriptions) : q = Both(media_list)
    BY BothType DEF SettledIInv, CodecIInv
  <2>3. Distinct(q)
    BY <2>2, BothDistinct DEF SettledIInv, CodecIInv, NoneIsTwice, C!Types
  <2>4. PICK w \in Seq(C!Descriptions) : w = C!WithMissing(q)
    BY WithMissingType
  <2>5. Distinct(C!Picked(w, Kept(w)))
    BY <2>3, <2>4, WithMissingDistinct, PickedDistinct
  <2>6. PICK c \in Seq(C!Descriptions) : c = C!Picked(w, Kept(w))
    BY PickedType
  <2>7. codecs' = c
    BY <2>1, <2>2, <2>4, <2>6, SetCodecsIsPicked
    DEF C!on_property_changed, Both
  <2>8. ASSUME NEW t \in C!Types PROVE Distinct(media_list'[t])
    <3>1. media_list'[t] = C!Only(c, C!Names[t])
      BY <2>1, <2>7 DEF C!on_property_changed, C!get_list
    <3> QED
      BY <2>5, <2>6, <3>1, OnlyDistinct
  <2>9. ASSUME NEW t \in C!Types PROVE Distinct(box'[t])
    <3>1. box'[t] = IF t = s THEN media_list[s] ELSE box[t]
      BY <2>1 DEF C!on_property_changed, SettledIInv, CodecIInv, Typed
    <3> QED
      BY <3>1 DEF SettledIInv, NoneIsTwice
  <2> QED
    BY <2>8, <2>9 DEF NoneIsTwice
<1>2. CASE \E t \in C!Types : C!codec_toggled_cb(t) \/ C!codec_moved_cb(t)
  <2>1. PICK s \in C!Types : C!codec_toggled_cb(s) \/ C!codec_moved_cb(s)
    BY <1>2
  <2>2. PICK list \in Seq(C!Descriptions) :
          C!Chooses(s, list) /\ (Distinct(box[s]) => Distinct(list))
    BY <2>1, UserChooses DEF SettledIInv, CodecIInv
  <2>3. Distinct(list)
    BY <2>2 DEF SettledIInv, NoneIsTwice
  <2>4. ASSUME NEW t \in C!Types
        PROVE  /\ media_list'[t] = IF t = s THEN list ELSE media_list[t]
               /\ box'[t] = IF t = s THEN list ELSE box[t]
    BY <2>2 DEF C!Chooses, SettledIInv, CodecIInv, Typed
  <2> QED
    BY <2>3, <2>4 DEF SettledIInv, NoneIsTwice
<1>3. CASE UNCHANGED C!vars
  BY <1>3 DEF SettledIInv, NoneIsTwice, C!vars
<1> QED
  BY <1>1, <1>2, <1>3 DEF C!Next

(* A codec that is not supported and stays was behind another such one,     *)
(* which is gone; but then the settings have lost it too, and are not what  *)
(* they were.                                                               *)
LEMMA SettledNames ==
  ASSUME C!CodecsAssumption, SettledIInv, notified = {}
  PROVE  C!NamesIn(codecs) = C!Supported
<1>1. PICK q \in Seq(C!Descriptions) : q = Both(media_list) /\ Distinct(q)
  BY BothType, BothDistinct DEF SettledIInv, CodecIInv, NoneIsTwice, C!Types
<1>2. PICK w \in Seq(C!Descriptions) : w = C!WithMissing(q) /\ Distinct(w)
  BY <1>1, WithMissingType, WithMissingDistinct
<1>3. codecs = C!Picked(w, Kept(w)) /\ codecs \in Seq(C!Descriptions)
  BY <1>1, <1>2, SetCodecsIsPicked DEF SettledIInv, CodecIInv
<1>4. C!NamesIn(codecs) = Chosen(w, Kept(w))
  BY <1>3, PickedNames
<1>5. C!NamesIn(w) = C!NamesIn(q) \cup C!Supported
  BY <1>1, <1>2, WithMissingNames
<1>6. DOMAIN w = 1 .. Len(w) /\ Len(w) \in Nat
  OBVIOUS
<1>7. C!Supported \subseteq C!NamesIn(codecs)
  <2> SUFFICES ASSUME NEW m \in C!Supported PROVE m \in Chosen(w, Kept(w))
    BY <1>4
  <2>1. PICK i \in 1 .. Len(w) : w[i].name = m
    BY <1>5, <1>6 DEF C!NamesIn
  <2>2. i \in Kept(w) \cap 1 .. Len(w)
    BY <1>6, <2>1 DEF Kept
  <2> QED
    BY <2>1, <2>2 DEF Chosen
<1>8. C!NamesIn(q) \subseteq C!NamesIn(codecs)
  <2>1. PICK a \in Seq(C!Descriptions) : a = media_list["audio"]
    BY BothType DEF SettledIInv, CodecIInv
  <2>2. PICK v \in Seq(C!Descriptions) : v = media_list["video"]
    BY BothType DEF SettledIInv, CodecIInv
  <2>3. C!NamesIn(a \o v) = C!NamesIn(a) \cup C!NamesIn(v)
    BY NamesConcat
  <2>4. ASSUME NEW t \in C!Types
        PROVE  C!NamesIn(media_list[t]) \subseteq C!NamesIn(codecs)
    <3>1. PICK N : N = C!Names[t]
      OBVIOUS
    <3>2. C!NamesIn(C!Only(codecs, N)) = C!NamesIn(codecs) \cap N
      BY <1>3, OnlyNames
    <3>3. media_list[t] = C!Only(codecs, N)
      BY <3>1 DEF SettledIInv, CodecIInv, C!get_list
    <3> QED
      BY <3>2, <3>3
  <2>5. C!NamesIn(a) \subseteq C!NamesIn(codecs)
    BY <2>1, <2>4 DEF C!Types
  <2>6. C!NamesIn(v) \subseteq C!NamesIn(codecs)
    BY <2>2, <2>4 DEF C!Types
  <2> QED
    BY <1>1, <2>1, <2>2, <2>3, <2>5, <2>6 DEF Both
<1>9. ASSUME NEW m \in C!NamesIn(codecs), m \notin C!Supported PROVE FALSE
  <2>1. PICK i \in Kept(w) \cap 1 .. Len(w) : w[i].name = m
    BY <1>4, <1>9 DEF Chosen
  <2>2. i = 2 /\ w[1].name \notin C!Supported
    BY <1>9, <2>1 DEF Kept
  <2>3. 1 \in 1 .. Len(w) /\ 1 \notin Kept(w)
    BY <1>6, <2>1, <2>2 DEF Kept
  <2>4. w[1].name \in C!NamesIn(q)
    <3>1. w[1].name \in C!NamesIn(w)
      BY <1>6, <2>3 DEF C!NamesIn
    <3> QED
      BY <1>5, <2>2, <3>1
  <2>5. PICK j \in Kept(w) \cap 1 .. Len(w) : w[j].name = w[1].name
    BY <1>4, <1>8, <2>4 DEF Chosen
  <2>6. j = 1
    BY <1>2, <2>3, <2>5 DEF Distinct
  <2> QED
    BY <2>3, <2>5, <2>6
<1> QED
  BY <1>7, <1>9

LEMMA SettledLength ==
  ASSUME C!CodecsAssumption, SettledIInv, notified = {}
  PROVE  Len(codecs) = Len(all_codecs)
<1>1. PICK q \in Seq(C!Descriptions) : q = Both(media_list) /\ Distinct(q)
  BY BothType, BothDistinct DEF SettledIInv, CodecIInv, NoneIsTwice, C!Types
<1>2. PICK w \in Seq(C!Descriptions) : w = C!WithMissing(q) /\ Distinct(w)
  BY <1>1, WithMissingType, WithMissingDistinct
<1>3. codecs = C!Picked(w, Kept(w)) /\ codecs \in Seq(C!Descriptions)
  BY <1>1, <1>2, SetCodecsIsPicked DEF SettledIInv, CodecIInv
<1>4. Distinct(codecs)
  BY <1>2, <1>3, PickedDistinct
<1>5. Cardinality(C!NamesIn(codecs)) = Len(codecs)
  BY <1>3, <1>4, DistinctLength
<1>6. PICK o \in Seq(C!Descriptions) : o = Offered
  BY OfferedType
<1>7. Distinct(o) /\ C!NamesIn(o) = C!Supported /\ Len(o) = Len(all_codecs)
  BY <1>6, OfferedNames
<1>8. Cardinality(C!NamesIn(o)) = Len(o)
  BY <1>7, DistinctLength
<1> QED
  BY <1>5, <1>7, <1>8, SettledNames

(* Whenever every change of the settings was notified, the settings, the    *)
(* boxes and the manager agree, and the manager has each supported codec    *)
(* once and nothing else, if no list that was stored names a codec twice    *)
(* (CallManager::set_codecs, ConfBridge::on_property_changed).              *)
THEOREM SettledCorrect ==
  C!CodecsAssumption
    /\ (\A lists \in Stored, t \in C!Types : Distinct(lists[t]))
    => (C!Spec => []SettledIsRight)
<1> SUFFICES ASSUME C!CodecsAssumption,
                    \A lists \in Stored, t \in C!Types : Distinct(lists[t])
             PROVE  C!Spec => []SettledIsRight
  OBVIOUS
<1>1. C!Init => SettledIInv
  BY CodecInitIInv DEF SettledIInv, NoneIsTwice, C!Init
<1>2. SettledIInv /\ [C!Next]_C!vars => SettledIInv'
  BY CodecNextIInv, NextNoneIsTwice DEF SettledIInv
<1>3. SettledIInv => SettledIsRight
  <2> SUFFICES ASSUME SettledIInv, notified = {}
               PROVE  /\ C!NamesIn(codecs) = C!Supported
                      /\ Len(codecs) = Len(all_codecs)
                      /\ \A t \in C!Types :
                           /\ media_list[t] = C!get_list(codecs, t)
                           /\ box[t] = media_list[t]
    BY DEF SettledIsRight, C!SettledIsRight
  <2>1. \A t \in C!Types :
          media_list[t] = C!get_list(codecs, t) /\ box[t] = media_list[t]
    BY DEF SettledIInv, CodecIInv
  <2> QED
    BY <2>1, SettledNames, SettledLength
<1> QED
  BY <1>1, <1>2, <1>3, PTL DEF C!Spec

(* Settings, boxes and manager hold descriptions of codecs, each list of    *)
(* the settings those of its kind.                                          *)
THEOREM CodecTypesCorrect ==
  C!CodecsAssumption => (C!Spec => []C!TypeOK)
<1> SUFFICES ASSUME C!CodecsAssumption PROVE C!Spec => []C!TypeOK
  OBVIOUS
<1>1. CodecIInv => C!TypeOK
  BY DEF CodecIInv, Typed, C!TypeOK
<1> QED
  BY <1>1, CodecInitIInv, CodecNextIInv, PTL DEF C!Spec
=============================================================================
