------------------------------ MODULE Presence ------------------------------
(***************************************************************************)
(* Who is there?  Ekiga::PresenceCore counts how many presentities want to *)
(* know about each uri, tells the fetchers (Opal::Bank and its accounts)   *)
(* when the first comes and the last goes, and passes on what they say.    *)
(* The presentities are the contacts of the local roster and whatever else *)
(* is made around a uri (Ekiga::URIPresentity: chats, neighbours).  All of *)
(* it runs in the main loop, where the accounts post what they learn.      *)
(***************************************************************************)
EXTENDS FiniteSets, Naturals, SequencesExt

CONSTANTS
  Uris,
  Contacts,       \* the entries of the local roster
  Editable,       \* those that the user edits
  Others,         \* objects of URIPresentity
  Accounts,
  Late,           \* the accounts that the user adds later
  UrisOf,         \* the uris at the host of each account
  Notifications,  \* the states and notes that the registrar tells
  MaxQueue,       \* bound: functions posted to the main loop at a time
  None

VARIABLES
  uri_infos,      \* what PresenceCore keeps of each uri
  presentity,     \* what the contacts and the others show
  saved,          \* the roster in the settings
  bank,           \* is the bank a fetcher yet?
  account,
  queue,          \* presence_status_in_main, posted to the main loop
  told            \* what the registrar told last about each uri

vars == <<uri_infos, presentity, saved, bank, account, queue, told>>

Presentities == Contacts \cup Others

(* OpalPresenceInfo: a state, and a note that may hold a word of its own. *)
Notes == {"", "note", "meeting", "lunch", "phone"}

Activities == {"Appointment", "Breakfast", "Dinner", "Holiday", "InTransit",
               "LookingForWork", "Lunch", "Meal", "Meeting", "Playing",
               "Shopping", "Sleeping", "Vacation"}

AwayStates == Activities \cup
  {"Away", "Other", "Performance", "PermanentAbsence", "Presentation",
   "Spectator", "Steering", "Travel", "TV", "Worship"}

(* What ekiga makes of it; the name of an activity stands in for the note. *)
PresenceOf(state, note) ==
  CASE state = "Available" /\ note = "meeting" -> "busy"
    [] state = "Available" /\ note = "lunch"   -> "away"
    [] state = "Available" /\ note = "phone"   -> "inacall"
    [] state = "Available" /\ note \in {"", "note"} -> "available"
    [] state = "NoPresence"                    -> "offline"
    [] state \in {"InternalError", "Forbidden", "Unavailable",
                 "UnknownExtended"}            -> "unknown"
    [] state \in AwayStates                    -> "away"
    [] state \in {"Busy", "Working"}           -> "busy"
    [] state = "OnThePhone"                    -> "inacall"
    [] OTHER                                   -> ""

StatusOf(state, note) ==
  IF note = "" /\ state \in Activities \cup {"Working", "OnThePhone"}
    THEN "activity" ELSE note

Info == [presence : {"unknown", "available", "away", "busy", "inacall",
                     "offline", ""},
         status : Notes \cup {"activity"}]

Unknown == [presence |-> "unknown", status |-> ""]

UriInfo == [count : Nat, info : Info]

Account == [enabled : BOOLEAN, registered : BOOLEAN,
            watched : SUBSET Uris, subscribed : SUBSET Uris]

Post == [uri : Uris, info : Info]

(* There are finitely many of each, and None is none of the records. *)
ASSUME PresenceAssumption ==
  /\ Editable \subseteq Contacts /\ Late \subseteq Accounts
  /\ Contacts \cap Others = {}
  /\ IsFiniteSet(Presentities) /\ IsFiniteSet(Uris) /\ IsFiniteSet(Accounts)
  /\ UrisOf \in [Accounts -> SUBSET Uris]
  /\ MaxQueue \in Nat
  /\ \A n \in Notifications : n[1] \in STRING /\ n[2] \in Notes
  /\ None \notin Uris \cup UriInfo \cup Account \cup Post

TypeOK ==
  /\ uri_infos \in [Uris -> UriInfo \cup {None}]
  /\ presentity \in [Presentities -> Post \cup {None}]
  /\ saved \in [Contacts -> Uris \cup {None}]
  /\ bank \in BOOLEAN
  /\ account \in [Accounts -> Account \cup {None}]
  /\ queue \in Seq(Post) /\ Len(queue) <= MaxQueue
  /\ told \in [Uris -> Info]

-----------------------------------------------------------------------------
(* What a handler of the main loop changes, step by step *)

Now == [infos |-> uri_infos, shown |-> presentity, accounts |-> account,
        posts |-> queue, told |-> told]

Becomes(s) ==
  /\ uri_infos' = s.infos /\ presentity' = s.shown /\ account' = s.accounts
  /\ queue' = s.posts /\ told' = s.told
  /\ Len(s.posts) <= MaxQueue

(* presence_received and status_received: each presentity of the uri takes *)
(* what it hears, and no other does.                                       *)
Heard(s, u, info) ==
  [s EXCEPT !.shown = [p \in Presentities |->
     IF @[p] # None /\ @[p].uri = u THEN [@[p] EXCEPT !.info = info] ELSE @[p]]]

(* uri_infos[u] makes an entry where there is none. *)
Entry(s, u) ==
  IF s.infos[u] = None THEN [count |-> 0, info |-> Unknown] ELSE s.infos[u]

-----------------------------------------------------------------------------
(* The accounts, as fetchers *)

(* A mutation: an account that is not registered does not take note. *)
FetchedIfRegistered(c, uris) ==
  IF c.registered THEN [c EXCEPT !.watched = @ \cup uris,
                                 !.subscribed = @ \cup uris]
                  ELSE c

Fetched(c, uris) ==
  [c EXCEPT !.watched = @ \cup uris,
            !.subscribed = IF c.enabled /\ c.registered THEN @ \cup uris ELSE @]

Bank_fetch(s, uris) ==
  [s EXCEPT !.accounts = [a \in Accounts |->
     IF @[a] = None THEN None ELSE Fetched(@[a], uris \cap UrisOf[a])]]

UnknownNow(u) == [uri |-> u, info |-> Unknown]

(* A mutation: nothing is said. *)
SaysNothing(s, posts) ==
  [s EXCEPT !.told = [u \in Uris |->
     IF \E i \in DOMAIN posts : posts[i].uri = u THEN Unknown ELSE @[u]]]

(* An account has unsubscribed from uris, and says that they are unknown. *)
Says(s, posts) ==
  [s EXCEPT !.posts = @ \o posts,
            !.told = [u \in Uris |->
     IF \E i \in DOMAIN posts : posts[i].uri = u THEN Unknown ELSE @[u]]]

(* Each account that has the uri at its host says so. *)
Bank_unfetch(s, u) ==
  LET asked == {a \in Accounts : s.accounts[a] # None /\ u \in UrisOf[a]}
      Unfetched(c) == [c EXCEPT !.watched = @ \ {u}, !.subscribed = @ \ {u}]
  IN  Says([s EXCEPT !.accounts = [a \in Accounts |->
              IF a \in asked THEN Unfetched(@[a]) ELSE @[a]]],
           [i \in 1..Cardinality(asked) |-> UnknownNow(u)])

-----------------------------------------------------------------------------
(* PresenceCore *)

fetch_presence(s, u) ==
  LET counted == [s EXCEPT !.infos[u] = [Entry(s, u) EXCEPT !.count = @ + 1]]
      first   == counted.infos[u].count = 1
  IN  Heard(IF first /\ bank THEN Bank_fetch(counted, {u}) ELSE counted,
            u, counted.infos[u].info)

(* A mutation: the fetchers are not told. *)
UnfetchesTheEntry(s, u) ==
  IF Entry(s, u).count > 1 THEN [s EXCEPT !.infos[u].count = @ - 1]
    ELSE [s EXCEPT !.infos[u] = None]

unfetch_presence(s, u) ==
  LET gone == [s EXCEPT !.infos[u] = None]
  IN  IF Entry(s, u).count > 1 THEN [s EXCEPT !.infos[u].count = @ - 1]
        ELSE IF bank THEN Bank_unfetch(gone, u) ELSE gone

(* The bank hears of every uri that there is. *)
add_presence_fetcher ==
  /\ ~bank /\ bank' = TRUE
  /\ Becomes(Bank_fetch(Now, {u \in Uris : uri_infos[u] # None}))
  /\ UNCHANGED saved

on_presence_received(s, post) ==
  Heard([s EXCEPT !.infos[post.uri] = [Entry(s, post.uri) EXCEPT !.info = post.info]],
        post.uri, post.info)

-----------------------------------------------------------------------------
(* Presentities *)

Absent(p) == presentity[p] = None

With(s, p, u) == [s EXCEPT !.shown[p] = [uri |-> u, info |-> Unknown]]

has_presentity_with_uri(u) ==
  \E c \in Contacts : ~Absent(c) /\ presentity[c].uri = u

(* The contact is in the heap when its presence is fetched. *)
new_presentity(c, u) ==
  /\ Absent(c) /\ ~has_presentity_with_uri(u)
  /\ Becomes(fetch_presence(With(Now, c, u), u))
  /\ saved' = [saved EXCEPT ![c] = u]
  /\ UNCHANGED bank

(* A mutation: what is fetched is the uri of before. *)
EditFetchesOldUri(c, u) ==
  LET old == presentity[c].uri
      s == fetch_presence(unfetch_presence(Now, old), old)
  IN  /\ ~Absent(c) /\ u # old
      /\ Becomes([s EXCEPT !.shown[c].uri = u, !.shown[c].info.presence = "unknown"])
      /\ saved' = [saved EXCEPT ![c] = u]
      /\ UNCHANGED bank

(* The contact has its old uri until the new one is fetched, so that it does *)
(* not hear what is known of that one; and its status stays.                 *)
edit_presentity(c, u) ==
  LET old == presentity[c].uri
      s == fetch_presence(unfetch_presence(Now, old), u)
  IN  /\ ~Absent(c) /\ u # old
      /\ Becomes([s EXCEPT !.shown[c].uri = u, !.shown[c].info.presence = "unknown"])
      /\ saved' = [saved EXCEPT ![c] = u]
      /\ UNCHANGED bank

remove(c) ==
  /\ ~Absent(c)
  /\ Becomes([unfetch_presence(Now, presentity[c].uri) EXCEPT !.shown[c] = None])
  /\ saved' = [saved EXCEPT ![c] = None]
  /\ UNCHANGED bank

(* URIPresentity is connected when it fetches, and unfetches when it ends. *)
URIPresentity(o, u) ==
  /\ Absent(o)
  /\ Becomes(fetch_presence(With(Now, o, u), u))
  /\ UNCHANGED <<bank, saved>>

EndOfURIPresentity(o) ==
  /\ ~Absent(o)
  /\ Becomes([unfetch_presence(Now, presentity[o].uri) EXCEPT !.shown[o] = None])
  /\ UNCHANGED <<bank, saved>>

-----------------------------------------------------------------------------
(* The accounts; Accounts.tla has the whole of their registration. *)

NewAccount == [enabled |-> TRUE, registered |-> FALSE,
               watched |-> {}, subscribed |-> {}]

add(a) ==
  /\ account[a] = None
  /\ account' = [account EXCEPT ![a] = NewAccount]
  /\ UNCHANGED <<uri_infos, presentity, saved, bank, queue, told>>

enable(a) ==
  /\ account[a] # None
  /\ account' = [account EXCEPT ![a].enabled = TRUE, ![a].registered = FALSE]
  /\ UNCHANGED <<uri_infos, presentity, saved, bank, queue, told>>

disable(a) ==
  /\ account[a] # None /\ account[a].enabled
  /\ Becomes(Says([Now EXCEPT !.accounts[a].enabled = FALSE,
                              !.accounts[a].subscribed = @ \ account[a].watched],
                  SetToSeq({UnknownNow(u) : u \in account[a].watched})))
  /\ UNCHANGED <<saved, bank>>

(* The answers of the registrar: registered, or anything else. *)
handle_registration_event(a, registered) ==
  /\ account[a] # None
  /\ account' = [account EXCEPT ![a].registered = registered,
       ![a].subscribed = IF registered /\ ~account[a].registered
                           THEN account[a].watched ELSE @]
  /\ UNCHANGED <<uri_infos, presentity, saved, bank, queue, told>>

(* OPAL tells of a uri to which the account is subscribed. *)
OnPresenceChange(a, u, state, note) ==
  LET info == [presence |-> PresenceOf(state, note),
               status   |-> StatusOf(state, note)]
  IN  /\ account[a] # None /\ u \in account[a].subscribed
      /\ state # "Unchanged"
      /\ Becomes([Now EXCEPT !.posts = Append(@, [uri |-> u, info |-> info]),
                             !.told[u] = info])
      /\ UNCHANGED <<saved, bank>>

presence_status_in_main ==
  /\ queue # <<>>
  /\ Becomes(on_presence_received([Now EXCEPT !.posts = Tail(@)], Head(queue)))
  /\ UNCHANGED <<saved, bank>>

-----------------------------------------------------------------------------
(* The start: the roster is loaded, before the bank is a fetcher.  No uri is *)
(* in it twice, as it was never edited.                                      *)
Loaded(roster) ==
  [p \in Presentities |->
     IF p \in Contacts /\ roster[p] # None
       THEN [uri |-> roster[p], info |-> Unknown] ELSE None]

Interest(all, u) == {p \in Presentities : all[p] # None /\ all[p].uri = u}

Counts(all) ==
  [u \in Uris |->
     IF Interest(all, u) = {} THEN None
       ELSE [count |-> Cardinality(Interest(all, u)), info |-> Unknown]]

Init ==
  /\ saved \in [Contacts -> Uris \cup {None}]
  /\ \A c, d \in Contacts : saved[c] = saved[d] /\ c # d => saved[c] = None
  /\ presentity = Loaded(saved)
  /\ uri_infos = Counts(Loaded(saved))
  /\ bank = FALSE
  /\ account = [a \in Accounts |-> IF a \in Late THEN None ELSE NewAccount]
  /\ queue = <<>>
  /\ told = [u \in Uris |-> Unknown]

User ==
  \/ \E c \in Contacts, u \in Uris : new_presentity(c, u)
  \/ \E c \in Editable, u \in Uris : edit_presentity(c, u)
  \/ \E c \in Contacts : remove(c)
  \/ \E o \in Others, u \in Uris : URIPresentity(o, u)
  \/ \E o \in Others : EndOfURIPresentity(o)
  \/ \E a \in Accounts : add(a) \/ enable(a) \/ disable(a)

Next ==
  \/ add_presence_fetcher
  \/ User
  \/ \E a \in Accounts, registered \in BOOLEAN :
       handle_registration_event(a, registered)
  \/ \E a \in Accounts, u \in Uris, n \in Notifications :
       OnPresenceChange(a, u, n[1], n[2])
  \/ presence_status_in_main

Spec == Init /\ [][Next]_vars

-----------------------------------------------------------------------------
(* Properties *)

(* PresenceCore counts the presentities of each uri, and those only: what   *)
(* is added, edited, opened, closed and removed never makes it forget a uri *)
(* that somebody still shows, nor keep the interest of somebody who is gone.*)
CountsAreRight ==
  \A u \in Uris :
    Cardinality(Interest(presentity, u)) = Entry(Now, u).count

(* presence-core.h:123, of the fetchers: "they allow the PresenceCore to    *)
(* declare some presence information is needed about an uri, or now         *)
(* unneeded".  So each account watches the uris at its host that somebody   *)
(* shows, whether they came before the bank, before it was registered, or   *)
(* after.  Not so an account that is added later: Bank::add tells it of     *)
(* nobody.                                                                  *)
InterestIsDeclared ==
  bank => \A a \in Accounts \ Late :
    account[a].watched = {u \in UrisOf[a] : Interest(presentity, u) # {}}

(* And it watches nobody else: a uri that nobody shows any more is let go  *)
(* by each account, also by those that came later, whatever was edited.     *)
NobodyElseIsWatched ==
  \A a \in Accounts : account[a] # None =>
    /\ account[a].subscribed \subseteq account[a].watched
    /\ account[a].watched \subseteq {u \in Uris : Interest(presentity, u) # {}}

(* presentity.h:52, "A presentity is a piece of presence information for a  *)
(* single URI".  Once the main loop has run what was posted, each shows     *)
(* what was told last about its uri, and nothing that is over: also one     *)
(* that was added when its uri was known already, and also after its        *)
(* account was disabled.  Not so a contact that was edited to another uri.  *)
PresenceIsOfItsUri ==
  queue = <<>> => \A p \in Presentities \ Editable :
    ~Absent(p) => presentity[p].info = told[presentity[p].uri]

(* local-heap.cpp:422, when a contact is added: "You already have a contact *)
(* with this address!"  The code does not look when a contact is edited.    *)
OneContactOfAUri ==
  \A u \in Uris : \A c, d \in Contacts :
    {c, d} \subseteq Interest(presentity, u) => c = d
=============================================================================
