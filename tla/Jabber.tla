------------------------------- MODULE Jabber -------------------------------
(***************************************************************************)
(* The loudmouth plug-in: an account at an XMPP server and, while it is    *)
(* connected, the roster that the server has for it.  What the server      *)
(* sends comes in order, over one stream; but several programs of the same *)
(* user may change the roster.                                             *)
(***************************************************************************)
EXTENDS Naturals, FiniteSets, SequencesExt

CONSTANTS
  Jids,           \* other people
  MaxInbox,       \* bound: stanzas on their way
  None

VARIABLES
  account,        \* .conn, .status; .handlers: were they registered?
                  \* .node: what it is told to do; .saved: the settings
  heap,           \* the LM::HeapRoster, or None
  inbox,          \* stanzas from the server to this program
  server,         \* .roster: of the account; .online: who is there
  behind          \* asked for, though another program added them

vars == <<account, heap, inbox, server, behind>>

(* LmConnection *)
Connections == {"closed", "opening", "authenticating", "up", "removed"}

Statuses ==
  {"Inactive", "Connecting...", "Could not connect", "Authenticating...",
   "Could not authenticate", "Connected", "Disconnected"}

lm_connection_is_open == account.conn \in {"authenticating", "up"}

(* An item of the roster: do we see the presence (subscription "to"), did   *)
(* we ask to; and by which program it was added.                            *)
Items == [to : BOOLEAN, ask : BOOLEAN, by : {"me", "another"}]

(* The resources of a contact: "bare" is its address without a resource,    *)
(* which handle_presence takes for a resource like others.                  *)
Resources == {"full", "bare"}

Heaps ==
  [items : [Jids -> Items \cup {None}], infos : [Jids -> SUBSET Resources],
   items_added_by_me : SUBSET Jids]

(* What the settings hold of the account, and what its node does. *)
Nodes == [startup : BOOLEAN, edited : BOOLEAN]

(* None is a pointer that is null. *)
JabberAssumption ==
  /\ IsFiniteSet(Jids) /\ None \notin Jids \cup Items \cup Heaps
  /\ MaxInbox \in Nat \ {0}

TypeOK ==
  /\ account \in [conn : Connections, status : Statuses, handlers : BOOLEAN,
                  node : Nodes, saved : Nodes]
  /\ heap \in Heaps \cup {None}
  /\ Len(inbox) <= MaxInbox
  /\ server \in [roster : [Jids -> Items \cup {None}], online : SUBSET Jids]
  /\ behind \subseteq Jids

-----------------------------------------------------------------------------
(* What the server sends (external): pushes of the roster and presence.     *)

Push(j, item)      == <<"push", j, item>>
Presence(j, r, on) == <<"presence", j, r, on>>

Send(stanzas) ==
  /\ inbox' = IF account.conn = "up" THEN inbox \o stanzas ELSE inbox
  /\ Len(inbox') <= MaxInbox

SetItem(j, item) == server' = [server EXCEPT !.roster[j] = item]

(* Of those who are there and are seen. *)
PresenceIf(j, item, on) ==
  IF item # None /\ item.to /\ j \in server.online
    THEN <<Presence(j, "full", on)>> ELSE <<>>

Adds(j, by) ==
  LET old  == server.roster[j]
      item == IF old = None THEN [to |-> FALSE, ask |-> FALSE, by |-> by]
                            ELSE old
  IN  SetItem(j, item) /\ Send(<<Push(j, item)>>)

Removes(j) ==
  /\ server.roster[j] # None
  /\ SetItem(j, None)
  /\ Send(<<Push(j, None)>> \o PresenceIf(j, server.roster[j], FALSE))

(* A request to see the presence of somebody. *)
Asked(old, by) ==
  IF old = None THEN [to |-> FALSE, ask |-> TRUE, by |-> by]
                ELSE [old EXCEPT !.ask = ~old.to]

Asks(j, by) ==
  LET item == Asked(server.roster[j], by)
  IN  SetItem(j, item) /\ Send(<<Push(j, item)>>)

(* He grants it: that is told from his address without a resource. *)
Approves(j) ==
  LET item == [server.roster[j] EXCEPT !.to = TRUE, !.ask = FALSE]
  IN  /\ SetItem(j, item)
      /\ Send(<<Presence(j, "bare", TRUE), Push(j, item)>>
                \o PresenceIf(j, item, TRUE))

(* It ends: on our part, or on his, and he says so first. *)
Stops(j, said) ==
  LET item == [server.roster[j] EXCEPT !.to = FALSE, !.ask = FALSE]
  IN  /\ SetItem(j, item)
      /\ Send(said \o PresenceIf(j, server.roster[j], FALSE) \o <<Push(j, item)>>)

-----------------------------------------------------------------------------
(* The account *)

Save(a) == [a EXCEPT !.saved = a.node]

Down(a) == [a EXCEPT !.conn = "closed", !.status = "Disconnected"]

(* The answer to the request of the roster, and who is there. *)
FirstStanzas ==
  <<<<"roster", server.roster>>>> \o
    (LET seen == {j \in server.online : /\ server.roster[j] # None
                                        /\ server.roster[j].to}
     IN  IF seen = {} THEN <<>>
         ELSE <<<<"presences", seen>>>>)

(* Account::handle_up: a new heap that asks for the roster. *)
handle_up ==
  /\ heap' = [items |-> [j \in Jids |-> None], infos |-> [j \in Jids |-> {}],
              items_added_by_me |-> {}]
  /\ inbox' = FirstStanzas

(* A mutation: the cluster keeps the heap of the connection. *)
HandleDownKeepsTheHeap == UNCHANGED heap /\ inbox' = <<>>

handle_down == heap' = None /\ inbox' = <<>>

(* lm_connection_open refuses, or tries. *)
Opened(a) == {[a EXCEPT !.conn = "opening", !.status = "Connecting..."],
              [a EXCEPT !.status = "Could not connect"]}

enable ==
  /\ ~lm_connection_is_open /\ account.conn # "removed"
  /\ \E a \in Opened(account) : account' = Save([a EXCEPT !.node.startup = TRUE])
  /\ UNCHANGED <<heap, inbox, server, behind>>

(* lm_connection_close calls on_disconnected. *)
Disabled(a) ==
  LET b == Save([a EXCEPT !.node.startup = FALSE])
  IN  IF a.conn = "closed" THEN b ELSE Down(b)

disable ==
  /\ lm_connection_is_open
  /\ account' = Disabled(account) /\ handle_down
  /\ UNCHANGED <<server, behind>>

on_edit_form_submitted ==
  /\ account.conn # "removed"
  /\ LET a == [Disabled(account) EXCEPT !.node.edited = ~account.node.edited]
     IN  \/ account' \in {Save([b EXCEPT !.node.startup = TRUE]) : b \in Opened(a)}
         \/ account' = a
  /\ handle_down
  /\ UNCHANGED <<server, behind>>

on_connection_opened ==
  /\ account.conn = "opening"
  /\ account' \in {[account EXCEPT !.conn = "authenticating",
                                   !.status = "Authenticating..."],
                   [account EXCEPT !.conn = "closed",
                                   !.status = "Could not connect"]}
  /\ UNCHANGED <<heap, inbox, server, behind>>

on_authenticate ==
  /\ account.conn = "authenticating"
  /\ \/ /\ handle_up
        /\ account' = [account EXCEPT !.conn = "up", !.status = "Connected"]
     \/ /\ handle_down
        /\ account' = [Down(account) EXCEPT !.status = "Could not authenticate"]
  /\ UNCHANGED <<server, behind>>

on_disconnected ==
  /\ lm_connection_is_open
  /\ account' = Down(account) /\ handle_down
  /\ UNCHANGED <<server, behind>>

(* The node is gone from the document before that is saved. *)
remove ==
  /\ account.conn # "removed"
  /\ account' = [Disabled(account) EXCEPT !.conn = "removed"]
  /\ handle_down
  /\ UNCHANGED <<server, behind>>

-----------------------------------------------------------------------------
(* The heap *)

(* What was added here a moment ago, and is only in the roster so far. *)
ToAsk(items) ==
  {j \in DOMAIN items \cap heap.items_added_by_me :
     /\ heap.items[j] = None /\ items[j] # None
     /\ ~items[j].to /\ ~items[j].ask}

(* A mutation: what was removed by another program stays. *)
ParseRosterAdds(items) ==
  LET kept == {j \in DOMAIN items : items[j] # None}
  IN  /\ heap' = [heap EXCEPT !.items = [j \in kept |-> items[j]] @@ @]
      /\ inbox' = Tail(inbox)
      /\ UNCHANGED <<server, behind>>

(* Of each contact, its item, or None when it was removed: as the stanzas   *)
(* come in order, only one that the heap has is.  A presentity that is new  *)
(* has no presence yet.  Asked is who does not see us either (subscription  *)
(* "none"): who does is not in the model, so it may be any of them.         *)
parse_roster(items) ==
  \E asked \in SUBSET ToAsk(items) :
    /\ heap' = [heap EXCEPT
         !.items = [j \in Jids |-> IF j \in DOMAIN items
                                     THEN items[j] ELSE @[j]],
         !.infos = [j \in Jids |-> IF j \in DOMAIN items /\ items[j] = None
                                     THEN {} ELSE @[j]],
         !.items_added_by_me = @ \ asked]
    /\ behind' = behind \cup {j \in asked : items[j].by = "another"}
    /\ server' = [server EXCEPT !.roster = [j \in Jids |->
                    IF j \in asked THEN Asked(@[j], "me") ELSE @[j]]]
    /\ inbox' = Tail(inbox) \o
                  SetToSeq({Push(j, server'.roster[j]) : j \in asked})
    /\ Len(inbox') <= MaxInbox

(* Only of who is in the roster.  Every presence that is not "unavailable"  *)
(* is taken for somebody who is there.                                      *)
handle_presence(who, r, on) ==
  /\ heap' = [heap EXCEPT !.infos = [j \in Jids |->
                IF j \notin who \/ heap.items[j] = None THEN @[j]
                  ELSE IF on THEN @[j] \cup {r} ELSE @[j] \ {r}]]
  /\ inbox' = Tail(inbox)
  /\ UNCHANGED <<server, behind>>

(* The constructor of an account from the form registers no handlers; the   *)
(* answer to the request comes to a handler of its own.                     *)
Ignore == inbox' = Tail(inbox) /\ UNCHANGED <<heap, server, behind>>

Stanza ==
  /\ heap # None /\ inbox # <<>>
  /\ LET s == Head(inbox)
     IN  \/ s[1] = "roster" /\ parse_roster(s[2])
         \/ s[1] # "roster" /\ ~account.handlers /\ Ignore
         \/ /\ account.handlers
            /\ \/ s[1] = "push"      /\ parse_roster([j \in {s[2]} |-> s[3]])
               \/ s[1] = "presence"  /\ handle_presence({s[2]}, s[3], s[4])
               \/ s[1] = "presences" /\ handle_presence(s[2], "full", TRUE)
  /\ UNCHANGED account

add_item_form_submitted(j) ==
  /\ heap # None
  /\ heap' = [heap EXCEPT !.items_added_by_me = @ \cup {j}]
  /\ Adds(j, "me")
  /\ UNCHANGED <<account, behind>>

(* The menu of a contact; "grant", when it asked to see us, asks too. *)
ask_to(j) ==
  /\ heap # None
  /\ \/ heap.items[j] # None /\ ~heap.items[j].to
     \/ account.handlers
  /\ Asks(j, "me")
  /\ UNCHANGED <<account, heap, behind>>

stop_to(j) ==
  /\ heap # None /\ heap.items[j] # None /\ heap.items[j].to
  /\ IF server.roster[j] # None THEN Stops(j, <<>>) ELSE UNCHANGED <<server, inbox>>
  /\ UNCHANGED <<account, heap, behind>>

(* The form with the name and the groups sets the item again, also one that *)
(* another program removed meanwhile.                                       *)
edit_presentity_form_submitted(j) ==
  /\ heap # None /\ heap.items[j] # None
  /\ Adds(j, "me")
  /\ UNCHANGED <<account, heap, behind>>

remove_presentity(j) ==
  /\ heap # None /\ heap.items[j] # None
  /\ IF server.roster[j] # None THEN Removes(j) ELSE UNCHANGED <<server, inbox>>
  /\ UNCHANGED <<account, heap, behind>>

-----------------------------------------------------------------------------
(* The others: the contacts, and another program of the user *)

Contact(j) ==
  \/ server.roster[j] # None /\ server.roster[j].ask /\ Approves(j)
  \/ /\ server.roster[j] # None
     /\ server.roster[j].ask \/ server.roster[j].to
     /\ Stops(j, <<Presence(j, "bare", TRUE)>>)
  \/ /\ server' = [server EXCEPT !.online = (@ \ {j}) \cup ({j} \ @)]
     /\ Send(IF server.roster[j] # None /\ server.roster[j].to
               THEN <<Presence(j, "full", j \notin server.online)>> ELSE <<>>)

Outside(j) ==
  /\ Contact(j) \/ Adds(j, "another") \/ Removes(j)
  /\ UNCHANGED <<account, heap, behind>>

(* An account from the settings, which may connect at once, or from the form. *)
Init ==
  /\ \E handlers, startup \in BOOLEAN :
       LET node == [startup |-> startup, edited |-> FALSE]
           a    == [conn |-> "closed", status |-> "Inactive", node |-> node,
                    saved |-> node, handlers |-> handlers]
       IN  account \in IF startup THEN Opened(a) ELSE {a}
  /\ heap = None /\ inbox = <<>> /\ behind = {}
  /\ server = [roster |-> [j \in Jids |-> None], online |-> {}]

User ==
  \/ enable \/ disable \/ on_edit_form_submitted \/ remove
  \/ \E j \in Jids : \/ add_item_form_submitted(j) \/ ask_to(j)
                     \/ stop_to(j) \/ remove_presentity(j)
                     \/ edit_presentity_form_submitted(j)

Next ==
  \/ User
  \/ on_connection_opened \/ on_authenticate \/ on_disconnected \/ Stanza
  \/ \E j \in Jids : Outside(j)

Spec == Init /\ [][Next]_vars

-----------------------------------------------------------------------------
(* Properties *)

(* There is a roster exactly while there is a connection, through what the  *)
(* user, the network and the server do to it; and once all that came was    *)
(* handled, it shows the contacts that the account has at the server,       *)
(* whichever program added, edited or removed them, and the programs of a   *)
(* contact (his full resource) exactly while he is there and lets us see    *)
(* him.  Nothing is said of the presence that his bare address leaves when  *)
(* he grants or refuses (PresenceIsTheirs below), nor of an account that    *)
(* was made from the form: it registers no handlers, and sees the first     *)
(* roster and nothing more.                                                 *)
RosterIsTheServers ==
  /\ (account.conn = "up") = (heap # None)
  /\ heap # None /\ account.handlers /\ inbox = <<>> =>
       /\ heap.items = server.roster
       /\ {j \in Jids : "full" \in heap.infos[j]}
            = {j \in server.online : server.roster[j] # None /\ server.roster[j].to}

(* loudmouth-heap-roster.h:128, of asking a contact that was added: "*but*  *)
(* we don't want to do that if that was done from another client".  Not     *)
(* kept: adding somebody who is in the roster already stays noted, until he *)
(* is added again, by whichever program.                                    *)
OnlyMineAreAsked == behind = {}

(* presentity.h:68, "Returns the presence of the Presentity".  Not kept: a  *)
(* contact who grants or refuses is taken to be there, for ever.            *)
PresenceIsTheirs ==
  heap # None /\ inbox = <<>> =>
    \A j \in Jids : heap.infos[j] # {} => j \in server.online

(* What the user changed in the form is in the settings.  Not kept where    *)
(* the form leaves the account disabled: that is saved before the change.   *)
EditIsSaved == account.conn # "removed" => account.saved = account.node
=============================================================================
