------------------------------ MODULE MCPeople ------------------------------
(***************************************************************************)
(* Model checking the rosters: Presence in two instances, "steady", where  *)
(* contacts and a chat come and go and the one account is there from the   *)
(* start, and "edited", where a contact is edited, also to the uri of the  *)
(* other, and a second account is added at some time; the Jabber account   *)
(* with one contact; and a resource list of one entry.  Each behaviour is  *)
(* one of a single `part`, while the others rest.                          *)
(***************************************************************************)
EXTENDS People

CONSTANTS u1, u2, a1, a2, o1

VARIABLE part

roster == <<jabber, heap, inbox, server, behind>>
list   == <<document, shown, pending, interest, complete, revived>>
all    == <<part, vars, roster, list>>

MCUrisOf == [a \in Accounts |-> IF a = a1 THEN {u1, u2} ELSE {u2}]
MCNotifications == {<<"Available", "note">>, <<"NoPresence", "">>}

S == INSTANCE Presence WITH Editable <- {}

Parts == {"steady", "edited", "jabber", "list"}

(* The second account is never added. *)
Steady(A) == /\ part = "steady" /\ A /\ account'[a2] = None
             /\ UNCHANGED <<part, roster, list>>

(* There is no chat; and a smaller bound. *)
Edited(A) == /\ part = "edited" /\ A
             /\ presentity'[o1] = None /\ Len(queue') <= 2
             /\ UNCHANGED <<part, roster, list>>

Jabber(A) == part = "jabber" /\ A /\ UNCHANGED <<part, vars, list>>
List(A)   == part = "list" /\ A /\ UNCHANGED <<part, vars, roster>>

(* What rests begins in one of its initial states. *)
PeopleInit ==
  /\ part \in Parts
  /\ Init   /\ (part \in {"jabber", "list"} => saved = [c \in Contacts |-> None])
  /\ J!Init /\ (part # "jabber" => jabber.handlers /\ ~jabber.node.startup)
  /\ R!Init /\ (part # "list" => document = {})

PeopleNext == Steady(S!Next) \/ Edited(Next) \/ Jabber(J!Next) \/ List(R!Next)

PeopleSpec == PeopleInit /\ [][PeopleNext]_all
=============================================================================
