------------------------------- MODULE People -------------------------------
(***************************************************************************)
(* Who is there, from three sources: Presence, with the local roster and   *)
(* the accounts of OPAL; the roster of a Jabber account; and a resource    *)
(* list on an XCAP server.  They have no variable in common.  What is said *)
(* of the last two here is checked in MCPeople, and proved in              *)
(* People_proofs.                                                          *)
(***************************************************************************)
EXTENDS Presence

CONSTANTS Jids, MaxInbox, ListUris, MaxPending, MaxInterest

VARIABLES
  jabber, heap, inbox, server, behind,
  document, shown, pending, interest, complete, revived

J == INSTANCE Jabber WITH account <- jabber

R == INSTANCE ResourceList WITH Uris <- ListUris

ASSUME PeopleAssumption == J!JabberAssumption /\ R!ResourceListAssumption

(* The heap of a Jabber account is there exactly while it is connected, and *)
(* shows the contacts that the server has, whichever program changed them,  *)
(* and their programs while they are there: of an account of the settings,  *)
(* and not of what the bare address of a contact leaves                     *)
(* (LM::HeapRoster::parse_roster, LM::Cluster::handle_down).                *)
RosterIsTheServers == J!RosterIsTheServers

(* When all requests are answered, in whatever order, and the newest read   *)
(* went well, no entry of the document is missing (RL::Heap::refresh).      *)
NothingIsMissing == R!NothingIsMissing

(* loudmouth-heap-roster.h:128: "*but* we don't want to do that if that was *)
(* done from another client", of asking a contact to show its presence.     *)
OnlyMineAreAsked == J!OnlyMineAreAsked
=============================================================================
