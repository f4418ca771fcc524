---------------------------- MODULE CallSignals ----------------------------
(***************************************************************************)
(* What a client of Ekiga::CallCore (main window, call window, call        *)
(* history, libnotify) may rely on: for every call, the order in which the *)
(* per-call signals of call-core.h are emitted, and what the direction of  *)
(* the call has to do with it.                                             *)
(*                                                                         *)
(* This is the abstract specification; OpalCall implements it with the     *)
(* OPAL threads, the main loop's queue and CallCore's connections.         *)
(***************************************************************************)

CONSTANT Calls          \* the calls of a run

VARIABLES
  told,         \* the last signal that the clients were given for the call
  outgoing      \* is_outgoing of the calls that were announced

vars == <<told, outgoing>>

(* A client may still act on these calls... *)
Live == {"setup", "ringing", "established", "held"}

(* ...and on these no longer: each call ends with exactly one of the two. *)
Over == {"cleared", "missed"}

Told == {"nothing"} \cup Live \cup Over

Init ==
  /\ told = [c \in Calls |-> "nothing"]
  /\ outgoing = [c \in Calls |-> FALSE]

(* The direction is settled when the call is announced, and never changes. *)
Setup(c) ==
  /\ told[c] = "nothing"
  /\ told' = [told EXCEPT ![c] = "setup"]
  /\ \E out \in BOOLEAN : outgoing' = [outgoing EXCEPT ![c] = out]

Tell(c, before, signal) ==
  /\ told[c] \in before
  /\ told' = [told EXCEPT ![c] = signal]
  /\ UNCHANGED outgoing

(* Only the remote party of an outgoing call rings. *)
Ringing(c)     == outgoing[c] /\ Tell(c, {"setup", "ringing"}, "ringing")
Established(c) == Tell(c, {"setup", "ringing"}, "established")
Held(c)        == Tell(c, {"established", "held"}, "held")
Retrieved(c)   == Tell(c, {"established", "held"}, "established")
Cleared(c)     == Tell(c, Live, "cleared")

(* A missed call came in, was announced and never got any further. *)
Missed(c)      == ~outgoing[c] /\ Tell(c, {"setup"}, "missed")

Next == \E c \in Calls :
          \/ Setup(c) \/ Ringing(c) \/ Established(c)
          \/ Held(c) \/ Retrieved(c)
          \/ Cleared(c) \/ Missed(c)

Spec == Init /\ [][Next]_vars
=============================================================================
