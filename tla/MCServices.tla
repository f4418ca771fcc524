----------------------------- MODULE MCServices -----------------------------
(***************************************************************************)
(* Model checking four parts of the engine: the start, in which some       *)
(* sparks and a plug-in wait for each other and for the user interface;    *)
(* what Opal::CallManager finds out about NAT; its list of codecs; and an  *)
(* address book in a directory.  They have no variable in common, so each  *)
(* behaviour here is one of a single `part`, while the others rest.        *)
(***************************************************************************)
EXTENDS Services, SequencesExt

CONSTANTS a1, a2, u1, v1, w1, e1, e2

VARIABLE part

(* Any selection of codecs, in any order; ticked, but for one. *)
Lists(names, off) ==
  {[i \in DOMAIN s |-> [name |-> s[i], active |-> s[i] # off]] :
     s \in UNION {SetToSeqs(set) : set \in SUBSET names}}

Needing(needs, adds) == [needs |-> needs, adds |-> adds]

MCStages ==
  [LOCALROSTER       |-> <<Needing({"presence-core"}, {"local-cluster"})>>,
   LOCALROSTERBRIDGE |-> <<Needing({"local-cluster", "contact-core"},
                                   {"local-roster-bridge"})>>,
   KDE               |-> <<Needing({}, {"kde-core"})>>,
   KAB               |-> <<Needing({"kde-core", "contact-core"}, {})>>,
   PLUGIN            |-> <<Needing({"local-roster-bridge"}, {"plugin"}),
                           Needing({"plugin", "gtk-frontend"}, {})>>]

MCSparks == DOMAIN MCStages

MCCodecs == <<a1, v1, a2>>
MCStored == [audio : Lists({a1, a2, u1}, a2), video : Lists({w1}, v1)]

MCMatching == [first |-> {e1}, both |-> {e1, e2}]

stun  == <<stun_enabled, stun_thread, detector, queue, patience, polls, reports,
           program, awaited, untold>>
codec == <<media_list, notified, codecs, box>>
kick  == <<done, gui, disabled, step, phase, blanks, partials, temp, went_on>>
all   == <<part, stun, codec, kick, book>>

(* What rests begins in one of its initial states. *)
ServicesInit ==
  /\ part \in {"stun", "codecs", "start", "book"}
  /\ D!Init
  /\ C!Init /\ (part # "codecs" => media_list = [t \in C!Types |-> <<>>])
  /\ K!Init /\ (part # "start" => /\ disabled = Sparks
                                 /\ blanks = SetToSeq(Sparks))
  /\ Init /\ (part # "book" => book.filter = "both" /\ book.sasl)

StunOf(A)   == part = "stun"   /\ A /\ UNCHANGED <<part, codec, kick, book>>
CodecsOf(A) == part = "codecs" /\ A /\ UNCHANGED <<part, stun, kick, book>>
StartOf(A)  == part = "start"  /\ A /\ UNCHANGED <<part, stun, codec, book>>
BookOf(A)   == part = "book"   /\ A /\ UNCHANGED <<part, stun, codec, kick>>

ServicesNext ==
  StunOf(D!Next) \/ CodecsOf(C!Next) \/ StartOf(K!Next) \/ BookOf(Next)

(* Fair as in the specifications of the parts. *)
ServicesSpec ==
  /\ ServicesInit /\ [][ServicesNext]_all
  /\ WF_all(\/ StunOf(D!HandleSTUNResult) \/ CodecsOf(C!on_property_changed("audio"))
            \/ StartOf(K!Next) \/ BookOf(Timer))
  /\ WF_all(StunOf(D!ReportSTUNError) \/ CodecsOf(C!on_property_changed("video")))
  /\ WF_all(StunOf(D!MainWindow))

(* The start comes to its end, whatever the sparks need of each other; so   *)
(* does each search of the book, even if the directory never answers; and   *)
(* the bridge, which answers its own writes, comes to rest.                 *)
WhatIsBegunEnds ==
  /\ part = "start" => K!KickEnds
  /\ part = "codecs" => C!BridgeSettles
  /\ SearchEnds
=============================================================================
