----------------------------- MODULE MCOpalCall -----------------------------
(***************************************************************************)
(* Model checking OpalCall.  `part` chooses between two instances: "two",  *)
(* two calls that share the main loop, for the safety properties, and      *)
(* "one", where the second call is never made and the first is alone with  *)
(* the fairness of OpalCall, for its end.  Of two calls c1 is made first:  *)
(* nothing else tells them apart.                                          *)
(***************************************************************************)
EXTENDS OpalCall

CONSTANTS c1, c2

VARIABLE part

all == <<part, vars>>

One(A) == part = "one" /\ A /\ origin'[c2] = "none" /\ UNCHANGED part
Two(A) == /\ part = "two" /\ A /\ UNCHANGED part
          /\ origin'[c1] = "none" => origin'[c2] = "none"

MCInit == part \in {"one", "two"} /\ Init
MCNext == One(Next) \/ Two(Next)

MCSpec ==
  /\ MCInit /\ [][MCNext]_all
  /\ WF_all(One(dispatchLive))
  /\ WF_all(One(OnIncomingConnection(c1)))
  /\ WF_all(One(OnSetUp(c1)))
  /\ WF_all(One(OnSetUpDone(c1)))
  /\ WF_all(One(OnCleared(c1)))
  /\ WF_all(One(OnClearedDone(c1)))

(* A call alone that ends is reported to the clients as over, whatever the  *)
(* moment of its end: OnCleared's wait loop ends, and the main loop gets to  *)
(* the closure, unless OPAL refused the call or deleted it before that.      *)
EndIsReportedOfOne == part = "one" => EndIsReported
=============================================================================
