--------------------------- MODULE MCVideoOutput ----------------------------
(***************************************************************************)
(* Model checking VideoOutput.  `part` chooses between three instances:    *)
(* "pip", the video of both parties and the preview, in one size and in    *)
(* both views; "sizes", the video of the remote party and the preview, in  *)
(* two sizes; and "kinds", where extended video comes with them, for the   *)
(* safety properties.                                                      *)
(***************************************************************************)
EXTENDS VideoOutput

VARIABLE part

all == <<part, vars>>

P == INSTANCE VideoOutput WITH Sizes <- {"cif"}
Z == INSTANCE VideoOutput WITH Kinds <- {"remote"}, Views <- {"pip"}
E == INSTANCE VideoOutput WITH
       Kinds <- AllKinds, Sizes <- {"cif"}, Views <- {"pip"}

MCInit ==
  \/ part = "pip" /\ P!Init
  \/ part = "sizes" /\ Z!Init
  \/ part = "kinds" /\ E!Init

MCNext ==
  /\ \/ part = "pip" /\ P!Next
     \/ part = "sizes" /\ Z!Next
     \/ part = "kinds" /\ E!Next
  /\ UNCHANGED part

(* The fairness of VideoOutput, for the first two. *)
Fair(A) == part # "kinds" /\ A /\ UNCHANGED part

PartSizes == IF part = "sizes" THEN Sizes ELSE {"cif"}

MCSpec ==
  /\ MCInit /\ [][MCNext]_all
  /\ WF_all(Fair(Wakes)) /\ WF_all(Fair(Initialises)) /\ WF_all(Fair(Draws))
  /\ WF_all(Fair(Uninitialises)) /\ WF_all(Fair(Returns))
  /\ WF_all(Fair(\E s \in PartSizes : StoreFrame("opal", s)))
  /\ WF_all(Fair(\E s \in PartSizes : StoreFrame("preview", s)))
  /\ SF_all(Fair(PreviewFrame))
  /\ \A k \in Kinds : SF_all(Fair(k \in active /\ SetFrameData(k)))
  /\ SF_all(Fair(preview /\ DestroyDisplay("local")))
  /\ WF_all(Fair(DrawCallWindow))

(* Whoever waits for the thread is answered, and the thread ends when asked. *)
OperationsReturnOfParts == part # "kinds" => OperationsReturn

(* While the users, the view and the windows stay as they are, the pictures *)
(* are shown again and again, whatever order the frames come in.            *)
PicturesAreShown == part # "kinds" => FramesAreShown
=============================================================================
