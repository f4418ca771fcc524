---------------------------- MODULE MCVideoInput ----------------------------
(* Model checking VideoInput: two cameras of one manager, the moving logo of *)
(* another.                                                                  *)
EXTENDS VideoInput, TLC

CONSTANTS camera1, camera2, logo, ptlib, mlogo

MCManagerOf == camera1 :> ptlib @@ camera2 :> ptlib @@ logo :> mlogo
=============================================================================
