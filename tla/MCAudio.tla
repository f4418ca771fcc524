------------------------------ MODULE MCAudio -------------------------------
(***************************************************************************)
(* Model checking the audio: the scheduler of the sounds with a ring tone  *)
(* and a sound file, the output core with a headset, the silent device and *)
(* one that nobody knows, and the input core with two microphones and the  *)
(* silent one.  The three models have no variable in common, so that how   *)
(* their steps are shuffled changes nothing for any of them: each          *)
(* behaviour here is one of a single `part`, while the others rest.        *)
(***************************************************************************)
EXTENDS Audio

CONSTANTS ring_tone_sound

VARIABLE part

MCDevice == [n \in {ring_tone_sound} |-> "primary"]
MCTimes  == [n \in {ring_tone_sound} |-> 3]

scheduler == <<event_list, event_file_list, pending_event_list, scheduler_pc,
               sound, idle_time, run_thread, s_end>>
input  == <<in_core, in_mutex, in_op, in_yield, in_streaming>>

AudioInit ==
  /\ part \in {"scheduler", "output", "input"}
  /\ S!Init /\ Init /\ I!Init

SoundsOf(A) == part = "scheduler" /\ A /\ UNCHANGED <<part, vars, input>>
OutputOf(A) == part = "output"    /\ A /\ UNCHANGED <<part, scheduler, input>>
InputOf(A)  == part = "input"     /\ A /\ UNCHANGED <<part, vars, scheduler>>

AudioNext == SoundsOf(S!Next) \/ OutputOf(Next) \/ InputOf(I!Next)

all == <<part, vars, scheduler, input>>

(* Each thread of the part at work is fair, as in the specifications of the *)
(* parts: Main or the user interface, the clock or the stream, the player.  *)
AudioSpec ==
  /\ AudioInit /\ [][AudioNext]_all
  /\ WF_all(SoundsOf(S!Main) \/ OutputOf(UiStep) \/ InputOf(I!UiStep))
  /\ WF_all(SoundsOf(S!Tick) \/ OutputOf(StreamStep \/ Yields))
  /\ \A s \in Streams :
       WF_all(InputOf(I!StreamStep(s) \/ I!Yields(s) \/ I!ReadsOn(s)))
  /\ WF_all(OutputOf(SchedulerStep))

(* What the user interface calls of either core returns, however fast a     *)
(* stream locks and unlocks the mutex; and so does AudioEventScheduler's    *)
(* quit, though its thread may be in a wait that has no end, or be playing. *)
WhatIsAskedReturns ==
  OperationsReturn /\ I!OperationsReturn /\ S!QuitReturns
=============================================================================
