------------------------------- MODULE Audio --------------------------------
(***************************************************************************)
(* The audio of the program: the scheduler of the sounds, the output core  *)
(* that plays them and the input core, side by side, for any sounds,       *)
(* devices and streams.  The parts have no variable in common.  What is    *)
(* said of them here is checked in MCAudio, and proved in Audio_proofs.    *)
(***************************************************************************)
EXTENDS AudioOutput

CONSTANTS
  Events, Files, Device, Interval, Repetitions, MaxEvents, Never, Unmapped,
  Microphones, Silent, Streams

VARIABLES
  event_list, event_file_list, pending_event_list, scheduler_pc, sound,
  idle_time, run_thread, s_end,
  in_core, in_mutex, in_op, in_yield, in_streaming

S == INSTANCE AudioScheduler WITH end_thread <- s_end

I == INSTANCE AudioInput WITH
       Devices <- Microphones, Fallback <- Silent,
       core <- in_core, core_mutex <- in_mutex, op <- in_op,
       yield <- in_yield, streaming <- in_streaming

ASSUME AudioAssumption ==
  S!SchedulerAssumption /\ AudioOutputAssumption /\ I!AudioInputAssumption

(* A thread that sleeps on misses nothing that lies ahead                   *)
(* (AudioEventScheduler::get_time_to_next_event).                           *)
SleepsInTime == S!SleepsInTime

(* Sounds to be played once are taken out of the list, to be played         *)
(* (AudioEventScheduler::get_pending_event_list).                           *)
SinglesAreTaken == S!SinglesAreTaken

(* audiooutput-core.h:215, of start_play_event: "The event will be removed  *)
(* from the scheduler queue once it has been repeated "repetitions" times". *)
RepeatsUntilStopped == S!RepeatsUntilStopped

(* Between two operations the microphone is open exactly while a stream is  *)
(* on, by the manager that it belongs to (AudioInputCore).                  *)
MicrophoneMatchesItsUse == I!MicrophoneMatchesItsUse

(* A fallback lasts no longer than the stream in which a device failed or   *)
(* was unplugged (AudioInputCore::stop_stream).                             *)
DesiredBetweenStreams == I!DesiredBetweenStreams
=============================================================================
