--------------------------- MODULE AudioScheduler ---------------------------
(***************************************************************************)
(* Ekiga::AudioEventScheduler: a thread that plays sounds once or again    *)
(* and again, from a list that the main thread writes.  All times are      *)
(* relative to now, so that the clock has no bound: a Tick takes one from  *)
(* each.  Playing a sound takes as long as it takes.                       *)
(***************************************************************************)
EXTENDS Integers, FiniteSetsExt, SequencesExt

CONSTANTS
  Events,         \* the names of the sound events
  Files,          \* the names of sound files, which are played as they are
  Device,         \* of each event: the device that the bridge maps it to
  Interval,       \* of each: the time between two repetitions
  Repetitions,    \* of each: how often it is played (the code has 256)
  MaxEvents,      \* a bound: the entries in the list
  Never,          \* the idle_time without an end: 65535
  Unmapped        \* no file name for an event, no sound

PS == {"primary", "secondary"}

Names == Events \cup Files

SchedulerAssumption ==
  /\ Events \cap Files = {} /\ Device \in [Events -> PS]
  /\ \A n \in Events : Interval[n] \in 1 .. (Never - 1)
  /\ \A n \in Events : Repetitions[n] \in Nat \ {0}
  /\ MaxEvents \in Nat /\ Never \in Nat \ {0}

VARIABLES
  event_list,          \* the entries, oldest first
  event_file_list,     \* the device and the `enabled` of each event
  pending_event_list,  \* the names to be played now
  scheduler_pc,        \* how far Main is
  sound,               \* what play_buffer plays
  idle_time,           \* what is left of the wait
  run_thread,          \* the synchronisation point: signalled or not
  end_thread

vars == <<event_list, event_file_list, pending_event_list, scheduler_pc,
          sound, idle_time, run_thread, end_thread>>

(* An event whose time has passed: how long ago makes no difference. *)
Overdue == -1

Event(n) ==
  [name : {n}, interval : {0}, repetitions : {0}, time : {0, Overdue}]
    \cup
  IF n \in Files THEN {} ELSE
    [name : {n}, interval : {Interval[n]},
     repetitions : 1 .. Repetitions[n], time : Overdue .. Interval[n]]

TypeOK ==
  /\ \A i \in DOMAIN event_list :
       \E n \in Names : event_list[i] \in Event(n)
  /\ Len(event_list) <= MaxEvents
  /\ event_file_list \in
       [Events -> [ps : PS, enabled : BOOLEAN] \cup {Unmapped}]
  /\ pending_event_list \in Seq(Names)
  /\ scheduler_pc \in {"waiting", "woken", "loading", "playing", "ended"}
  /\ sound \in [name : Names, ps : PS] \cup {Unmapped}
  /\ sound = Unmapped <=> scheduler_pc # "playing"
  /\ idle_time \in 0 .. Never
  /\ run_thread \in BOOLEAN /\ end_thread \in BOOLEAN

-----------------------------------------------------------------------------
(* The main thread *)

(* A mutation: the thread is not told. *)
add_event_silently(n, interval, repetitions) ==
  /\ Len(event_list) < MaxEvents
  /\ event_list' = Append(event_list,
       [name |-> n, interval |-> interval,
        repetitions |-> repetitions, time |-> 0])
  /\ UNCHANGED run_thread

add_event_to_queue(n, interval, repetitions) ==
  /\ Len(event_list) < MaxEvents
  /\ event_list' = Append(event_list,
       [name |-> n, interval |-> interval,
        repetitions |-> repetitions, time |-> 0])
  /\ run_thread' = TRUE

play_event(n) ==
  /\ add_event_to_queue(n, 0, 0)
  /\ UNCHANGED <<event_file_list, pending_event_list, scheduler_pc, sound,
                 idle_time, end_thread>>

start_play_event(n) ==
  /\ add_event_to_queue(n, Interval[n], Repetitions[n])
  /\ UNCHANGED <<event_file_list, pending_event_list, scheduler_pc, sound,
                 idle_time, end_thread>>

play_file(n) ==
  /\ add_event_to_queue(n, 0, 0)
  /\ UNCHANGED <<event_file_list, pending_event_list, scheduler_pc, sound,
                 idle_time, end_thread>>

(* stop_play_event: the oldest entry with the name goes, and no other. *)
remove_event_from_queue(n) ==
  LET found == {i \in DOMAIN event_list : event_list[i].name = n} IN
  /\ found # {}
  /\ event_list' = RemoveAt(event_list, Min(found))
  /\ UNCHANGED <<event_file_list, pending_event_list, scheduler_pc, sound,
                 idle_time, run_thread, end_thread>>

(* A new mapping is to the secondary device, whatever was asked for. *)
set_file_name(n, enabled) ==
  /\ event_file_list' = [event_file_list EXCEPT ![n] =
       [ps      |-> IF @ = Unmapped THEN "secondary" ELSE Device[n],
        enabled |-> enabled]]
  /\ UNCHANGED <<event_list, pending_event_list, scheduler_pc, sound,
                 idle_time, run_thread, end_thread>>

quit ==
  /\ ~end_thread /\ end_thread' = TRUE
  /\ run_thread' = TRUE
  /\ UNCHANGED <<event_list, event_file_list, pending_event_list,
                 scheduler_pc, sound, idle_time>>

-----------------------------------------------------------------------------
(* The thread: Main *)

(* run_thread.Wait, with idle_time or without. *)
Wakes ==
  /\ scheduler_pc = "waiting"
  /\ run_thread \/ idle_time = 0
  /\ run_thread' = FALSE
  /\ scheduler_pc' = IF end_thread THEN "ended" ELSE "woken"
  /\ UNCHANGED <<event_list, event_file_list, pending_event_list, sound,
                 idle_time, end_thread>>

IsPending(e) == e.interval = 0 \/ e.time <= 0

IsKept(e) == e.interval > 0 /\ (e.time <= 0 => e.repetitions > 1)

(* An event that is played and kept is due again one interval from now. *)
Repeated(e) ==
  IF e.time <= 0
    THEN [e EXCEPT !.repetitions = @ - 1, !.time = e.interval] ELSE e

(* What the loop has kept of the list, after its first i entries. *)
new_event_list ==
  LET list[i \in 0 .. Len(event_list)] ==
        IF i = 0 THEN <<>>
          ELSE IF IsKept(event_list[i])
            THEN Append(list[i - 1], Repeated(event_list[i]))
            ELSE list[i - 1]
  IN  list[Len(event_list)]

get_pending_event_list ==
  /\ scheduler_pc = "woken"
  /\ LET pending == SelectSeq(event_list, IsPending) IN
     pending_event_list' = [i \in DOMAIN pending |-> pending[i].name]
  /\ event_list' = new_event_list
  /\ scheduler_pc' = "loading"
  /\ UNCHANGED <<event_file_list, sound, idle_time, run_thread, end_thread>>

(* The device and `enabled` of a name: files are on the primary device. *)
get_file_name(n) ==
  IF n \in Files THEN [ps |-> "primary", enabled |-> TRUE]
                 ELSE event_file_list[n]

(* The next sound is played, unless its event is disabled or not mapped, or *)
(* its file cannot be read.                                                *)
load_wav ==
  /\ scheduler_pc = "loading" /\ pending_event_list # <<>>
  /\ pending_event_list' = Tail(pending_event_list)
  /\ LET n == Head(pending_event_list) IN
     \/ /\ get_file_name(n) # Unmapped /\ get_file_name(n).enabled
        /\ sound' = [name |-> n, ps |-> get_file_name(n).ps]
        /\ scheduler_pc' = "playing"
     \/ UNCHANGED <<sound, scheduler_pc>>
  /\ UNCHANGED <<event_list, event_file_list, idle_time, run_thread, end_thread>>

play_buffer ==
  /\ scheduler_pc = "playing"
  /\ sound' = Unmapped /\ scheduler_pc' = "loading"
  /\ UNCHANGED <<event_list, event_file_list, pending_event_list, idle_time,
                 run_thread, end_thread>>

(* The difference has no sign: an overdue event is further than any other. *)
Ahead(e) == e.interval > 0 /\ e.time >= 0

(* A mutation: events that are due right now are left for later. *)
TimeToNextButNow ==
  Min({event_list[i].time : i \in {j \in DOMAIN event_list :
         Ahead(event_list[j]) /\ event_list[j].time > 0}} \cup {Never})

get_time_to_next_event ==
  Min({event_list[i].time :
         i \in {j \in DOMAIN event_list : Ahead(event_list[j])}} \cup {Never})

Rests ==
  /\ scheduler_pc = "loading" /\ pending_event_list = <<>>
  /\ idle_time' = get_time_to_next_event
  /\ scheduler_pc' = IF end_thread THEN "ended" ELSE "waiting"
  /\ UNCHANGED <<event_list, event_file_list, pending_event_list, sound,
                 run_thread, end_thread>>

Main == \/ Wakes \/ get_pending_event_list \/ load_wav
        \/ play_buffer \/ Rests

(* Time passes, for the events and for a wait that has an end. *)
Tick ==
  /\ event_list' = [i \in DOMAIN event_list |->
       [event_list[i] EXCEPT !.time = IF @ > Overdue THEN @ - 1 ELSE @]]
  /\ idle_time' = IF scheduler_pc = "waiting" /\ idle_time \in 1 .. (Never - 1)
                    THEN idle_time - 1 ELSE idle_time
  /\ UNCHANGED <<event_file_list, pending_event_list, scheduler_pc, sound,
                 run_thread, end_thread>>

-----------------------------------------------------------------------------
Init ==
  /\ event_list = <<>> /\ pending_event_list = <<>>
  /\ event_file_list = [n \in Events |-> Unmapped]
  /\ scheduler_pc = "waiting" /\ idle_time = Never
  /\ sound = Unmapped
  /\ run_thread = FALSE /\ end_thread = FALSE

(* The core does not call the scheduler any more once it has called quit. *)
Next ==
  \/ Main \/ Tick \/ quit
  \/ \E n \in Events :
       /\ ~end_thread
       /\ \/ play_event(n) \/ start_play_event(n) \/ remove_event_from_queue(n)
          \/ \E enabled \in BOOLEAN : set_file_name(n, enabled)
  \/ \E n \in Files : ~end_thread /\ play_file(n)

Spec == Init /\ [][Next]_vars

(* The thread runs, sounds come to an end, and time passes. *)
FairSpec == Spec /\ WF_vars(Main) /\ WF_vars(Tick)

-----------------------------------------------------------------------------
(* Properties *)

Asleep == scheduler_pc = "waiting" /\ ~run_thread

(* A thread that sleeps on misses nothing that lies ahead: no sound is     *)
(* there to be played once, and it wakes up in time for the next           *)
(* repetition.  An event that was added while the thread was busy is not   *)
(* slept through (the synchronisation point keeps the signal).             *)
SleepsInTime ==
  Asleep => \A i \in DOMAIN event_list :
              /\ event_list[i].interval > 0
              /\ Ahead(event_list[i]) => idle_time <= event_list[i].time

(* Sounds to be played once are taken out of the list, to be played. *)
SinglesAreTaken ==
  \A n \in Names :
    (\E i \in DOMAIN event_list :
       event_list[i].name = n /\ event_list[i].interval = 0)
      ~> \/ \A i \in DOMAIN event_list :
              event_list[i].name = n => event_list[i].interval > 0
         \/ end_thread

(* quit waits for the end of Main, and Main ends: at most the sounds that  *)
(* are pending are played before.                                          *)
QuitReturns == end_thread ~> scheduler_pc = "ended"

(* audiooutput-core.h:215, of start_play_event: "The event will be removed *)
(* from the scheduler queue once it has been repeated 'repetitions' times  *)
(* or if it has been removd from the queue via stop_play_event" -- so the  *)
(* thread does not sleep for ever while an event is still in the list.     *)
RepeatsUntilStopped ==
  Asleep /\ idle_time = Never => event_list = <<>>

(* audiooutput-core.h:178, of map_event: "ps whether the event shall be    *)
(* played on the primary or secondary device preferrably".  Not kept: the  *)
(* first mapping of an event is to the secondary device.                   *)
MappingIsAsAsked ==
  \A n \in Events :
    event_file_list[n] # Unmapped => event_file_list[n].ps = Device[n]
=============================================================================
