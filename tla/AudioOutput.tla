----------------------------- MODULE AudioOutput -----------------------------
(***************************************************************************)
(* Ekiga::AudioOutputCore: a primary device, for the stream of a call and  *)
(* for sounds, and a secondary one for sounds only, each with a mutex.     *)
(* The user interface, the thread of the stream and the scheduler of the   *)
(* sounds meet here.  PMutex lets a thread lock a mutex that it holds, and *)
(* is not fair: `yield` is how the others get in while a stream is on.     *)
(***************************************************************************)
EXTENDS Sequences, FiniteSets

CONSTANTS
  Devices,      \* what the PTLIB manager offers
  Fallback,     \* the silent device, of the manager "null"
  Unknown,      \* a device of the settings that no manager takes
  None          \* no device, no operation, nobody

PS      == {"primary", "secondary"}
Threads == {"ui", "stream", "scheduler"}

AudioOutputAssumption ==
  /\ Fallback \notin Devices \cup {Unknown, None}
  /\ Unknown \notin Devices \cup {None} /\ None \notin Devices
  /\ None \notin Threads \cup {"PTLIB", "null"}

VARIABLES
  core,         \* current_device, what each manager has open, whether the
                \* primary device is `active`, and desired_primary_device
  core_mutex,   \* of each mutex: the thread that holds it, or None
  op,           \* of "ui" and "stream": the operation that was called, with
                \* the mutexes that it has yet to lock
  yield,
  streaming,    \* the stream: "off", "on", or "asleep" in set_frame_data
  play,         \* the scheduler: how far play_buffer is, and the device
  end_thread

vars == <<core, core_mutex, op, yield, streaming, play, end_thread>>

Known == Devices \cup {Fallback}

(* current_manager is null where there is no current_device. *)
ManagerOf(d) == CASE d = Fallback  -> "null"
                  [] d \in Devices -> "PTLIB"
                  [] OTHER         -> None

LocksOf ==
  [set_primary_device   |-> <<"secondary", "primary">>,
   set_secondary_device |-> <<"secondary">>,
   add_device    |-> <<"primary">>,
   remove_device |-> <<"primary">>,
   get_devices   |-> <<"primary", "secondary">>,
   destroy       |-> <<"primary", "secondary">>,
   start           |-> <<"primary">>,
   stop            |-> <<"primary">>,
   set_buffer_size |-> <<"primary">>,
   set_frame_data  |-> <<"primary">>]

Ops ==
  [name : DOMAIN LocksOf, device : Known \cup {Unknown, None},
   locks : {<<>>, <<"primary">>, <<"secondary">>,
            <<"primary", "secondary">>, <<"secondary", "primary">>}]

TypeOK ==
  /\ core \in [device  : [PS -> Known \cup {None}],
               opened  : SUBSET ({"PTLIB", "null"} \X PS),
               active  : BOOLEAN,
               desired : Known \cup {None}]
  /\ core_mutex \in [PS -> Threads \cup {None}]
  /\ op \in [{"ui", "stream"} -> Ops \cup {None}]
  /\ streaming \in {"off", "on", "asleep"}
  /\ play \in [ps : PS, stage : {"resting", "locking", "playing", "ended"}]
  /\ yield \in BOOLEAN /\ end_thread \in BOOLEAN

-----------------------------------------------------------------------------
(* The devices.  Each operator gives what becomes of core, or, where        *)
(* opening a device may fail, the set of what may become of it.             *)

Takes(k, ps, d) == [k EXCEPT !.device[ps] = d]

(* When no manager takes the primary device, the fallback replaces it, which *)
(* one always takes; without a manager there is no secondary device.        *)
internal_set_manager(k, ps, d) ==
  Takes(k, ps, CASE ManagerOf(d) # None -> d
                 [] ManagerOf(d) = None /\ ps = "primary"   -> Fallback
                 [] ManagerOf(d) = None /\ ps = "secondary" -> None)

internal_set_primary_fallback(k) ==
  internal_set_manager(k, "primary", Fallback)

internal_close(k, ps) ==
  [k EXCEPT !.opened = @ \ {<<ManagerOf(k.device[ps]), ps>>}]

Opened(k, ps) ==
  [k EXCEPT !.opened = @ \cup {<<ManagerOf(k.device[ps]), ps>>}]

(* Opening may fail, but not for the fallback. *)
internal_open(k, ps) ==
  IF k.device[ps] = None THEN {k} ELSE
    {Opened(k, ps)} \cup
      CASE k.device[ps] = Fallback -> {}
        [] k.device[ps] # Fallback /\ ps = "primary" ->
             {Opened(internal_set_primary_fallback(k), ps)}
        [] k.device[ps] # Fallback /\ ps = "secondary" -> {k}

ClosedIfActive(k) == IF k.active THEN internal_close(k, "primary") ELSE k

ReopenedIfActive(k) == IF k.active THEN internal_open(k, "primary") ELSE {k}

(* No mutex is taken here: the caller holds the primary one. *)
SecondaryMadeFree(k, d) ==
  IF d = k.device["secondary"] THEN Takes(k, "secondary", None) ELSE k

internal_set_primary_device(k, d) ==
  ReopenedIfActive(internal_set_manager(
    SecondaryMadeFree(ClosedIfActive(k), d), "primary", d))

-----------------------------------------------------------------------------
(* Calling an operation, locking its mutexes one by one, and returning      *)

Free(ps) == core_mutex[ps] = None

(* The user interface waits for a mutex that it could have.  A thread that  *)
(* sleeps for some milliseconds, or is between two streams, goes on later.  *)
UiCouldLock ==
  op["ui"] # None /\ op["ui"].locks # <<>> /\ Free(Head(op["ui"].locks))

Call(t, name, d) ==
  /\ op[t] = None
  /\ op' = [op EXCEPT ![t] =
              [name |-> name, device |-> d, locks |-> LocksOf[name]]]
  /\ UNCHANGED <<core, core_mutex, play>>

(* A mutation: set_device says `yield` only before its first mutex. *)
LockWithoutYield(t) ==
  /\ op[t] # None /\ op[t].locks # <<>>
  /\ LET ps == Head(op[t].locks) IN
     /\ Free(ps)
     /\ core_mutex' = [core_mutex EXCEPT ![ps] = t]
     /\ op' = [op EXCEPT ![t].locks = Tail(@)]
  /\ UNCHANGED <<core, yield, streaming, play, end_thread>>

(* The primary case of set_device says `yield` again once it has the first. *)
Lock(t) ==
  /\ op[t] # None /\ op[t].locks # <<>>
  /\ LET ps == Head(op[t].locks) IN
     /\ Free(ps)
     /\ core_mutex' = [core_mutex EXCEPT ![ps] = t]
     /\ op' = [op EXCEPT ![t].locks = Tail(@)]
     /\ yield' = (yield \/ (op[t].name = "set_primary_device"
                            /\ ps = "secondary"))
  /\ UNCHANGED <<core, streaming, play, end_thread>>

(* The operation has all its mutexes; it gives them back. *)
Returns(t, name) ==
  /\ op[t] # None /\ op[t].name = name /\ op[t].locks = <<>>
  /\ op' = [op EXCEPT ![t] = None]
  /\ core_mutex' = [ps \in PS |-> IF Free(ps) \/ core_mutex[ps] # t
                                    THEN core_mutex[ps] ELSE None]
  /\ UNCHANGED <<yield, play, end_thread>>

-----------------------------------------------------------------------------
(* The user interface: settings, HAL, the list of devices, the destructor   *)

CallsUi ==
  /\ ~end_thread
  /\ \/ \E d \in Known :
          Call("ui", "set_primary_device", d) /\ yield' = TRUE
     \/ \E d \in Known \cup {Unknown} :
          Call("ui", "set_secondary_device", d) /\ yield' = TRUE
     \/ \E d \in Devices, name \in {"add_device", "remove_device"} :
          Call("ui", name, d) /\ yield' = TRUE
     \/ Call("ui", "get_devices", None) /\ yield' = TRUE
     \/ streaming = "off" /\ Call("ui", "destroy", None) /\ UNCHANGED yield
  /\ UNCHANGED <<streaming, end_thread>>

set_primary_device ==
  /\ Returns("ui", "set_primary_device")
  /\ \E k \in internal_set_primary_device(core, op["ui"].device) :
       core' = [k EXCEPT !.desired = op["ui"].device]
  /\ UNCHANGED streaming

set_secondary_device ==
  /\ Returns("ui", "set_secondary_device")
  /\ core' = IF op["ui"].device = core.device["primary"]
               THEN Takes(core, "secondary", None)
               ELSE internal_set_manager(core, "secondary", op["ui"].device)
  /\ UNCHANGED streaming

add_device ==
  /\ Returns("ui", "add_device")
  /\ core' \in IF core.desired = op["ui"].device
                 THEN internal_set_primary_device(core, core.desired)
                 ELSE {core}
  /\ UNCHANGED streaming

remove_device ==
  /\ Returns("ui", "remove_device")
  /\ core' \in IF op["ui"].device = core.device["primary"] /\ core.active
                 THEN internal_set_primary_device(core, Fallback)
                 ELSE {core}
  /\ UNCHANGED streaming

get_devices == Returns("ui", "get_devices") /\ UNCHANGED <<core, streaming>>

(* quit tells the thread to end, and waits for it with both mutexes locked. *)
quit ==
  /\ op["ui"] # None /\ op["ui"].name = "destroy" /\ op["ui"].locks = <<>>
  /\ ~end_thread /\ end_thread' = TRUE
  /\ UNCHANGED <<core, core_mutex, op, yield, streaming, play>>

destroy ==
  /\ end_thread /\ play.stage = "ended"
  /\ Returns("ui", "destroy")
  /\ UNCHANGED <<core, streaming>>

-----------------------------------------------------------------------------
(* The stream of a call, through PSoundChannel_EKIGA *)

CallsStream ==
  /\ ~UiCouldLock
  /\ ~end_thread /\ ~(op["ui"] # None /\ op["ui"].name = "destroy")
  /\ \/ streaming = "off" /\ Call("stream", "start", None)
     \/ /\ streaming = "on"
        /\ \/ Call("stream", "stop", None)
           \/ Call("stream", "set_buffer_size", None)
  /\ yield' = TRUE
  /\ UNCHANGED <<streaming, end_thread>>

start ==
  /\ Returns("stream", "start")
  /\ streaming' = "on"
  /\ IF core.active THEN UNCHANGED core ELSE
       \E k \in internal_open(
           internal_set_manager(core, "primary", core.desired), "primary") :
         core' = [k EXCEPT !.active = TRUE]

(* A mutation: the device is set before the open one is closed. *)
StopSetsFirst ==
  /\ Returns("stream", "stop")
  /\ streaming' = "off"
  /\ core' = [internal_close(
                internal_set_manager(core, "primary", core.desired), "primary")
                EXCEPT !.active = FALSE]

stop ==
  /\ Returns("stream", "stop")
  /\ streaming' = "off"
  /\ core' = [internal_set_manager(
                internal_close(core, "primary"), "primary", core.desired)
                EXCEPT !.active = FALSE]

(* The sizes of the buffers are not in the model. *)
set_buffer_size ==
  Returns("stream", "set_buffer_size") /\ UNCHANGED <<core, streaming>>

(* set_frame_data lets the others pass if they asked for it, before it locks *)
(* the mutex.                                                               *)
Yields ==
  /\ streaming = "on" /\ op["stream"] = None /\ yield
  /\ yield' = FALSE /\ streaming' = "asleep"
  /\ UNCHANGED <<core, core_mutex, op, play, end_thread>>

WritesOn ==
  /\ \/ streaming = "on" /\ ~yield
     \/ streaming = "asleep" /\ ~UiCouldLock
  /\ Call("stream", "set_frame_data", None)
  /\ streaming' = "on"
  /\ UNCHANGED <<yield, end_thread>>

(* The device takes the frame, or the fallback replaces it and does. *)
set_frame_data ==
  /\ Returns("stream", "set_frame_data")
  /\ \/ UNCHANGED core
     \/ /\ core.device["primary"] \in Devices
        /\ core' \in internal_open(
             internal_set_primary_fallback(internal_close(core, "primary")),
             "primary")
  /\ UNCHANGED streaming

-----------------------------------------------------------------------------
(* The scheduler's thread *)

Scheduler(ps, stage) ==
  /\ play' = [ps |-> ps, stage |-> stage]
  /\ UNCHANGED <<op, yield, streaming, end_thread>>

Has(mutexes) == core_mutex' = [ps \in PS |->
  CASE ps \in mutexes -> "scheduler"
    [] ps \notin mutexes /\ core_mutex[ps] = "scheduler" -> None
    [] OTHER -> core_mutex[ps]]

play_buffer ==
  /\ play.stage = "resting" /\ ~UiCouldLock
  /\ \E ps \in PS : Scheduler(ps, "locking")
  /\ UNCHANGED <<core, core_mutex>>

(* A mutation: a sound is played while a stream has the device. *)
PlaysAnyway(ps) == core.device[ps] # None

Plays(ps) == core.device[ps] # None /\ (ps = "primary" => ~core.active)

(* The sound begins, is dropped, or is tried on the primary device. *)
play_buffer_locks ==
  /\ play.stage = "locking" /\ Free(play.ps)
  /\ \/ /\ Plays(play.ps)
        /\ core' \in internal_open(core, play.ps)
        /\ IF <<ManagerOf(core'.device[play.ps]), play.ps>> \in core'.opened
             THEN Scheduler(play.ps, "playing") /\ Has({play.ps})
             ELSE Scheduler("primary", "resting") /\ Has({})
     \/ /\ ~Plays(play.ps) /\ play.ps = "secondary"
        /\ Scheduler("primary", "locking") /\ UNCHANGED <<core, core_mutex>>
     \/ /\ ~Plays(play.ps) /\ play.ps = "primary"
        /\ Scheduler("primary", "resting") /\ UNCHANGED <<core, core_mutex>>

(* internal_play has written the last piece: nothing is closed if the       *)
(* manager is gone.                                                        *)
PlayEnds ==
  /\ play.stage = "playing"
  /\ core' = internal_close(core, play.ps)
  /\ Scheduler("primary", "resting") /\ Has({})

Ends ==
  /\ play.stage = "resting" /\ end_thread
  /\ Scheduler("primary", "ended")
  /\ UNCHANGED <<core, core_mutex>>

-----------------------------------------------------------------------------
Init ==
  /\ core = [device |-> [ps \in PS |-> None], opened |-> {},
             active |-> FALSE, desired |-> None]
  /\ core_mutex = [ps \in PS |-> None]
  /\ op = [t \in {"ui", "stream"} |-> None]
  /\ yield = FALSE /\ streaming = "off"
  /\ play = [ps |-> "primary", stage |-> "resting"]
  /\ end_thread = FALSE

UiStep ==
  \/ Lock("ui") \/ set_primary_device \/ set_secondary_device \/ add_device
  \/ remove_device \/ get_devices \/ quit \/ destroy

StreamStep ==
  \/ Lock("stream") \/ start \/ stop \/ set_buffer_size \/ set_frame_data

SchedulerStep == play_buffer_locks \/ PlayEnds \/ Ends

Next ==
  \/ UiStep \/ CallsUi
  \/ StreamStep \/ CallsStream \/ Yields \/ WritesOn
  \/ SchedulerStep \/ play_buffer

Spec == Init /\ [][Next]_vars

(* Every thread goes on with what it has begun; a sound comes to its end.   *)
(* Nobody has to call anything, and a thread that competes for a mutex may  *)
(* lose every time.                                                         *)
Fairness ==
  WF_vars(UiStep) /\ WF_vars(StreamStep \/ Yields) /\ WF_vars(SchedulerStep)

FairSpec == Spec /\ Fairness

-----------------------------------------------------------------------------
(* Properties *)

(* Between two operations the primary device is open exactly while a stream *)
(* is on, by the manager that it belongs to and by no other, whatever was   *)
(* set, added or removed meanwhile, and whatever failed.                    *)
PrimaryMatchesItsUse ==
  Free("primary") =>
    {m \in {"PTLIB", "null"} : <<m, "primary">> \in core.opened} =
      IF core.active THEN {ManagerOf(core.device["primary"])} ELSE {}

(* A stream has the primary device for itself: a sound neither begins on it *)
(* meanwhile, nor is still played when the stream starts.                   *)
NoSoundOverAStream ==
  core.active => ~(play.stage = "playing" /\ play.ps = "primary")

(* What the user interface calls returns, although mutexes are not fair and *)
(* a stream locks the primary one again and again.                          *)
OperationsReturn ==
  (op["ui"] # None /\ op["ui"].name # "destroy") ~> op["ui"] = None

(* audiooutput-core.h:62, of the core: "abstracts all functionality        *)
(* related to audio output in a thread safe manner": internal_play goes    *)
(* through current_manager for every piece of a sound, so it must not      *)
(* become null.  Not kept: add_device and remove_device clear it without   *)
(* the mutex that internal_play holds.                                     *)
NoNullManager == play.stage = "playing" => core.device[play.ps] # None

(* audiooutput-scheduler.cpp:62, of quit: "Wait for the Main () method to  *)
(* be terminated".  Not kept when the destructor of the core calls it:     *)
(* that holds both mutexes, and Main may be about to lock one.             *)
ThreadIsTerminated ==
  end_thread ~> play.stage = "ended"
=============================================================================
