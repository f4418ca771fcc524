----------------------------- MODULE AudioInput -----------------------------
(***************************************************************************)
(* Ekiga::AudioInputCore: one microphone for the streams of the calls.     *)
(* The user interface and the threads of the streams meet at core_mutex,   *)
(* which is not fair: a stream lets the others pass only where `yield`     *)
(* asks for it.  The preview is not used by the program.                   *)
(***************************************************************************)
EXTENDS FiniteSets

CONSTANTS
  Devices,      \* what the PTLIB manager offers
  Fallback,     \* the silent device, of the manager "null"
  Streams,      \* the threads that read for a call
  None          \* no device, no operation, nobody

Threads == Streams \cup {"ui"}

AudioInputAssumption ==
  /\ Fallback \notin Devices \cup {None}
  /\ None \notin Devices \cup Threads \cup {"PTLIB", "null"}
  /\ "ui" \notin Streams

VARIABLES
  core,           \* current_device, the managers that have a device open,
                  \* stream_config.active, desired_device
  core_mutex,     \* the thread that holds it, or None
  op,             \* of each thread: the operation that was called
  yield,
  streaming       \* each stream: "off", "on", or "asleep" in get_frame_data

vars == <<core, core_mutex, op, yield, streaming>>

Known == Devices \cup {Fallback}

UiOps     == {"set_device", "add_device", "remove_device", "get_devices"}
StreamOps == {"start_stream", "stop_stream", "set_stream_buffer_size",
              "get_frame_data"}

TypeOK ==
  /\ core \in [device : Known \cup {None}, opened : SUBSET {"PTLIB", "null"},
               active : BOOLEAN, desired : Known \cup {None}]
  /\ core.active => core.device # None
  /\ core_mutex \in Threads \cup {None}
  /\ op \in [Threads -> {None} \cup
              [name : UiOps \cup StreamOps, device : Known \cup {None}]]
  /\ yield \in BOOLEAN
  /\ streaming \in [Streams -> {"off", "on", "asleep"}]

-----------------------------------------------------------------------------
(* The devices *)

(* current_manager is null where there is no current_device. *)
ManagerOf(d) == CASE d = Fallback  -> "null"
                  [] d \in Devices -> "PTLIB"
                  [] OTHER         -> None

internal_set_manager(k, d) ==
  [k EXCEPT !.device = IF ManagerOf(d) # None THEN d ELSE Fallback]

internal_set_fallback(k) == internal_set_manager(k, Fallback)

internal_close(k) == [k EXCEPT !.opened = @ \ {ManagerOf(k.device)}]

Opened(k) == [k EXCEPT !.opened = @ \cup {ManagerOf(k.device)}]

(* A mutation: the device that failed stays the current one. *)
OpenWithoutFallback(k) ==
  {Opened(k)} \cup IF k.device = Fallback THEN {} ELSE {k}

(* Opening may fail, but not for the fallback. *)
internal_open(k) ==
  {Opened(k)} \cup
    IF k.device = Fallback THEN {} ELSE {Opened(internal_set_fallback(k))}

internal_set_device(k, d) ==
  IF k.active THEN internal_open(internal_set_manager(internal_close(k), d))
              ELSE {internal_set_manager(k, d)}

-----------------------------------------------------------------------------
(* Calling an operation, locking the mutex, and returning                   *)

(* The user interface waits for the mutex and could have it.  A thread that *)
(* sleeps for some milliseconds, or is between two streams, goes on later.  *)
UiCouldLock == op["ui"] # None /\ core_mutex = None

Call(t, name, d) ==
  /\ op[t] = None
  /\ op' = [op EXCEPT ![t] = [name |-> name, device |-> d]]
  /\ UNCHANGED <<core, core_mutex>>

Lock(t) ==
  /\ op[t] # None /\ core_mutex = None
  /\ core_mutex' = t
  /\ UNCHANGED <<core, op, yield, streaming>>

Returns(t, name) ==
  /\ core_mutex = t /\ op[t].name = name
  /\ core_mutex' = None /\ op' = [op EXCEPT ![t] = None]

-----------------------------------------------------------------------------
(* The user interface: the setting, HAL, the list of devices                *)

(* set_device locks the mutex first; get_devices, in there, sets `yield`,   *)
(* when the mutex is taken already.                                         *)
CallsSetDevice ==
  /\ \E d \in Known : Call("ui", "set_device", d)
  /\ UNCHANGED <<yield, streaming>>

CallsUi ==
  /\ \/ \E d \in Devices, name \in {"add_device", "remove_device"} :
          Call("ui", name, d)
     \/ Call("ui", "get_devices", None)
  /\ yield' = TRUE
  /\ UNCHANGED streaming

set_device ==
  /\ Returns("ui", "set_device")
  /\ \E k \in internal_set_device(core, op["ui"].device) :
       core' = [k EXCEPT !.desired = op["ui"].device]
  /\ yield' = TRUE
  /\ UNCHANGED streaming

add_device ==
  /\ Returns("ui", "add_device")
  /\ core' \in IF core.desired = op["ui"].device
                 THEN internal_set_device(core, core.desired) ELSE {core}
  /\ UNCHANGED <<yield, streaming>>

remove_device ==
  /\ Returns("ui", "remove_device")
  /\ core' \in IF core.device = op["ui"].device /\ core.active
                 THEN internal_set_device(core, Fallback) ELSE {core}
  /\ UNCHANGED <<yield, streaming>>

get_devices ==
  Returns("ui", "get_devices") /\ UNCHANGED <<core, yield, streaming>>

-----------------------------------------------------------------------------
(* The streams, through PSoundChannel_EKIGA *)

CallsStream(s) ==
  /\ ~UiCouldLock
  /\ \/ streaming[s] = "off" /\ Call(s, "start_stream", None)
     \/ /\ streaming[s] = "on"
        /\ \/ Call(s, "stop_stream", None)
           \/ Call(s, "set_stream_buffer_size", None)
  /\ yield' = TRUE
  /\ UNCHANGED streaming

(* A stream that is on already is no reason to refuse. *)
start_stream(s) ==
  /\ Returns(s, "start_stream")
  /\ \E k \in internal_open(internal_set_manager(core, core.desired)) :
       core' = [k EXCEPT !.active = TRUE]
  /\ streaming' = [streaming EXCEPT ![s] = "on"]
  /\ UNCHANGED yield

(* A mutation: the device of the stream is kept. *)
StopKeepsTheDevice(s) ==
  /\ Returns(s, "stop_stream")
  /\ core' = [internal_close(core) EXCEPT !.active = FALSE]
  /\ streaming' = [streaming EXCEPT ![s] = "off"]
  /\ UNCHANGED yield

stop_stream(s) ==
  /\ Returns(s, "stop_stream")
  /\ core' = IF ~core.active THEN core ELSE
       [internal_set_manager(internal_close(core), core.desired)
          EXCEPT !.active = FALSE]
  /\ streaming' = [streaming EXCEPT ![s] = "off"]
  /\ UNCHANGED yield

(* The sizes of the buffers are not in the model. *)
set_stream_buffer_size(s) ==
  /\ Returns(s, "set_stream_buffer_size")
  /\ UNCHANGED <<core, yield, streaming>>

(* get_frame_data lets the others pass if they asked for it, before it locks *)
(* the mutex.                                                               *)
Yields(s) ==
  /\ streaming[s] = "on" /\ op[s] = None /\ yield
  /\ yield' = FALSE /\ streaming' = [streaming EXCEPT ![s] = "asleep"]
  /\ UNCHANGED <<core, core_mutex, op>>

ReadsOn(s) ==
  /\ \/ streaming[s] = "on" /\ ~yield
     \/ streaming[s] = "asleep" /\ ~UiCouldLock
  /\ Call(s, "get_frame_data", None)
  /\ streaming' = [streaming EXCEPT ![s] = "on"]
  /\ UNCHANGED yield

(* The device gives a frame, or the fallback replaces it and does.  A PTLIB *)
(* device that is closed does not; the null manager never fails.            *)
get_frame_data(s) ==
  /\ Returns(s, "get_frame_data")
  /\ \/ /\ core.device \in Devices => "PTLIB" \in core.opened
        /\ UNCHANGED core
     \/ /\ core.device \in Devices
        /\ core' \in internal_open(internal_set_fallback(internal_close(core)))
  /\ UNCHANGED <<yield, streaming>>

-----------------------------------------------------------------------------
Init ==
  /\ core = [device |-> None, opened |-> {}, active |-> FALSE, desired |-> None]
  /\ core_mutex = None
  /\ op = [t \in Threads |-> None]
  /\ yield = FALSE
  /\ streaming = [s \in Streams |-> "off"]

UiStep ==
  Lock("ui") \/ set_device \/ add_device \/ remove_device \/ get_devices

StreamStep(s) ==
  \/ Lock(s) \/ start_stream(s) \/ stop_stream(s)
  \/ set_stream_buffer_size(s) \/ get_frame_data(s)

Next ==
  \/ CallsSetDevice \/ CallsUi \/ UiStep
  \/ \E s \in Streams :
       CallsStream(s) \/ Yields(s) \/ ReadsOn(s) \/ StreamStep(s)

Spec == Init /\ [][Next]_vars

(* Every thread goes on with what it has begun; whoever competes for the    *)
(* mutex may lose every time.                                               *)
Fairness ==
  /\ WF_vars(UiStep)
  /\ \A s \in Streams : WF_vars(StreamStep(s) \/ Yields(s) \/ ReadsOn(s))

FairSpec == Spec /\ Fairness

-----------------------------------------------------------------------------
(* Properties *)

(* Between two operations the microphone is open exactly while a stream is  *)
(* on, by the manager that it belongs to and by no other, whatever was set, *)
(* added or removed meanwhile, and whatever failed.                         *)
MicrophoneMatchesItsUse ==
  core_mutex = None =>
    core.opened = IF core.active THEN {ManagerOf(core.device)} ELSE {}

(* A fallback lasts no longer than the stream in which a device failed or   *)
(* was unplugged: between two streams, the device is the one that the user  *)
(* chose last.                                                              *)
DesiredBetweenStreams ==
  core_mutex = None /\ ~core.active /\ core.desired # None =>
    core.device = core.desired

(* An operation of the user interface that asks for the mutex returns,      *)
(* however fast a stream reads.                                             *)
OperationsReturn ==
  (op["ui"] # None /\ op["ui"].name # "set_device") ~> op["ui"] = None

(* audioinput-core.h:150, of set_device: "It can also be used while in a   *)
(* stream or in preview mode, in such a case the old device gets closed    *)
(* and the new device is opened."  So it comes to its end.  Not kept:      *)
(* nothing makes a stream that reads fast let it have the mutex.           *)
SetDeviceReturns ==
  (op["ui"] # None /\ op["ui"].name = "set_device") ~> op["ui"] = None

(* audioinput-core.h:220, of get_frame_data: "Requires the stream or the   *)
(* preview (...) to be started."  Not kept with two streams: the first     *)
(* that ends stops the device for both.                                    *)
StreamIsStarted ==
  \A s \in Streams :
    core_mutex = s /\ op[s].name = "get_frame_data" => core.active
=============================================================================
