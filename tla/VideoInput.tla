----------------------------- MODULE VideoInput -----------------------------
(***************************************************************************)
(* Ekiga::VideoInputCore: one camera that the preview and the video stream *)
(* of a call share.  The user interface, the thread of a stream and the    *)
(* preview thread of VideoPreviewManager meet at core_mutex; an operation  *)
(* that needs the preview thread to pause waits for it with the mutex      *)
(* locked.  The managers are back ends with one current device each.       *)
(***************************************************************************)
EXTENDS Naturals

CONSTANTS
  Configs,        \* sizes and frame rates
  Devices,        \* the devices a user may choose
  Fallback,       \* the moving logo
  ManagerOf,      \* the manager that takes a device
  Nobody,         \* no thread, no operation
  Closed          \* no device opened, no frame

Managers == {ManagerOf[d] : d \in Devices}
Threads  == {"ui", "stream"}

(* The manager of the moving logo takes nothing else. *)
ASSUME VideoAssumption ==
  /\ Fallback \in Devices
  /\ \A d \in Devices : ManagerOf[d] = ManagerOf[Fallback] => d = Fallback
  /\ Nobody \notin Threads /\ Closed \notin Configs

VARIABLES
  core_mutex,       \* who holds it: a thread of Threads, or Nobody
  pc,               \* of each thread: how far its operation is
  op,               \* of each thread: the operation, with its argument
  preview, stream,  \* preview_config and stream_config: `active` and `config`
  cam,              \* current_manager, current_device, what each manager has open
  desired_device,
  pause_thread, end_thread, frame, run_thread, thread_paused,  \* the preview
  preview_pc,                                                  \* thread
  enable_preview,   \* the setting
  startup_preview   \* start_preview is to run 5 seconds after the startup

opVars      == <<core_mutex, pc, op>>
coreVars    == <<preview, stream, cam, desired_device>>
previewVars == <<pause_thread, end_thread, frame, run_thread, thread_paused>>
confVars    == <<enable_preview, startup_preview>>
vars == <<core_mutex, pc, op, preview, stream, cam, desired_device,
          pause_thread, end_thread, frame, run_thread, thread_paused,
          preview_pc, enable_preview, startup_preview>>

Use    == [active : BOOLEAN, config : Configs]
Opened(m) ==
  [device : {d \in Devices : ManagerOf[d] = m}, config : Configs] \cup {Closed}

Ops ==
  [name : {"start_preview", "stop_preview", "start_stream", "stop_stream",
           "quit"}]
    \cup [name : {"set_device"}, arg : Devices]
    \cup [name : {"add_device", "remove_device"}, arg : Devices \ {Fallback}]
    \cup [name : {"set_preview_config", "set_stream_config"}, arg : Configs]

TypeOK ==
  /\ core_mutex \in Threads \cup {Nobody}
  /\ pc \in [Threads -> {"idle", "locked", "stopping", "ready", "ending", "gone"}]
  /\ op \in [Threads -> Ops \cup {Nobody}]
  /\ preview \in Use /\ stream \in Use
  /\ cam \in [device : Devices, manager : Managers,
              opened : [Managers -> UNION {Opened(m) : m \in Managers}]]
  /\ cam.manager = ManagerOf[cam.device]
  /\ \A m \in Managers : cam.opened[m] \in Opened(m)
  /\ desired_device \in Devices
  /\ pause_thread \in BOOLEAN /\ end_thread \in BOOLEAN
  /\ run_thread \in BOOLEAN /\ thread_paused \in BOOLEAN
  /\ frame \in Configs \cup {Closed}
  /\ preview_pc \in {"top", "waiting", "check", "reading",
                    "showing", "ended"}
  /\ enable_preview \in BOOLEAN /\ startup_preview \in BOOLEAN

Previewing == preview.active /\ ~stream.active
Active     == preview.active \/ stream.active

-----------------------------------------------------------------------------
(* The managers, one step at a time: each operator says what becomes of cam *)

internal_close(k) == [k EXCEPT !.opened[k.manager] = Closed]

(* The devices to choose from come from the managers: one always takes it. *)
internal_set_manager(k, d) == [k EXCEPT !.manager = ManagerOf[d], !.device = d]

internal_set_fallback(k) == internal_set_manager(k, Fallback)

Open(k, config) ==
  [k EXCEPT !.opened[k.manager] = [device |-> k.device, config |-> config]]

(* Opening may fail, but not for the default device. *)
internal_open(k, config) ==
  {Open(k, config)} \cup
    IF k.device = Fallback THEN {} ELSE {Open(internal_set_fallback(k), config)}

(* What is reopened after a change of the device. *)
Reopened(k) ==
  CASE stream.active -> internal_open(k, stream.config)
    [] Previewing    -> internal_open(k, preview.config)
    [] OTHER         -> {k}

(* A mutation: the device is closed after the manager was changed. *)
SetDeviceCloseLate(d) ==
  cam' \in Reopened(IF Active THEN internal_close(internal_set_manager(cam, d))
                              ELSE internal_set_manager(cam, d))

SetDevice(d) ==
  cam' \in Reopened(internal_set_manager(IF Active THEN internal_close(cam)
                                                   ELSE cam, d))

-----------------------------------------------------------------------------
(* VideoPreviewManager *)

start(config) ==
  /\ frame' = config
  /\ pause_thread' = FALSE /\ run_thread' = TRUE
  /\ UNCHANGED <<end_thread, thread_paused>>

Main ==
  \/ /\ preview_pc = "top"
     /\ IF end_thread
          THEN preview_pc' = "ended" /\ UNCHANGED thread_paused
          ELSE preview_pc' = "waiting" /\ thread_paused' = TRUE
     /\ UNCHANGED <<run_thread, cam>>
  \/ /\ preview_pc = "waiting" /\ run_thread
     /\ preview_pc' = "check" /\ run_thread' = FALSE
     /\ UNCHANGED <<thread_paused, cam>>
  \/ /\ preview_pc = "check"
     /\ preview_pc' = CASE pause_thread -> "top"
                        [] ~pause_thread /\ frame # Closed -> "reading"
                        [] OTHER -> "check"
     /\ UNCHANGED <<run_thread, thread_paused, cam>>
  \/ /\ preview_pc = "showing" /\ preview_pc' = "check"
     /\ UNCHANGED <<run_thread, thread_paused, cam>>

(* get_frame_data: if the device fails, the default one takes its place. *)
get_frame_data ==
  /\ core_mutex = Nobody
  /\ \/ UNCHANGED cam
     \/ /\ cam.device # Fallback
        /\ cam' \in Reopened(internal_set_fallback(internal_close(cam)))

PreviewThread ==
  /\ \/ Main
     \/ /\ preview_pc = "reading" /\ get_frame_data
        /\ preview_pc' = "showing"
        /\ UNCHANGED <<run_thread, thread_paused>>
  /\ UNCHANGED <<opVars, preview, stream, desired_device, pause_thread,
                 end_thread, frame, confVars>>

StreamReads ==
  /\ stream.active /\ pc["stream"] = "idle"
  /\ get_frame_data
  /\ UNCHANGED <<opVars, preview, stream, desired_device, previewVars,
                 preview_pc, confVars>>

-----------------------------------------------------------------------------
(* The operations: lock, pause the preview thread if need be, the rest *)

(* The video device that OPAL opens counts its users: the first configures *)
(* and starts the stream, the last one stops it.                           *)
MayCall(t, o) ==
  IF o.name \in {"start_stream", "stop_stream", "set_stream_config"}
    THEN t = "stream" /\ stream.active = (o.name = "stop_stream")
    ELSE t = "ui"

Lock(t, o) ==
  /\ pc[t] = "idle" /\ core_mutex = Nobody
  /\ core_mutex' = t
  /\ pc' = [pc EXCEPT ![t] = "locked"]
  /\ op' = [op EXCEPT ![t] = o]

(* The setting changed: the bridge starts or stops the preview. *)
EnablePreview(o) ==
  /\ enable_preview' = (o.name = "start_preview")
  /\ enable_preview' # enable_preview

Call(t) ==
  /\ pc["ui"] # "gone"
  /\ \E o \in Ops :
       /\ MayCall(t, o)
       /\ Lock(t, o)
       /\ \/ o.name \notin {"start_preview", "stop_preview"} /\ UNCHANGED confVars
          \/ /\ o.name \in {"start_preview", "stop_preview"}
             /\ EnablePreview(o) /\ UNCHANGED startup_preview
  /\ UNCHANGED <<coreVars, previewVars, preview_pc>>

(* The preview that was enabled when the program started. *)
StartupPreview ==
  /\ startup_preview
  /\ Lock("ui", [name |-> "start_preview"])
  /\ startup_preview' = FALSE
  /\ UNCHANGED <<coreVars, previewVars, preview_pc, enable_preview>>

SetsDevice(o) ==
  \/ o.name = "set_device"
  \/ o.name = "add_device" /\ o.arg = desired_device
  \/ o.name = "remove_device" /\ o.arg = cam.device /\ Active

(* A mutation: the preview goes on when a stream starts. *)
PausesNotForStream(o) ==
  \/ o.name = "quit" /\ ~pause_thread
  \/ /\ Previewing
     /\ \/ SetsDevice(o)
        \/ o.name = "set_preview_config" /\ o.arg # preview.config
        \/ o.name = "stop_preview"

Pauses(o) ==
  \/ o.name = "quit" /\ ~pause_thread
  \/ /\ Previewing
     /\ \/ SetsDevice(o)
        \/ o.name = "set_preview_config" /\ o.arg # preview.config
        \/ o.name \in {"stop_preview", "start_stream"}

(* VideoPreviewManager::stop, up to its wait... *)
StopBegins(t) ==
  /\ pc[t] = "locked" /\ Pauses(op[t])
  /\ pause_thread' = TRUE
  /\ pc' = [pc EXCEPT ![t] = "stopping"]
  /\ UNCHANGED <<core_mutex, op, coreVars, end_thread, frame, run_thread,
                 thread_paused, preview_pc, confVars>>

(* A mutation: it does not wait. *)
StopReturnsAtOnce(t) ==
  /\ pc[t] = "stopping"
  /\ frame' = Closed
  /\ pc' = [pc EXCEPT ![t] = "ready"]
  /\ UNCHANGED <<core_mutex, op, coreVars, pause_thread, end_thread,
                 run_thread, thread_paused, preview_pc, confVars>>

(* ...and from there. *)
StopReturns(t) ==
  /\ pc[t] = "stopping" /\ thread_paused
  /\ thread_paused' = FALSE /\ frame' = Closed
  /\ pc' = [pc EXCEPT ![t] = "ready"]
  /\ UNCHANGED <<core_mutex, op, coreVars, pause_thread, end_thread,
                 run_thread, preview_pc, confVars>>

set_device(d) ==
  /\ SetDevice(d) /\ desired_device' = d
  /\ IF Previewing THEN start(preview.config) ELSE UNCHANGED previewVars
  /\ UNCHANGED <<preview, stream>>

(* add_device sets the desired device, remove_device the default one. *)
replug_device(d) ==
  /\ SetDevice(d)
  /\ IF Previewing THEN start(preview.config) ELSE UNCHANGED previewVars
  /\ UNCHANGED <<preview, stream, desired_device>>

set_preview_config(config) ==
  /\ IF Previewing /\ config # preview.config
       THEN cam' \in internal_open(internal_close(cam), config) /\ start(config)
       ELSE UNCHANGED <<cam, previewVars>>
  /\ preview' = [preview EXCEPT !.config = config]
  /\ UNCHANGED <<stream, desired_device>>

start_preview ==
  /\ IF ~Active
       THEN cam' \in internal_open(cam, preview.config) /\ start(preview.config)
       ELSE UNCHANGED <<cam, previewVars>>
  /\ preview' = [preview EXCEPT !.active = TRUE]
  /\ UNCHANGED <<stream, desired_device>>

(* The device is given back: the desired one is the next to be opened. *)
Release == cam' = internal_set_manager(internal_close(cam), desired_device)

stop_preview ==
  /\ IF Previewing THEN Release ELSE UNCHANGED cam
  /\ preview' = [preview EXCEPT !.active = FALSE]
  /\ UNCHANGED <<stream, desired_device, previewVars>>

set_stream_config(config) ==
  /\ stream' = IF stream.active THEN stream ELSE [stream EXCEPT !.config = config]
  /\ UNCHANGED <<preview, cam, desired_device, previewVars>>

start_stream ==
  /\ CASE ~Active -> cam' \in internal_open(cam, stream.config)
       [] Previewing /\ preview.config # stream.config ->
            cam' \in internal_open(internal_close(cam), stream.config)
       [] OTHER -> UNCHANGED cam
  /\ stream' = [stream EXCEPT !.active = TRUE]
  /\ UNCHANGED <<preview, desired_device, previewVars>>

stop_stream ==
  /\ IF preview.active /\ stream.active
       THEN /\ IF preview.config = stream.config THEN UNCHANGED cam
                 ELSE cam' \in internal_open(
                        internal_set_manager(internal_close(cam), desired_device),
                        preview.config)
            /\ start(preview.config)
       ELSE /\ IF stream.active THEN Release ELSE UNCHANGED cam
            /\ UNCHANGED previewVars
  /\ stream' = [stream EXCEPT !.active = FALSE]
  /\ UNCHANGED <<preview, desired_device>>

Perform(o) ==
  \/ o.name = "set_device" /\ set_device(o.arg)
  \/ o.name = "add_device" /\ SetsDevice(o) /\ replug_device(o.arg)
  \/ o.name = "remove_device" /\ SetsDevice(o) /\ replug_device(Fallback)
  \/ /\ o.name \in {"add_device", "remove_device"} /\ ~SetsDevice(o)
     /\ UNCHANGED <<coreVars, previewVars>>
  \/ o.name = "set_preview_config" /\ set_preview_config(o.arg)
  \/ o.name = "start_preview" /\ start_preview
  \/ o.name = "stop_preview" /\ stop_preview
  \/ o.name = "set_stream_config" /\ set_stream_config(o.arg)
  \/ o.name = "start_stream" /\ start_stream
  \/ o.name = "stop_stream" /\ stop_stream

(* The rest of the operation, and its unlocking. *)
Finish(t) ==
  /\ pc[t] = "ready" \/ (pc[t] = "locked" /\ ~Pauses(op[t]))
  /\ op[t].name # "quit"
  /\ Perform(op[t])
  /\ pc' = [pc EXCEPT ![t] = "idle"]
  /\ op' = [op EXCEPT ![t] = Nobody]
  /\ core_mutex' = Nobody
  /\ UNCHANGED <<preview_pc, confVars>>

(* ~VideoInputCore: VideoPreviewManager::quit wakes the thread a last time *)
(* and waits for its end.                                                  *)
QuitWakes(t) ==
  /\ pc[t] = "ready" \/ (pc[t] = "locked" /\ ~Pauses(op[t]))
  /\ op[t].name = "quit"
  /\ end_thread' = TRUE /\ run_thread' = TRUE
  /\ pc' = [pc EXCEPT ![t] = "ending"]
  /\ UNCHANGED <<core_mutex, op, coreVars, pause_thread, frame, thread_paused,
                 preview_pc, confVars>>

QuitReturns(t) ==
  /\ pc[t] = "ending" /\ preview_pc = "ended"
  /\ pc' = [pc EXCEPT ![t] = "gone"]
  /\ op' = [op EXCEPT ![t] = Nobody]
  /\ core_mutex' = Nobody
  /\ UNCHANGED <<coreVars, previewVars, preview_pc, confVars>>

Proceed(t) == \/ StopBegins(t) \/ StopReturns(t) \/ Finish(t)
              \/ QuitWakes(t) \/ QuitReturns(t)

-----------------------------------------------------------------------------
(* The constructor has waited for the thread, and the bridge has set a device. *)
Init ==
  /\ core_mutex = Nobody
  /\ pc = [t \in Threads |-> "idle"] /\ op = [t \in Threads |-> Nobody]
  /\ \E config \in Configs :
       /\ preview = [active |-> FALSE, config |-> config]
       /\ stream = preview
  /\ \E d \in Devices :
       /\ desired_device = d
       /\ cam = internal_set_manager(
                  [manager |-> ManagerOf[Fallback], device |-> Fallback,
                   opened |-> [m \in Managers |-> Closed]], d)
  /\ pause_thread = TRUE /\ end_thread = FALSE /\ frame = Closed
  /\ run_thread = FALSE /\ thread_paused = FALSE
  /\ preview_pc = "waiting"
  /\ enable_preview \in BOOLEAN /\ startup_preview = enable_preview

Next ==
  \/ PreviewThread \/ StreamReads \/ StartupPreview
  \/ \E t \in Threads : Call(t) \/ Proceed(t)

Spec == Init /\ [][Next]_vars

(* Threads that can run do; nobody has to call anything. *)
FairSpec == /\ Spec
            /\ WF_vars(PreviewThread)
            /\ \A t \in Threads : WF_vars(Proceed(t))

-----------------------------------------------------------------------------
(* Properties *)

(* The configuration that the device is to be opened with. *)
Needed == CASE stream.active -> stream.config
            [] Previewing    -> preview.config
            [] OTHER         -> Closed

(* Between two operations the camera is open exactly while it is used, as  *)
(* the current device of the current manager, in the configuration of its  *)
(* user (the stream comes first), and no other manager has a device open:  *)
(* whatever was chosen, plugged, unplugged or failed in between.           *)
CameraMatchesItsUse ==
  core_mutex = Nobody =>
    /\ cam.opened[cam.manager] =
         IF Active THEN [device |-> cam.device, config |-> Needed] ELSE Closed
    /\ \A m \in Managers \ {cam.manager} : cam.opened[m] = Closed

(* The preview thread reads only for a preview that no stream has taken    *)
(* the camera from, and into a frame of the size that the device writes.   *)
FrameFitsTheCamera ==
  core_mutex = Nobody /\ preview_pc = "reading" =>
    /\ Previewing
    /\ frame = cam.opened[cam.manager].config

(* The frame is freed only while the preview thread does not use it. *)
FrameIsNotFreedInUse == preview_pc \in {"reading", "showing"} => frame # Closed

(* ekiga.schemas.in.in:77, of the setting enable_preview: "Display images  *)
(* from your camera device".  Not kept: a preview that is disabled within  *)
(* five seconds of the start-up starts all the same.                       *)
PreviewFollowsItsSetting ==
  pc["ui"] = "idle" /\ ~startup_preview => preview.active = enable_preview

(* videoinput-core.h:345, of VideoPreviewManager::stop: "Blocks until the  *)
(* thread has terminated".                                                 *)
StopTerminates ==
  \A t \in Threads : pc[t] = "stopping" ~> pc[t] # "stopping"
=============================================================================
