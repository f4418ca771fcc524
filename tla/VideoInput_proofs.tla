-------------------------- MODULE VideoInput_proofs --------------------------
(***************************************************************************)
(* Theorems about VideoInput, for any cameras, managers and sizes.  The    *)
(* invariants speak of the moments at which nobody holds core_mutex; IInv  *)
(* says what the thread that holds it may count on at each point of its    *)
(* operation, and where the preview thread can be meanwhile.               *)
(***************************************************************************)
EXTENDS VideoInput, TLAPS

Holding == {"locked", "stopping", "ready", "ending"}

Cams == [device : Devices, manager : Managers,
         opened : [Managers -> UNION {Opened(m) : m \in Managers}]]

(* A state of the managers: every one has at most a device of its own open. *)
WellFormed(k) ==
  /\ k \in Cams
  /\ k.manager = ManagerOf[k.device]
  /\ \A m \in Managers : k.opened[m] \in Opened(m)

AllClosed(k) ==
  WellFormed(k) /\ \A m \in Managers : k.opened[m] = Closed

OpenedWith(k, config) ==
  /\ WellFormed(k)
  /\ k.opened[k.manager] = [device |-> k.device, config |-> config]
  /\ \A m \in Managers \ {k.manager} : k.opened[m] = Closed

CameraInUse == IF Active THEN OpenedWith(cam, Needed) ELSE AllClosed(cam)

(* Whoever is in an operation holds the mutex. *)
HolderInv ==
  \A t \in Threads :
    /\ core_mutex = t <=> pc[t] \in Holding
    /\ pc[t] \in Holding => op[t] \in Ops
    /\ pc[t] \in Holding /\ op[t].name = "quit" => t = "ui"
    /\ pc[t] \in {"ending", "gone"} => t = "ui"
    /\ pc[t] = "gone" => \A u \in Threads \ {t} : pc[u] = "idle"

(* The four states of the preview thread. *)
Parked ==
  /\ pause_thread /\ ~end_thread /\ frame = Closed
  /\ ~thread_paused /\ ~run_thread /\ preview_pc = "waiting"

Running ==
  /\ ~pause_thread /\ ~end_thread /\ frame = preview.config
  /\ ~thread_paused
  /\ IF run_thread THEN preview_pc = "waiting"
                   ELSE preview_pc \in {"check", "reading", "showing"}

Stopping ==
  /\ pause_thread /\ ~end_thread /\ frame = preview.config
  /\ IF thread_paused \/ run_thread
       THEN preview_pc = "waiting" /\ ~(thread_paused /\ run_thread)
       ELSE preview_pc \in {"check", "reading", "showing", "top"}

Ending ==
  /\ pause_thread /\ end_thread /\ frame = Closed
  /\ IF run_thread THEN preview_pc = "waiting"
                   ELSE preview_pc \in {"check", "top", "ended"}

(* Why an operation has stopped the thread: it goes on to start it again,  *)
(* to end the preview, to hand the camera over, or to end the thread.      *)
Stopped(o) ==
  \/ o.name = "quit"
  \/ /\ Previewing
     /\ \/ SetsDevice(o)
        \/ o.name = "set_preview_config" /\ o.arg # preview.config
        \/ o.name \in {"stop_preview", "start_stream"}

(* The thread at rest between the operations, and while one has just begun. *)
AtRest == IF Previewing THEN Running ELSE Parked

PreviewInv ==
  /\ (\A t \in Threads : pc[t] \in {"idle", "locked"}) => AtRest
  /\ \A t \in Threads :
       /\ pc[t] = "stopping" => Stopping /\ Stopped(op[t])
       /\ pc[t] = "ready" => Parked /\ Stopped(op[t])
       /\ pc[t] \in {"ending", "gone"} => Ending

IInv == TypeOK /\ CameraInUse /\ HolderInv /\ PreviewInv
-----------------------------------------------------------------------------
(* The operators on the state of the managers. *)

LEMMA CloseFacts ==
  ASSUME NEW k, AllClosed(k) \/ \E config \in Configs : OpenedWith(k, config)
  PROVE  AllClosed(internal_close(k))
<1>1. WellFormed(k) /\ k.manager \in Managers
  BY DEF AllClosed, OpenedWith, WellFormed, Cams
<1>2. \A m \in Managers \ {k.manager} : k.opened[m] = Closed
  BY DEF AllClosed, OpenedWith
<1>3. \A m \in Managers : Closed \in Opened(m)
  BY DEF Opened
<1>4. /\ internal_close(k).manager = k.manager
      /\ internal_close(k).device = k.device
      /\ internal_close(k).opened = [k.opened EXCEPT ![k.manager] = Closed]
      /\ internal_close(k) \in Cams
  BY <1>1, <1>3 DEF internal_close, WellFormed, Cams
<1>5. \A m \in Managers : internal_close(k).opened[m] = Closed
  BY <1>1, <1>2, <1>4 DEF WellFormed, Cams
<1>6. QED
  BY <1>1, <1>3, <1>4, <1>5 DEF AllClosed, WellFormed

LEMMA SetManagerFacts ==
  ASSUME NEW k, AllClosed(k), NEW d \in Devices
  PROVE  AllClosed(internal_set_manager(k, d))
BY DEF AllClosed, WellFormed, Cams, Managers, internal_set_manager

LEMMA OpenFacts ==
  ASSUME NEW k, AllClosed(k), NEW config \in Configs
  PROVE  OpenedWith(Open(k, config), config)
<1>1. k.manager \in Managers /\ k.device \in Devices /\ k.manager = ManagerOf[k.device]
  BY DEF AllClosed, WellFormed, Cams
<1>2. [device |-> k.device, config |-> config] \in Opened(k.manager)
  BY <1>1 DEF Opened
<1>3. QED
  BY <1>1, <1>2 DEF AllClosed, OpenedWith, WellFormed, Cams, Open, Opened

LEMMA InternalOpenFacts ==
  ASSUME NEW k, AllClosed(k), NEW config \in Configs,
         NEW k2 \in internal_open(k, config)
  PROVE  OpenedWith(k2, config)
BY VideoAssumption, OpenFacts, SetManagerFacts DEF internal_open, internal_set_fallback

LEMMA WellFormedIsTyped ==
  ASSUME NEW k, AllClosed(k) \/ \E config \in Configs : OpenedWith(k, config)
  PROVE  /\ k \in Cams
         /\ k.manager = ManagerOf[k.device]
         /\ \A m \in Managers : k.opened[m] \in Opened(m)
BY DEF AllClosed, OpenedWith, WellFormed
-----------------------------------------------------------------------------
(* One operation's changes: the camera is reopened as its user needs it. *)

LEMMA NeededFacts ==
  ASSUME TypeOK
  PROVE  /\ Active \in BOOLEAN /\ Previewing \in BOOLEAN
         /\ Active => Needed \in Configs
         /\ preview.config \in Configs /\ stream.config \in Configs
         /\ preview.active \in BOOLEAN /\ stream.active \in BOOLEAN
BY DEF TypeOK, Use, Active, Previewing, Needed

LEMMA ReopenedFacts ==
  ASSUME TypeOK, NEW k, AllClosed(k), NEW k2 \in Reopened(k)
  PROVE  IF Active THEN OpenedWith(k2, Needed) ELSE AllClosed(k2)
BY NeededFacts, InternalOpenFacts DEF Reopened, Needed, Active, Previewing

LEMMA ClosedCamera ==
  ASSUME TypeOK, CameraInUse
  PROVE  /\ AllClosed(internal_close(cam))
         /\ AllClosed(IF Active THEN internal_close(cam) ELSE cam)
BY CloseFacts, NeededFacts DEF CameraInUse

LEMMA SetDeviceFacts ==
  ASSUME TypeOK, CameraInUse, NEW d \in Devices, SetDevice(d)
  PROVE  IF Active THEN OpenedWith(cam', Needed) ELSE AllClosed(cam')
BY ClosedCamera, SetManagerFacts, ReopenedFacts DEF SetDevice

LEMMA ReadFacts ==
  ASSUME TypeOK, CameraInUse, get_frame_data
  PROVE  IF Active THEN OpenedWith(cam', Needed) ELSE AllClosed(cam')
BY ClosedCamera, SetManagerFacts, ReopenedFacts, VideoAssumption
   DEF get_frame_data, internal_set_fallback, CameraInUse

LEMMA ReleaseFacts ==
  ASSUME TypeOK, CameraInUse, Release
  PROVE  AllClosed(cam')
BY ClosedCamera, SetManagerFacts DEF Release, TypeOK

(* The argument of an operation. *)
LEMMA OpFacts ==
  ASSUME NEW o \in Ops
  PROVE  /\ o.name = "set_device" => o.arg \in Devices
         /\ o.name \in {"add_device", "remove_device"} => o.arg \in Devices
         /\ o.name \in {"set_preview_config", "set_stream_config"} =>
              o.arg \in Configs
BY DEF Ops

LEMMA PerformKeepsCamera ==
  ASSUME TypeOK, CameraInUse, NEW o \in Ops, Perform(o)
  PROVE  CameraInUse' /\ preview' \in Use /\ stream' \in Use
           /\ desired_device' \in Devices
<1> DEFINE Goal == CameraInUse' /\ preview' \in Use /\ stream' \in Use
                     /\ desired_device' \in Devices
<1> USE NeededFacts DEF Use
<1>0. preview \in Use /\ stream \in Use /\ desired_device \in Devices
  BY DEF TypeOK
<1>1. ASSUME NEW d \in Devices, SetDevice(d), UNCHANGED <<preview, stream>>,
             desired_device' \in Devices
      PROVE  Goal
  BY <1>0, <1>1, SetDeviceFacts DEF CameraInUse, Active, Needed, Previewing
<1>2. ASSUME UNCHANGED coreVars
      PROVE  Goal
  BY <1>0, <1>2 DEF coreVars, CameraInUse, Active, Needed, Previewing
<1>3. ASSUME NEW config \in Configs, set_preview_config(config)
      PROVE  Goal
  <2>1. /\ preview' = [preview EXCEPT !.config = config]
        /\ UNCHANGED <<stream, desired_device>>
    BY <1>3 DEF set_preview_config
  <2>2. CASE Previewing /\ config # preview.config
    <3>1. OpenedWith(cam', config)
      BY <1>3, <2>2, ClosedCamera, InternalOpenFacts DEF set_preview_config
    <3>2. Active' /\ Needed' = config
      BY <2>1, <2>2, <1>0 DEF Active, Needed, Previewing
    <3>3. CameraInUse'
      BY <3>1, <3>2 DEF CameraInUse
    <3>4. QED  BY <1>0, <2>1, <3>3
  <2>3. CASE ~(Previewing /\ config # preview.config)
    <3>1. UNCHANGED cam
      BY <1>3, <2>3 DEF set_preview_config
    <3>2. Active' = Active /\ (Active => Needed' = Needed)
      BY <2>1, <2>3, <1>0 DEF Active, Needed, Previewing
    <3>3. CameraInUse'
      BY <3>1, <3>2 DEF CameraInUse, OpenedWith, AllClosed, WellFormed
    <3>4. QED  BY <1>0, <2>1, <3>3
  <2>4. QED  BY <2>2, <2>3
<1>4. ASSUME start_preview
      PROVE  Goal
  <2>1. /\ preview' = [preview EXCEPT !.active = TRUE]
        /\ UNCHANGED <<stream, desired_device>>
    BY <1>4 DEF start_preview
  <2>2. Active'
    BY <2>1, <1>0 DEF Active
  <2>3. CASE ~Active
    <3>1. OpenedWith(cam', preview.config)
      BY <1>4, <2>3, InternalOpenFacts DEF start_preview, CameraInUse
    <3>2. Needed' = preview.config
      BY <2>1, <2>3, <1>0 DEF Active, Needed, Previewing
    <3>3. QED  BY <1>0, <2>1, <2>2, <3>1, <3>2 DEF CameraInUse
  <2>4. CASE Active
    <3>1. UNCHANGED cam /\ Needed' = Needed
      BY <1>4, <2>1, <2>4, <1>0 DEF start_preview, Active, Needed, Previewing
    <3>2. QED  BY <1>0, <2>1, <2>2, <2>4, <3>1 DEF CameraInUse
  <2>5. QED  BY <2>3, <2>4
<1>5. ASSUME stop_preview
      PROVE  Goal
  <2>1. /\ preview' = [preview EXCEPT !.active = FALSE]
        /\ UNCHANGED <<stream, desired_device>>
    BY <1>5 DEF stop_preview
  <2>2. CASE Previewing
    <3>1. AllClosed(cam')
      BY <1>5, <2>2, ReleaseFacts DEF stop_preview
    <3>2. ~Active'
      BY <2>1, <2>2, <1>0 DEF Active, Previewing
    <3>3. QED  BY <1>0, <2>1, <3>1, <3>2 DEF CameraInUse
  <2>3. CASE ~Previewing
    <3>1. UNCHANGED cam /\ Active' = Active /\ (Active => Needed' = Needed)
      BY <1>5, <2>1, <2>3, <1>0 DEF stop_preview, Active, Needed, Previewing
    <3>2. QED  BY <1>0, <2>1, <3>1 DEF CameraInUse
  <2>4. QED  BY <2>2, <2>3
<1>6. ASSUME NEW config \in Configs, set_stream_config(config)
      PROVE  Goal
  <2>1. UNCHANGED <<preview, cam, desired_device>> /\ stream' \in Use
    BY <1>6, <1>0 DEF set_stream_config
  <2>2. Active' = Active /\ (Active => Needed' = Needed)
    BY <1>6, <1>0 DEF set_stream_config, Active, Needed, Previewing
  <2>3. QED  BY <1>0, <2>1, <2>2 DEF CameraInUse
<1>7. ASSUME start_stream
      PROVE  Goal
  <2>1. /\ stream' = [stream EXCEPT !.active = TRUE]
        /\ UNCHANGED <<preview, desired_device>>
    BY <1>7 DEF start_stream
  <2>2. Active' /\ Needed' = stream.config
    BY <2>1, <1>0 DEF Active, Needed, Previewing
  <2>3. CASE ~Active
    <3>1. OpenedWith(cam', stream.config)
      BY <1>7, <2>3, InternalOpenFacts
         DEF start_stream, CameraInUse, Active, Previewing
    <3>2. QED  BY <1>0, <2>1, <2>2, <3>1 DEF CameraInUse
  <2>4. CASE Previewing /\ preview.config # stream.config
    <3>1. OpenedWith(cam', stream.config)
      BY <1>7, <2>4, ClosedCamera, InternalOpenFacts
         DEF start_stream, Active, Previewing
    <3>2. QED  BY <1>0, <2>1, <2>2, <3>1 DEF CameraInUse
  <2>5. CASE Active /\ ~(Previewing /\ preview.config # stream.config)
    <3>1. UNCHANGED cam /\ Needed = stream.config
      BY <1>7, <2>5, <1>0 DEF start_stream, Active, Needed, Previewing
    <3>2. QED  BY <1>0, <2>1, <2>2, <2>5, <3>1 DEF CameraInUse
  <2>6. QED  BY <2>3, <2>4, <2>5
<1>8. ASSUME stop_stream
      PROVE  Goal
  <2>1. /\ stream' = [stream EXCEPT !.active = FALSE]
        /\ UNCHANGED <<preview, desired_device>>
    BY <1>8 DEF stop_stream
  <2>2. CASE preview.active /\ stream.active /\ preview.config = stream.config
    <3>1. UNCHANGED cam /\ Active /\ Active' /\ Needed' = Needed
      BY <1>8, <2>1, <2>2, <1>0 DEF stop_stream, Active, Needed, Previewing
    <3>2. QED  BY <1>0, <2>1, <3>1 DEF CameraInUse
  <2>3. CASE preview.active /\ stream.active /\ preview.config # stream.config
    <3>1. OpenedWith(cam', preview.config)
      BY <1>8, <2>3, <1>0, ClosedCamera, SetManagerFacts, InternalOpenFacts
         DEF stop_stream
    <3>2. Active' /\ Needed' = preview.config
      BY <2>1, <2>3, <1>0 DEF Active, Needed, Previewing
    <3>3. QED  BY <1>0, <2>1, <3>1, <3>2 DEF CameraInUse
  <2>4. CASE stream.active /\ ~preview.active
    <3>1. AllClosed(cam')
      BY <1>8, <2>4, ReleaseFacts DEF stop_stream
    <3>2. ~Active'
      BY <2>1, <2>4, <1>0 DEF Active
    <3>3. QED  BY <1>0, <2>1, <3>1, <3>2 DEF CameraInUse
  <2>5. CASE ~stream.active
    <3>1. UNCHANGED cam /\ Active' = Active /\ (Active => Needed' = Needed)
      BY <1>8, <2>1, <2>5, <1>0 DEF stop_stream, Active, Needed, Previewing
    <3>2. QED  BY <1>0, <2>1, <3>1 DEF CameraInUse
  <2>6. QED  BY <2>2, <2>3, <2>4, <2>5
<1>9. QED
  BY <1>0, <1>1, <1>2, <1>3, <1>4, <1>5, <1>6, <1>7, <1>8, OpFacts, VideoAssumption
     DEF Perform, set_device, replug_device
-----------------------------------------------------------------------------
(* Each step keeps the four parts. *)

LEMMA SameCamera ==
  ASSUME CameraInUse, UNCHANGED <<preview, stream, cam>>
  PROVE  CameraInUse'
BY DEF CameraInUse, Active, Needed, Previewing

LEMMA PreviewThreadCases ==
  ASSUME PreviewThread
  PROVE  /\ UNCHANGED cam \/ get_frame_data
         /\ UNCHANGED <<preview, stream, desired_device>>
BY DEF PreviewThread, Main

LEMMA CameraStep ==
  ASSUME IInv, [Next]_vars
  PROVE  /\ CameraInUse' /\ preview' \in Use /\ stream' \in Use
         /\ desired_device' \in Devices
<1>1. TypeOK /\ CameraInUse /\ HolderInv
  BY DEF IInv
<1>2. preview \in Use /\ stream \in Use /\ desired_device \in Devices
  BY <1>1 DEF TypeOK
<1>3. ASSUME get_frame_data, UNCHANGED <<preview, stream, desired_device>>
      PROVE  /\ CameraInUse' /\ preview' \in Use /\ stream' \in Use
             /\ desired_device' \in Devices
  BY <1>1, <1>2, <1>3, ReadFacts DEF CameraInUse, Active, Needed, Previewing
<1>4. ASSUME UNCHANGED coreVars
      PROVE  /\ CameraInUse' /\ preview' \in Use /\ stream' \in Use
             /\ desired_device' \in Devices
  BY <1>1, <1>2, <1>4, SameCamera DEF coreVars
<1>5. CASE PreviewThread
  BY <1>3, <1>4, <1>5, PreviewThreadCases DEF coreVars
<1>6. CASE StreamReads
  BY <1>3, <1>6 DEF StreamReads
<1>7. CASE StartupPreview
  BY <1>4, <1>7 DEF StartupPreview
<1>8. ASSUME NEW t \in Threads, Call(t)
      PROVE  UNCHANGED coreVars
  BY <1>8 DEF Call
<1>9. ASSUME NEW t \in Threads, Proceed(t)
      PROVE  UNCHANGED coreVars \/ (op[t] \in Ops /\ Perform(op[t]))
  BY <1>1, <1>9
     DEF Proceed, StopBegins, StopReturns, Finish, QuitWakes, QuitReturns,
         HolderInv, Holding
<1>10. CASE UNCHANGED vars
  BY <1>4, <1>10 DEF vars, coreVars
<1>11. QED
  BY <1>1, <1>4, <1>5, <1>6, <1>7, <1>8, <1>9, <1>10, PerformKeepsCamera DEF Next

LEMMA StartFacts ==
  ASSUME NEW config \in Configs, start(config)
  PROVE  /\ frame' = config /\ ~pause_thread' /\ run_thread'
         /\ UNCHANGED <<end_thread, thread_paused>>
BY DEF start

LEMMA PreviewVarsTyped ==
  ASSUME TypeOK, NEW o \in Ops, Perform(o)
  PROVE  \/ UNCHANGED previewVars
         \/ start(preview.config)
         \/ \E config \in Configs : start(config)
BY OpFacts
   DEF Perform, set_device, replug_device, set_preview_config, start_preview,
       stop_preview, set_stream_config, start_stream, stop_stream

LEMMA TypeStep ==
  ASSUME IInv, [Next]_vars
  PROVE  TypeOK'
<1>1. TypeOK /\ HolderInv
  BY DEF IInv
<1>2. /\ cam' \in Cams /\ cam'.manager = ManagerOf[cam'.device]
      /\ \A m \in Managers : cam'.opened[m] \in Opened(m)
      /\ preview' \in Use /\ stream' \in Use /\ desired_device' \in Devices
  <2>1. Active' => Needed' \in Configs
    BY CameraStep DEF Use, Active, Needed, Previewing
  <2>2. QED  BY <2>1, CameraStep, WellFormedIsTyped DEF CameraInUse
<1> DEFINE Rest ==
      /\ core_mutex' \in Threads \cup {Nobody}
      /\ pc' \in [Threads -> {"idle", "locked", "stopping", "ready", "ending", "gone"}]
      /\ op' \in [Threads -> Ops \cup {Nobody}]
      /\ pause_thread' \in BOOLEAN /\ end_thread' \in BOOLEAN
      /\ run_thread' \in BOOLEAN /\ thread_paused' \in BOOLEAN
      /\ frame' \in Configs \cup {Closed}
      /\ preview_pc' \in {"top", "waiting", "check", "reading", "showing", "ended"}
      /\ enable_preview' \in BOOLEAN /\ startup_preview' \in BOOLEAN
<1>3. ASSUME PreviewThread
      PROVE  Rest
  BY <1>1, <1>3 DEF PreviewThread, Main, TypeOK, opVars, confVars
<1>4. ASSUME StreamReads
      PROVE  Rest
  BY <1>1, <1>4 DEF StreamReads, TypeOK, opVars, previewVars, confVars
<1>5. ASSUME StartupPreview
      PROVE  Rest
  <2>1. [name |-> "start_preview"] \in Ops
    BY DEF Ops
  <2>2. QED
    BY <1>1, <1>5, <2>1 DEF StartupPreview, Lock, TypeOK, previewVars, Threads
<1>6. ASSUME NEW t \in Threads, Call(t)
      PROVE  Rest
  <2>1. PICK o \in Ops :
          /\ Lock(t, o)
          /\ UNCHANGED confVars \/ (EnablePreview(o) /\ UNCHANGED startup_preview)
    BY <1>6 DEF Call
  <2>2. (o.name = "start_preview") \in BOOLEAN
    OBVIOUS
  <2>3. enable_preview' \in BOOLEAN /\ startup_preview' \in BOOLEAN
    BY <1>1, <2>1, <2>2 DEF EnablePreview, TypeOK, confVars
  <2>4. QED
    BY <1>1, <1>6, <2>1, <2>3 DEF Call, Lock, TypeOK, previewVars
<1>7. ASSUME NEW t \in Threads, Proceed(t)
      PROVE  Rest
  <2>1. CASE StopBegins(t)
    BY <1>1, <2>1 DEF StopBegins, TypeOK, confVars
  <2>2. CASE StopReturns(t)
    BY <1>1, <2>2 DEF StopReturns, TypeOK, confVars
  <2>3. CASE Finish(t)
    <3>1. op[t] \in Ops /\ Perform(op[t])
      BY <1>1, <2>3 DEF Finish, HolderInv, Holding
    <3>2. preview.config \in Configs
      BY <1>1 DEF TypeOK, Use
    <3>3. \/ UNCHANGED previewVars
          \/ \E config \in Configs : start(config)
      BY <1>1, <3>1, <3>2, PreviewVarsTyped
    <3>4. /\ pause_thread' \in BOOLEAN /\ end_thread' \in BOOLEAN
          /\ run_thread' \in BOOLEAN /\ thread_paused' \in BOOLEAN
          /\ frame' \in Configs \cup {Closed}
      BY <1>1, <3>3 DEF TypeOK, previewVars, start
    <3>5. QED
      BY <1>1, <2>3, <3>4 DEF Finish, TypeOK, confVars
  <2>4. CASE QuitWakes(t)
    BY <1>1, <2>4 DEF QuitWakes, TypeOK, confVars
  <2>5. CASE QuitReturns(t)
    BY <1>1, <2>5 DEF QuitReturns, TypeOK, previewVars, confVars
  <2>6. QED
    BY <1>7, <2>1, <2>2, <2>3, <2>4, <2>5 DEF Proceed
<1>8. ASSUME UNCHANGED vars
      PROVE  Rest
  BY <1>1, <1>8 DEF vars, TypeOK
<1>9. Rest
  BY <1>3, <1>4, <1>5, <1>6, <1>7, <1>8 DEF Next
<1>10. QED
  BY <1>2, <1>9 DEF TypeOK, Cams

LEMMA HolderStep ==
  ASSUME IInv, [Next]_vars
  PROVE  HolderInv'
<1> USE VideoAssumption DEF Holding, Threads
<1>1. TypeOK /\ HolderInv
  BY DEF IInv
<1>2. CASE PreviewThread
  BY <1>1, <1>2 DEF PreviewThread, HolderInv, opVars
<1>3. CASE StreamReads
  BY <1>1, <1>3 DEF StreamReads, HolderInv, opVars
<1>4. CASE StartupPreview
  <2>1. [name |-> "start_preview"] \in Ops
    BY DEF Ops
  <2>2. QED
    BY <1>1, <1>4, <2>1 DEF StartupPreview, Lock, HolderInv, TypeOK
<1>5. ASSUME NEW t \in Threads, Call(t)
      PROVE  HolderInv'
  BY <1>1, <1>5 DEF Call, Lock, MayCall, HolderInv, TypeOK
<1>6. ASSUME NEW t \in Threads, Proceed(t)
      PROVE  HolderInv'
  BY <1>1, <1>6
     DEF Proceed, StopBegins, StopReturns, Finish, QuitWakes, QuitReturns,
         HolderInv, TypeOK
<1>7. CASE UNCHANGED vars
  BY <1>1, <1>7 DEF vars, HolderInv
<1>8. QED
  BY <1>2, <1>3, <1>4, <1>5, <1>6, <1>7 DEF Next
(* The preview thread's own steps, and what stops and starts it. *)
LEMMA ThreadSteps ==
  ASSUME \/ Main
         \/ /\ preview_pc = "reading" /\ preview_pc' = "showing"
            /\ UNCHANGED <<run_thread, thread_paused>>,
         UNCHANGED <<preview, pause_thread, end_thread, frame>>
  PROVE  /\ Parked => FALSE
         /\ Running => Running'
         /\ Stopping => Stopping'
         /\ Ending => Ending'
BY DEF Main, Parked, Running, Stopping, Ending

LEMMA SameThread ==
  ASSUME UNCHANGED <<preview, pause_thread, end_thread, frame, run_thread,
                     thread_paused, preview_pc>>
  PROVE  /\ Parked' = Parked /\ Running' = Running
         /\ Stopping' = Stopping /\ Ending' = Ending
BY DEF Parked, Running, Stopping, Ending

(* An operation starts the preview thread exactly if it leaves a preview *)
(* without a stream.                                                     *)
LEMMA PerformRests ==
  ASSUME TypeOK, NEW o \in Ops, Perform(o), o.name # "quit",
         UNCHANGED preview_pc,
         (Parked /\ Stopped(o)) \/ (AtRest /\ ~Pauses(o))
  PROVE  AtRest'
<1> USE NeededFacts DEF Use
<1>0. preview \in Use /\ stream \in Use
  BY DEF TypeOK
<1>1. /\ Previewing => (Parked /\ Stopped(o)) \/ (Running /\ ~Pauses(o))
      /\ ~Previewing => Parked
  BY DEF AtRest, Stopped
<1>2. ASSUME UNCHANGED <<preview, stream>>, SetsDevice(o),
             IF Previewing THEN start(preview.config) ELSE UNCHANGED previewVars
      PROVE  AtRest'
  <2>1. Parked
    BY <1>1, <1>2 DEF Pauses
  <2>2. Previewing' = Previewing
    BY <1>2 DEF Previewing
  <2>3. CASE Previewing
    <3>1. start(preview.config) /\ Running'
      BY <1>2, <2>1, <2>3 DEF Parked, Running, start
    <3>2. QED  BY <2>2, <2>3, <3>1 DEF AtRest
  <2>4. CASE ~Previewing
    BY <1>2, <2>1, <2>2, <2>4 DEF AtRest, Parked, previewVars
  <2>5. QED  BY <2>3, <2>4
<1>3. ASSUME UNCHANGED <<coreVars, previewVars>>, ~Pauses(o), ~Stopped(o)
      PROVE  AtRest'
  BY <1>1, <1>3 DEF AtRest, Parked, Running, coreVars, previewVars, Previewing
<1>4. CASE o.name \in {"set_device", "add_device", "remove_device"}
  <2>1. CASE SetsDevice(o)
    BY <1>2, <1>4, <2>1, OpFacts DEF Perform, set_device, replug_device
  <2>2. CASE ~SetsDevice(o)
    BY <1>3, <1>4, <2>2 DEF Perform, SetsDevice, Pauses, Stopped
  <2>3. QED  BY <2>1, <2>2
<1>5. CASE o.name = "set_preview_config"
  <2>1. set_preview_config(o.arg)
    BY <1>5 DEF Perform
  <2>2. CASE Previewing /\ o.arg # preview.config
    <3>1. Parked
      BY <1>1, <1>5, <2>2 DEF Pauses
    <3>2. start(o.arg) /\ preview'.config = o.arg /\ Previewing'
      BY <1>0, <2>1, <2>2 DEF set_preview_config, Previewing
    <3>3. QED  BY <3>1, <3>2 DEF AtRest, Parked, Running, start
  <2>3. CASE ~(Previewing /\ o.arg # preview.config)
    <3>1. IF Previewing THEN Running ELSE Parked
      BY <1>1, <1>5, <2>3 DEF Stopped, SetsDevice
    <3>2. /\ UNCHANGED previewVars /\ Previewing' = Previewing
          /\ Previewing => preview'.config = preview.config
      BY <1>0, <2>1, <2>3 DEF set_preview_config, Previewing
    <3>3. QED  BY <3>1, <3>2 DEF AtRest, Parked, Running, previewVars
  <2>4. QED  BY <2>2, <2>3
<1>6. CASE o.name = "start_preview"
  <2>1. start_preview
    BY <1>6 DEF Perform
  <2>2. /\ preview'.config = preview.config
        /\ Previewing' = ~stream.active
    BY <1>0, <2>1 DEF start_preview, Previewing
  <2>3. CASE Active
    <3>1. UNCHANGED previewVars
      BY <2>1, <2>3 DEF start_preview
    <3>2. Previewing' = Previewing
      BY <2>2, <2>3 DEF Active, Previewing
    <3>3. QED
      BY <1>1, <1>6, <2>2, <3>1, <3>2
         DEF AtRest, Parked, Running, previewVars, Stopped, SetsDevice
  <2>4. CASE ~Active
    <3>1. start(preview.config) /\ Parked /\ Previewing'
      BY <1>1, <2>1, <2>2, <2>4 DEF start_preview, Active, Previewing
    <3>2. QED  BY <2>2, <3>1 DEF AtRest, Parked, Running, start
  <2>5. QED  BY <2>3, <2>4
<1>7. CASE o.name \in {"stop_preview", "start_stream"}
  <2>1. stop_preview \/ start_stream
    BY <1>7 DEF Perform
  <2>2. ~Previewing' /\ UNCHANGED previewVars
    BY <1>0, <2>1 DEF stop_preview, start_stream, Previewing
  <2>3. Parked
    BY <1>1, <1>7 DEF Pauses
  <2>4. QED  BY <2>2, <2>3 DEF AtRest, Parked, previewVars
<1>8. CASE o.name = "set_stream_config"
  <2>1. set_stream_config(o.arg)
    BY <1>8 DEF Perform
  <2>2. UNCHANGED <<preview, previewVars>> /\ Previewing' = Previewing
    BY <1>0, <2>1 DEF set_stream_config, Previewing, previewVars
  <2>3. QED
    BY <1>1, <1>8, <2>2
       DEF AtRest, Parked, Running, previewVars, Stopped, SetsDevice
<1>9. CASE o.name = "stop_stream"
  <2>1. stop_stream
    BY <1>9 DEF Perform
  <2>2. UNCHANGED preview /\ ~stream'.active /\ Previewing' = preview.active
    BY <1>0, <2>1 DEF stop_stream, Previewing
  <2>3. CASE preview.active /\ stream.active
    <3>1. start(preview.config) /\ Parked
      BY <1>1, <2>1, <2>3 DEF stop_stream, Previewing
    <3>2. QED  BY <2>2, <2>3, <3>1 DEF AtRest, Parked, Running, start
  <2>4. CASE ~(preview.active /\ stream.active)
    <3>1. UNCHANGED previewVars /\ Previewing' = Previewing
      BY <1>0, <2>1, <2>2, <2>4 DEF stop_stream, Previewing
    <3>2. QED
      BY <1>1, <1>9, <2>2, <3>1
         DEF AtRest, Parked, Running, previewVars, Stopped, SetsDevice
  <2>5. QED  BY <2>3, <2>4
<1>10. QED
  BY <1>4, <1>5, <1>6, <1>7, <1>8, <1>9 DEF Ops

LEMMA PreviewStep ==
  ASSUME IInv, [Next]_vars
  PROVE  PreviewInv'
<1> USE VideoAssumption DEF Holding, Threads
<1>1. TypeOK /\ HolderInv /\ PreviewInv /\ HolderInv'
  BY HolderStep DEF IInv
<1>2. ASSUME UNCHANGED <<opVars, preview, stream, desired_device>>,
             UNCHANGED cam \/ core_mutex = Nobody
      PROVE  /\ Previewing' = Previewing
             /\ \A t \in Threads :
                  pc[t] \in {"stopping", "ready"} =>
                    Stopped(op[t])' = Stopped(op[t])
  BY <1>1, <1>2 DEF opVars, HolderInv, Stopped, Previewing, Active, SetsDevice
<1>3. CASE PreviewThread
  <2>1. /\ UNCHANGED <<opVars, preview, stream, desired_device,
                       pause_thread, end_thread, frame>>
        /\ UNCHANGED cam \/ core_mutex = Nobody
        /\ \/ Main
           \/ /\ preview_pc = "reading" /\ preview_pc' = "showing"
              /\ UNCHANGED <<run_thread, thread_paused>>
    BY <1>3 DEF PreviewThread, Main, get_frame_data
  <2>2. QED
    BY <1>1, <1>2, <2>1, ThreadSteps DEF PreviewInv, AtRest, opVars
<1>4. CASE StreamReads
  <2>1. /\ UNCHANGED <<opVars, preview, stream, desired_device, previewVars, preview_pc>>
        /\ core_mutex = Nobody
    BY <1>4 DEF StreamReads, get_frame_data
  <2>2. QED
    BY <1>1, <1>2, <2>1, SameThread DEF PreviewInv, AtRest, opVars, previewVars
<1>5. ASSUME NEW t \in Threads, NEW o, Lock(t, o), pc["ui"] # "gone",
             UNCHANGED <<coreVars, previewVars, preview_pc>>
      PROVE  PreviewInv'
  <2>1. /\ \A u \in Threads : pc[u] = "idle"
        /\ \A u \in Threads : pc'[u] \in {"idle", "locked"}
    BY <1>1, <1>5 DEF Lock, HolderInv, TypeOK
  <2>2. AtRest /\ Previewing' = Previewing
    BY <1>1, <1>5, <2>1 DEF PreviewInv, coreVars, Previewing
  <2>3. QED
    BY <1>5, <2>1, <2>2, SameThread DEF PreviewInv, AtRest, coreVars, previewVars
<1>6. CASE StartupPreview
  <2>1. pc["ui"] # "gone"
    BY <1>6 DEF StartupPreview, Lock
  <2>2. QED  BY <1>5, <1>6, <2>1 DEF StartupPreview
<1>7. ASSUME NEW t \in Threads, Call(t)
      PROVE  PreviewInv'
  BY <1>5, <1>7 DEF Call
<1>8. ASSUME NEW t \in Threads, Proceed(t)
      PROVE  PreviewInv'
  <2>1. /\ op[t] \in Ops /\ pc[t] \in Holding
        /\ \A u \in Threads \ {t} : pc[u] = "idle"
        /\ pc[t] \in {"idle", "locked"} => AtRest
    <3>1. pc[t] \in Holding
      BY <1>8 DEF Proceed, StopBegins, StopReturns, Finish, QuitWakes, QuitReturns
    <3>2. \A u \in Threads \ {t} : pc[u] = "idle"
      BY <1>1, <3>1 DEF HolderInv, TypeOK
    <3>3. QED  BY <1>1, <3>1, <3>2 DEF HolderInv, PreviewInv
  <2>2. CASE StopBegins(t)
    <3>1. Running
      BY <2>1, <2>2 DEF StopBegins, Pauses, AtRest, Parked
    <3>2. Stopping'
      BY <2>2, <3>1 DEF StopBegins, Running, Stopping, coreVars
    <3>3. Stopped(op[t])'
      BY <2>2 DEF StopBegins, Pauses, Stopped, coreVars, Previewing, Active, SetsDevice
    <3>4. pc'[t] = "stopping" /\ \A u \in Threads \ {t} : pc'[u] = "idle"
      BY <1>1, <2>1, <2>2 DEF StopBegins, TypeOK
    <3>5. QED  BY <3>2, <3>3, <3>4 DEF PreviewInv
  <2>3. CASE StopReturns(t)
    <3>1. Stopping /\ Stopped(op[t])
      BY <1>1, <2>3 DEF StopReturns, PreviewInv
    <3>2. Parked'
      BY <2>3, <3>1 DEF StopReturns, Stopping, Parked
    <3>3. Stopped(op[t])'
      BY <2>3, <3>1 DEF StopReturns, Stopped, coreVars, Previewing, Active, SetsDevice
    <3>4. pc'[t] = "ready" /\ \A u \in Threads \ {t} : pc'[u] = "idle"
      BY <1>1, <2>1, <2>3 DEF StopReturns, TypeOK
    <3>5. QED  BY <3>2, <3>3, <3>4 DEF PreviewInv
  <2>4. CASE Finish(t)
    <3>1. (Parked /\ Stopped(op[t])) \/ (AtRest /\ ~Pauses(op[t]))
      BY <1>1, <2>1, <2>4 DEF Finish, PreviewInv
    <3>2. AtRest'
      BY <1>1, <2>1, <2>4, <3>1, PerformRests DEF Finish
    <3>3. \A u \in Threads : pc'[u] = "idle"
      BY <1>1, <2>1, <2>4 DEF Finish, TypeOK
    <3>4. QED  BY <3>2, <3>3 DEF PreviewInv
  <2>5. CASE QuitWakes(t)
    <3>1. Parked
      BY <1>1, <2>1, <2>5 DEF QuitWakes, PreviewInv, Pauses, AtRest, Running
    <3>2. Ending'
      BY <2>5, <3>1 DEF QuitWakes, Parked, Ending
    <3>3. pc'[t] = "ending" /\ \A u \in Threads \ {t} : pc'[u] = "idle"
      BY <1>1, <2>1, <2>5 DEF QuitWakes, TypeOK
    <3>4. QED  BY <3>2, <3>3 DEF PreviewInv
  <2>6. CASE QuitReturns(t)
    <3>1. Ending
      BY <1>1, <2>6 DEF QuitReturns, PreviewInv
    <3>2. Ending'
      BY <2>6, <3>1 DEF QuitReturns, Ending, previewVars
    <3>3. pc'[t] = "gone" /\ \A u \in Threads \ {t} : pc'[u] = "idle"
      BY <1>1, <2>1, <2>6 DEF QuitReturns, TypeOK
    <3>4. QED  BY <3>2, <3>3 DEF PreviewInv
  <2>7. QED
    BY <1>8, <2>2, <2>3, <2>4, <2>5, <2>6 DEF Proceed
<1>9. CASE UNCHANGED vars
  BY <1>1, <1>2, <1>9, SameThread DEF vars, opVars, PreviewInv, AtRest
<1>10. QED
  BY <1>3, <1>4, <1>6, <1>7, <1>8, <1>9 DEF Next

-----------------------------------------------------------------------------
LEMMA IInvInit == Init => IInv
<1> SUFFICES ASSUME Init PROVE IInv
  OBVIOUS
<1> USE VideoAssumption DEF Threads
<1> DEFINE none == [manager |-> ManagerOf[Fallback], device |-> Fallback,
                    opened |-> [m \in Managers |-> Closed]]
<1>1. AllClosed(none)
  BY DEF AllClosed, WellFormed, Cams, Managers, Opened
<1>2. AllClosed(cam)
  BY <1>1, SetManagerFacts DEF Init
<1>3. preview \in Use /\ stream \in Use /\ ~Active
  BY DEF Init, Use, Active
<1>4. CameraInUse
  BY <1>2, <1>3 DEF CameraInUse
<1>5. TypeOK
  <2>1. cam \in Cams
    BY <1>2, WellFormedIsTyped
  <2>2. QED  BY <1>2, <1>3, <2>1, WellFormedIsTyped DEF Init, TypeOK, Cams
<1>6. HolderInv
  BY DEF Init, HolderInv, Holding
<1>7. PreviewInv
  BY <1>3 DEF Init, PreviewInv, AtRest, Parked, Previewing, Active
<1>8. QED
  BY <1>4, <1>5, <1>6, <1>7 DEF IInv

LEMMA IInvStep == IInv /\ [Next]_vars => IInv'
BY TypeStep, CameraStep, HolderStep, PreviewStep DEF IInv

LEMMA Inductive == Spec => []IInv
BY IInvInit, IInvStep, PTL DEF Spec

(* VideoInput keeps the types of its variables, whatever the cameras. *)
THEOREM TypeCorrect == Spec => []TypeOK
BY Inductive, PTL DEF IInv

(* Between two operations the camera is open exactly while the preview or  *)
(* a stream uses it, as its user configured it, and no other manager holds *)
(* a device: for any number of cameras, managers and sizes.                *)
THEOREM CameraCorrect == Spec => []CameraMatchesItsUse
<1>1. IInv => CameraMatchesItsUse
  BY DEF IInv, CameraInUse, OpenedWith, AllClosed, WellFormed, Cams,
         CameraMatchesItsUse
<1>2. QED
  BY <1>1, Inductive, PTL

(* The preview thread reads only for a preview that has the camera, into a *)
(* frame of the size that the device writes.                               *)
THEOREM FrameCorrect == Spec => []FrameFitsTheCamera
<1>1. IInv => FrameFitsTheCamera
  <2> SUFFICES ASSUME IInv, core_mutex = Nobody, preview_pc = "reading"
               PROVE  Previewing /\ frame = cam.opened[cam.manager].config
    BY DEF FrameFitsTheCamera
  <2>1. \A t \in Threads : pc[t] \in {"idle", "gone"}
    BY VideoAssumption DEF IInv, HolderInv, TypeOK, Holding, Threads
  <2>2. \A t \in Threads : pc[t] # "gone"
    BY DEF IInv, PreviewInv, Ending
  <2>3. AtRest
    BY <2>1, <2>2 DEF IInv, PreviewInv
  <2>4. Previewing /\ frame = preview.config
    BY <2>3 DEF AtRest, Running, Parked
  <2>5. Active /\ Needed = preview.config
    BY <2>4 DEF Active, Needed, Previewing
  <2>6. QED
    BY <2>4, <2>5 DEF IInv, CameraInUse, OpenedWith
<1>2. QED
  BY <1>1, Inductive, PTL

(* The frame that the preview thread reads into, or shows, is not freed by *)
(* an operation that stops the preview meanwhile.                          *)
THEOREM FrameLives == Spec => []FrameIsNotFreedInUse
<1>1. IInv => FrameIsNotFreedInUse
  <2> SUFFICES ASSUME IInv, preview_pc \in {"reading", "showing"}
               PROVE  frame # Closed
    BY DEF FrameIsNotFreedInUse
  <2>1. preview.config # Closed
    BY VideoAssumption DEF IInv, TypeOK, Use
  <2>2. \A t \in Threads : pc[t] \in {"idle", "locked", "stopping"}
    BY DEF IInv, TypeOK, PreviewInv, Parked, Ending
  <2>3. AtRest \/ Stopping
    BY <2>2 DEF IInv, PreviewInv
  <2>4. QED
    BY <2>1, <2>3 DEF AtRest, Parked, Running, Stopping
<1>2. QED
  BY <1>1, Inductive, PTL
=============================================================================
