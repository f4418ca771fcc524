---------------------------- MODULE Audio_proofs ----------------------------
(***************************************************************************)
(* Theorems about AudioOutput and AudioInput, for any devices, and about   *)
(* AudioScheduler, for any sounds.  The primary device is opened for the   *)
(* stream or for a sound, never for both; PrimaryInv says so at every      *)
(* step, HolderInv that who changes it has its mutex.  Of the microphone   *)
(* they hold for one stream at most: a second opens the device over the    *)
(* open one of the first, and whichever ends first closes it for both.     *)
(***************************************************************************)
EXTENDS Audio, WellFoundedInduction, TLAPS

ManagerNames == {"PTLIB", "null"}

Cores == [device  : [PS -> Known \cup {None}],
          opened  : SUBSET (ManagerNames \X PS),
          active  : BOOLEAN,
          desired : Known \cup {None}]

PrimaryClosed(k) ==
  k \in Cores /\ \A m \in ManagerNames : <<m, "primary">> \notin k.opened

PrimaryOpen(k) ==
  /\ k \in Cores /\ k.device["primary"] # None
  /\ \A m \in ManagerNames :
       <<m, "primary">> \in k.opened <=> m = ManagerOf(k.device["primary"])

PlaysOnPrimary == play.stage = "playing" /\ play.ps = "primary"

PrimaryInv ==
  /\ IF core.active \/ PlaysOnPrimary THEN PrimaryOpen(core) ELSE PrimaryClosed(core)
  /\ ~(core.active /\ PlaysOnPrimary)

(* The scheduler holds a mutex while it plays on that device, and only then. *)
SchedulerInv ==
  \A ps \in PS :
    core_mutex[ps] = "scheduler" <=> (play.stage = "playing" /\ play.ps = ps)

StreamOps == {"start", "stop", "set_buffer_size", "set_frame_data"}

(* The mutexes that an operation may have left to lock. *)
Remaining(name) ==
  CASE name = "set_secondary_device" -> {<<"secondary">>, <<>>}
    [] name = "set_primary_device" ->
         {<<"secondary", "primary">>, <<"primary">>, <<>>}
    [] name \in {"get_devices", "destroy"} ->
         {<<"primary", "secondary">>, <<"secondary">>, <<>>}
    [] OTHER -> {<<"primary">>, <<>>}

(* An operation that has locked the primary mutex. *)
HasPrimary(o) ==
  o.name # "set_secondary_device" /\ o.locks \in {<<"secondary">>, <<>>}

HolderInv ==
  \A t \in {"ui", "stream"} :
    op[t] # None =>
      /\ (op[t].name \in StreamOps) <=> (t = "stream")
      /\ op[t].name = "set_primary_device" => op[t].device \in Known
      /\ op[t].locks \in Remaining(op[t].name)
      /\ HasPrimary(op[t]) => core_mutex["primary"] = t

(* A stream that is on, or about to end, has the device activated. *)
StreamInv ==
  /\ core.active <=> streaming # "off"
  /\ op["stream"] # None =>
       streaming = IF op["stream"].name = "start" THEN "off" ELSE "on"

IInv == /\ TypeOK /\ PrimaryInv
        /\ SchedulerInv /\ HolderInv /\ StreamInv
-----------------------------------------------------------------------------
(* The operators on the devices, as far as the primary one is concerned. *)

LEMMA ManagerFacts ==
  ASSUME AudioOutputAssumption
  PROVE  /\ \A d \in Known : ManagerOf(d) \in ManagerNames
         /\ \A d \in {Unknown, None} : ManagerOf(d) = None
         /\ None \notin Known /\ None \notin ManagerNames /\ Fallback \in Known
BY DEF AudioOutputAssumption, Known, ManagerOf, ManagerNames

LEMMA ClosePrimary ==
  ASSUME AudioOutputAssumption, NEW k, PrimaryOpen(k)
  PROVE  /\ PrimaryClosed(internal_close(k, "primary"))
         /\ internal_close(k, "primary").desired = k.desired
         /\ internal_close(k, "primary").active = k.active
BY DEF PrimaryOpen, PrimaryClosed, internal_close, Cores

LEMMA SetPrimary ==
  ASSUME AudioOutputAssumption, NEW k, PrimaryClosed(k),
         NEW d \in Known \cup {Unknown, None}
  PROVE  /\ PrimaryClosed(internal_set_manager(k, "primary", d))
         /\ internal_set_manager(k, "primary", d).device["primary"] # None
         /\ internal_set_manager(k, "primary", d).desired = k.desired
         /\ internal_set_manager(k, "primary", d).active = k.active
<1> DEFINE e == IF d \in Known THEN d ELSE Fallback
<1>1. e \in Known /\ e # None /\ PS = {"primary", "secondary"}
  BY ManagerFacts DEF PS
<1>2. internal_set_manager(k, "primary", d) = [k EXCEPT !.device["primary"] = e]
  BY ManagerFacts DEF internal_set_manager, Takes
<1> HIDE DEF e
<1>3. QED
  BY <1>1, <1>2 DEF PrimaryClosed, Cores

LEMMA OpenOnePrimary ==
  ASSUME AudioOutputAssumption, NEW k, PrimaryClosed(k), k.device["primary"] # None
  PROVE  /\ PrimaryOpen(Opened(k, "primary"))
         /\ Opened(k, "primary").desired = k.desired
         /\ Opened(k, "primary").active = k.active
<1>1. k.device["primary"] \in Known
  BY DEF PrimaryClosed, Cores, PS
<1>2. ManagerOf(k.device["primary"]) \in ManagerNames
  BY <1>1, ManagerFacts
<1>3. QED
  BY <1>2 DEF PrimaryOpen, PrimaryClosed, Opened, Cores, PS

LEMMA OpenPrimary ==
  ASSUME AudioOutputAssumption, NEW k, PrimaryClosed(k),
         k.device["primary"] # None, NEW k2 \in internal_open(k, "primary")
  PROVE  /\ PrimaryOpen(k2)
         /\ k2.desired = k.desired /\ k2.active = k.active
<1>1. \/ k2 = Opened(k, "primary")
      \/ k2 = Opened(internal_set_manager(k, "primary", Fallback), "primary")
  BY DEF internal_open, internal_set_primary_fallback
<1>2. QED
  BY <1>1, OpenOnePrimary, SetPrimary, ManagerFacts

(* What becomes of the secondary device leaves the primary one alone. *)
LEMMA SecondaryFacts ==
  ASSUME AudioOutputAssumption, NEW k \in Cores,
         NEW d \in Known \cup {Unknown, None}
  PROVE  \A k2 \in {Takes(k, "secondary", None),
                   internal_set_manager(k, "secondary", d),
                   internal_close(k, "secondary")}
                  \cup internal_open(k, "secondary") :
           /\ k2 \in Cores
           /\ PrimaryClosed(k) => PrimaryClosed(k2)
           /\ PrimaryOpen(k) => PrimaryOpen(k2)
           /\ k2.desired = k.desired /\ k2.active = k.active
<1>1. ASSUME NEW e \in Known \cup {None}, NEW k2, k2 = Takes(k, "secondary", e)
      PROVE  /\ k2 \in Cores
             /\ PrimaryClosed(k) => PrimaryClosed(k2)
             /\ PrimaryOpen(k) => PrimaryOpen(k2)
             /\ k2.desired = k.desired /\ k2.active = k.active
  BY <1>1 DEF Takes, PrimaryClosed, PrimaryOpen, Cores, PS
<1>2. \E e \in Known \cup {None} :
        internal_set_manager(k, "secondary", d) = Takes(k, "secondary", e)
  BY ManagerFacts DEF internal_set_manager
<1>3. ASSUME NEW k2, k2 = internal_close(k, "secondary")
      PROVE  /\ k2 \in Cores
             /\ PrimaryClosed(k) => PrimaryClosed(k2)
             /\ PrimaryOpen(k) => PrimaryOpen(k2)
             /\ k2.desired = k.desired /\ k2.active = k.active
  BY <1>3 DEF internal_close, PrimaryClosed, PrimaryOpen, Cores, PS
<1>4. ASSUME k.device["secondary"] # None, NEW k2, k2 = Opened(k, "secondary")
      PROVE  /\ k2 \in Cores
             /\ PrimaryClosed(k) => PrimaryClosed(k2)
             /\ PrimaryOpen(k) => PrimaryOpen(k2)
             /\ k2.desired = k.desired /\ k2.active = k.active
  <2>1. ManagerOf(k.device["secondary"]) \in ManagerNames
    BY <1>4, ManagerFacts DEF Cores, PS
  <2>2. QED
    BY <1>4, <2>1 DEF Opened, PrimaryClosed, PrimaryOpen, Cores, PS
<1>5. \A k2 \in internal_open(k, "secondary") :
        k2 = k \/ (k.device["secondary"] # None /\ k2 = Opened(k, "secondary"))
  BY DEF internal_open
<1>6. QED
  BY <1>1, <1>2, <1>3, <1>4, <1>5

(* The primary device is changed, and reopened if a stream uses it. *)
LEMMA SetPrimaryDeviceFacts ==
  ASSUME AudioOutputAssumption,
         IF core.active THEN PrimaryOpen(core) ELSE PrimaryClosed(core),
         NEW d \in Known \cup {None},
         NEW k \in internal_set_primary_device(core, d)
  PROVE  /\ k.active = core.active
         /\ IF core.active THEN PrimaryOpen(k) ELSE PrimaryClosed(k)
<1> DEFINE k1 == ClosedIfActive(core)
           k2 == SecondaryMadeFree(k1, d)
           k3 == internal_set_manager(k2, "primary", d)
<1>1. PrimaryClosed(k1) /\ k1.active = core.active
  BY ClosePrimary DEF ClosedIfActive
<1>2. PrimaryClosed(k2) /\ k2.active = core.active
  <2> HIDE DEF k1
  <2>1. k1 \in Cores
    BY <1>1 DEF PrimaryClosed
  <2>2. QED
    BY <1>1, <2>1, SecondaryFacts DEF SecondaryMadeFree
<1>3. /\ PrimaryClosed(k3) /\ k3.active = core.active
      /\ k3.device["primary"] # None
  <2> HIDE DEF k2
  <2>1. QED  BY <1>2, SetPrimary
<1>4. k \in ReopenedIfActive(k3)
  BY DEF internal_set_primary_device
<1>5. QED
  <2> HIDE DEF k3
  <2>1. QED  BY <1>3, <1>4, OpenPrimary DEF ReopenedIfActive
-----------------------------------------------------------------------------
(* The operations, once they have their mutexes. *)

UiNames == DOMAIN LocksOf \ StreamOps

LEMMA NameFacts ==
  /\ UiNames = {"set_primary_device", "set_secondary_device", "add_device",
                "remove_device", "get_devices", "destroy"}
  /\ DOMAIN LocksOf = UiNames \cup StreamOps
  /\ "set_secondary_device" \notin StreamOps
BY DEF UiNames, LocksOf, StreamOps

(* Whoever has the primary mutex finds no sound on the device. *)
LEMMA WithPrimaryMutex ==
  ASSUME AudioOutputAssumption, IInv, NEW t \in {"ui", "stream"}, NEW name,
         Returns(t, name), name # "set_secondary_device"
  PROVE  /\ core_mutex["primary"] = t /\ ~PlaysOnPrimary
         /\ IF core.active THEN PrimaryOpen(core) ELSE PrimaryClosed(core)
<1>1. core_mutex["primary"] = t
  BY DEF IInv, HolderInv, HasPrimary, Returns
<1>2. ~PlaysOnPrimary
  BY <1>1 DEF IInv, SchedulerInv, PlaysOnPrimary, PS
<1>3. QED
  BY <1>1, <1>2 DEF IInv, PrimaryInv

LEMMA OpDevice ==
  ASSUME IInv, NEW t \in {"ui", "stream"}, NEW name, Returns(t, name)
  PROVE  /\ op[t].device \in Known \cup {Unknown, None}
         /\ name = "set_primary_device" => op[t].device \in Known
BY DEF IInv, TypeOK, Ops, HolderInv, Returns

UiWork ==
  \/ set_primary_device \/ set_secondary_device \/ add_device
  \/ remove_device \/ get_devices \/ destroy

StreamWork == start \/ stop \/ set_buffer_size \/ set_frame_data

LEMMA UiKeepsPrimary ==
  ASSUME AudioOutputAssumption, IInv, UiWork
  PROVE  PrimaryInv' /\ core' \in Cores /\ core'.active = core.active
<1>1. core \in Cores /\ PrimaryInv /\ UNCHANGED play
  BY DEF IInv, TypeOK, Cores, ManagerNames, UiWork, set_primary_device,
         set_secondary_device, add_device, remove_device, get_devices, destroy,
         Returns
<1>2. core.desired \in Known \cup {None}
  BY <1>1 DEF Cores
<1>3. ASSUME ~PlaysOnPrimary, core'.active = core.active,
             IF core.active THEN PrimaryOpen(core') ELSE PrimaryClosed(core')
      PROVE  PrimaryInv' /\ core' \in Cores
  BY <1>1, <1>3 DEF PrimaryInv, PlaysOnPrimary, PrimaryOpen, PrimaryClosed
<1>4. ASSUME UNCHANGED core
      PROVE  PrimaryInv' /\ core' \in Cores
  BY <1>1, <1>4 DEF PrimaryInv, PlaysOnPrimary
<1>5. CASE set_primary_device
  <2>1. Returns("ui", "set_primary_device")
    BY <1>5 DEF set_primary_device
  <2>2. PICK k \in internal_set_primary_device(core, op["ui"].device) :
          core' = [k EXCEPT !.desired = op["ui"].device]
    BY <1>5 DEF set_primary_device
  <2>3. op["ui"].device \in Known
    BY <2>1, OpDevice
  <2>4. /\ k.active = core.active
        /\ IF core.active THEN PrimaryOpen(k) ELSE PrimaryClosed(k)
    BY <2>1, <2>2, <2>3, WithPrimaryMutex, SetPrimaryDeviceFacts
  <2>5. /\ core'.active = core.active
        /\ IF core.active THEN PrimaryOpen(core') ELSE PrimaryClosed(core')
    BY <2>2, <2>3, <2>4 DEF PrimaryOpen, PrimaryClosed, Cores
  <2>6. QED
    BY <1>3, <2>1, <2>5, WithPrimaryMutex
<1>6. CASE set_secondary_device
  <2>1. op["ui"].device \in Known \cup {Unknown, None}
    BY <1>6, OpDevice DEF set_secondary_device
  <2>2. core' \in {Takes(core, "secondary", None),
                  internal_set_manager(core, "secondary", op["ui"].device)}
    BY <1>6 DEF set_secondary_device
  <2>3. /\ core' \in Cores /\ core'.active = core.active
        /\ PrimaryClosed(core) => PrimaryClosed(core')
        /\ PrimaryOpen(core) => PrimaryOpen(core')
    BY <1>1, <2>1, <2>2, SecondaryFacts
  <2>4. QED
    BY <1>1, <2>3 DEF PrimaryInv, PlaysOnPrimary
<1>7. CASE add_device
  <2>1. Returns("ui", "add_device")
    BY <1>7 DEF add_device
  <2>2. core' = core \/ core' \in internal_set_primary_device(core, core.desired)
    BY <1>7 DEF add_device
  <2>3. QED
    BY <1>2, <1>3, <1>4, <2>1, <2>2, WithPrimaryMutex, SetPrimaryDeviceFacts
<1>8. CASE remove_device
  <2>1. Returns("ui", "remove_device")
    BY <1>8 DEF remove_device
  <2>2. core' = core \/ core' \in internal_set_primary_device(core, Fallback)
    BY <1>8 DEF remove_device
  <2>3. QED
    BY <1>3, <1>4, <2>1, <2>2, WithPrimaryMutex, SetPrimaryDeviceFacts,
       ManagerFacts
<1>9. CASE get_devices \/ destroy
  BY <1>4, <1>9 DEF get_devices, destroy
<1>10. QED
  BY <1>5, <1>6, <1>7, <1>8, <1>9 DEF UiWork

LEMMA StreamKeepsPrimary ==
  ASSUME AudioOutputAssumption, IInv, StreamWork
  PROVE  PrimaryInv' /\ core' \in Cores /\ (core'.active <=> streaming' # "off")
<1>1. core \in Cores /\ PrimaryInv /\ UNCHANGED play
  BY DEF IInv, TypeOK, Cores, ManagerNames, StreamWork, start, stop,
         set_buffer_size, set_frame_data, Returns
<1>2. /\ core.desired \in Known \cup {None}
      /\ core.active <=> streaming # "off"
  BY <1>1 DEF Cores, IInv, StreamInv
<1>3. ASSUME ~PlaysOnPrimary,
             IF core'.active THEN PrimaryOpen(core') ELSE PrimaryClosed(core')
      PROVE  PrimaryInv' /\ core' \in Cores
  BY <1>1, <1>3 DEF PrimaryInv, PlaysOnPrimary, PrimaryOpen, PrimaryClosed
<1>4. PICK name \in StreamOps : Returns("stream", name)
  BY DEF StreamWork, start, stop, set_buffer_size, set_frame_data, StreamOps
<1>5. /\ ~PlaysOnPrimary
      /\ IF core.active THEN PrimaryOpen(core) ELSE PrimaryClosed(core)
  BY <1>4, NameFacts, WithPrimaryMutex
<1>6. CASE start
  <2>1. ~core.active /\ streaming' = "on"
    BY <1>2, <1>6 DEF start, Returns, IInv, StreamInv
  <2>2. PICK k \in internal_open(
               internal_set_manager(core, "primary", core.desired), "primary") :
          core' = [k EXCEPT !.active = TRUE]
    BY <1>6, <2>1 DEF start
  <2>3. PrimaryOpen(k)
    BY <1>2, <1>5, <2>1, <2>2, SetPrimary, OpenPrimary
  <2>4. PrimaryOpen(core') /\ core'.active
    BY <2>2, <2>3 DEF PrimaryOpen, Cores
  <2>5. QED
    BY <1>3, <1>5, <2>1, <2>4
<1>7. CASE stop
  <2>1. core.active /\ streaming' = "off"
    BY <1>2, <1>7 DEF stop, Returns, IInv, StreamInv
  <2> DEFINE k == internal_set_manager(
                    internal_close(core, "primary"), "primary", core.desired)
  <2>2. core' = [k EXCEPT !.active = FALSE]
    BY <1>7 DEF stop
  <2>3. PrimaryClosed(k)
    BY <1>2, <1>5, <2>1, ClosePrimary, SetPrimary
  <2> HIDE DEF k
  <2>4. PrimaryClosed(core') /\ core'.active = FALSE
    BY <2>2, <2>3 DEF PrimaryClosed, Cores
  <2>5. QED
    BY <1>3, <1>5, <2>1, <2>4
<1>8. CASE set_buffer_size
  BY <1>2, <1>3, <1>5, <1>8 DEF set_buffer_size
<1>9. CASE set_frame_data
  <2>1. core.active /\ UNCHANGED streaming
    BY <1>2, <1>9 DEF set_frame_data, Returns, IInv, StreamInv
  <2>2. CASE UNCHANGED core
    BY <1>2, <1>3, <1>5, <2>1, <2>2
  <2>3. CASE core' \in internal_open(
               internal_set_primary_fallback(internal_close(core, "primary")),
               "primary")
    <3>1. /\ PrimaryClosed(internal_close(core, "primary"))
          /\ internal_close(core, "primary").active = core.active
      BY <1>5, <2>1, ClosePrimary
    <3>2. PrimaryOpen(core') /\ core'.active = core.active
      BY <2>3, <3>1, SetPrimary, OpenPrimary, ManagerFacts
         DEF internal_set_primary_fallback
    <3>3. QED
      BY <1>2, <1>3, <1>5, <2>1, <3>2
  <2>4. QED  BY <1>9, <2>2, <2>3 DEF set_frame_data
<1>10. QED
  BY <1>6, <1>7, <1>8, <1>9 DEF StreamWork

LEMMA SchedulerKeepsPrimary ==
  ASSUME AudioOutputAssumption, IInv, SchedulerStep \/ play_buffer
  PROVE  PrimaryInv' /\ core' \in Cores /\ core'.active = core.active
<1>1. /\ core \in Cores /\ PrimaryInv
      /\ play \in [ps : PS, stage : {"resting", "locking", "playing", "ended"}]
  BY DEF IInv, TypeOK, Cores, ManagerNames
<1>2. ASSUME UNCHANGED core, ~PlaysOnPrimary, ~PlaysOnPrimary'
      PROVE  PrimaryInv' /\ core' \in Cores
  BY <1>1, <1>2 DEF PrimaryInv
<1>3. CASE play_buffer \/ Ends
  BY <1>2, <1>3 DEF play_buffer, Ends, Scheduler, PlaysOnPrimary
<1>4. CASE PlayEnds
  <2>1. core' = internal_close(core, play.ps) /\ ~PlaysOnPrimary'
    BY <1>4 DEF PlayEnds, Scheduler, PlaysOnPrimary
  <2>2. CASE play.ps = "primary"
    <3>1. PlaysOnPrimary /\ ~core.active /\ PrimaryOpen(core)
      BY <1>1, <1>4, <2>2 DEF PlayEnds, PlaysOnPrimary, PrimaryInv
    <3>2. PrimaryClosed(core') /\ core'.active = core.active
      BY <2>1, <2>2, <3>1, ClosePrimary
    <3>3. QED
      BY <2>1, <3>1, <3>2 DEF PrimaryInv, PrimaryClosed
  <2>3. CASE play.ps = "secondary"
    <3>1. /\ core' \in Cores /\ core'.active = core.active
          /\ PrimaryClosed(core) => PrimaryClosed(core')
          /\ PrimaryOpen(core) => PrimaryOpen(core')
      BY <1>1, <2>1, <2>3, SecondaryFacts
    <3>2. ~PlaysOnPrimary
      BY <2>3 DEF PlaysOnPrimary
    <3>3. QED
      BY <1>1, <2>1, <3>1, <3>2 DEF PrimaryInv
  <2>4. QED  BY <1>1, <2>2, <2>3 DEF PS
<1>5. CASE play_buffer_locks
  <2>1. play.stage = "locking" /\ ~PlaysOnPrimary
    BY <1>5 DEF play_buffer_locks, PlaysOnPrimary
  <2>2. CASE ~Plays(play.ps)
    BY <1>2, <1>5, <2>1, <2>2 DEF play_buffer_locks, Scheduler, PlaysOnPrimary
  <2>3. CASE Plays(play.ps)
    <3>1. /\ core' \in internal_open(core, play.ps)
          /\ IF <<ManagerOf(core'.device[play.ps]), play.ps>> \in core'.opened
               THEN Scheduler(play.ps, "playing") /\ Has({play.ps})
               ELSE Scheduler("primary", "resting") /\ Has({})
      BY <1>5, <2>3 DEF play_buffer_locks
    <3>2. CASE play.ps = "primary"
      <4>1. PrimaryClosed(core) /\ ~core.active /\ core.device["primary"] # None
        BY <1>1, <2>1, <2>3, <3>2 DEF PrimaryInv, Plays
      <4>2. PrimaryOpen(core') /\ core'.active = core.active
        BY <3>1, <3>2, <4>1, OpenPrimary
      <4>3. <<ManagerOf(core'.device["primary"]), "primary">> \in core'.opened
        BY <4>2, ManagerFacts DEF PrimaryOpen, Cores, PS
      <4>4. play' = [ps |-> "primary", stage |-> "playing"]
        BY <3>1, <3>2, <4>3 DEF Scheduler
      <4>5. QED
        BY <4>1, <4>2, <4>4 DEF PrimaryInv, PlaysOnPrimary, PrimaryOpen
    <3>3. CASE play.ps = "secondary"
      <4>1. /\ core' \in Cores /\ core'.active = core.active
            /\ PrimaryClosed(core) => PrimaryClosed(core')
            /\ PrimaryOpen(core) => PrimaryOpen(core')
        BY <1>1, <3>1, <3>3, SecondaryFacts
      <4>2. ~PlaysOnPrimary'
        BY <3>1, <3>3 DEF Scheduler, PlaysOnPrimary
      <4>3. QED
        BY <1>1, <2>1, <4>1, <4>2 DEF PrimaryInv
    <3>4. QED  BY <1>1, <3>2, <3>3 DEF PS
  <2>4. QED  BY <2>2, <2>3
<1>6. QED
  BY <1>3, <1>4, <1>5 DEF SchedulerStep
-----------------------------------------------------------------------------
(* Calls, locks and waits leave the devices alone. *)

LEMMA LocksFacts ==
  ASSUME NEW name \in DOMAIN LocksOf
  PROVE  /\ LocksOf[name] \in Remaining(name)
         /\ \A l \in Remaining(name) :
              l # <<>> => Head(l) \in PS /\ Tail(l) \in Remaining(name)
         /\ \A l \in Remaining(name) :
              l # <<>> /\ name # "set_secondary_device"
                /\ Tail(l) \in {<<"secondary">>, <<>>}
              => Head(l) = "primary" \/ l \in {<<"secondary">>, <<>>}
         /\ Remaining(name) \subseteq
              {<<>>, <<"primary">>, <<"secondary">>,
               <<"primary", "secondary">>, <<"secondary", "primary">>}
         /\ name # "set_secondary_device" =>
              LocksOf[name] \notin {<<"secondary">>, <<>>}
<1>1. name \in UiNames \cup StreamOps
  BY NameFacts
<1>2. /\ LocksOf["set_primary_device"] = <<"secondary", "primary">>
      /\ LocksOf["set_secondary_device"] = <<"secondary">>
      /\ \A n \in {"get_devices", "destroy"} : LocksOf[n] = <<"primary", "secondary">>
      /\ \A n \in {"add_device", "remove_device"} \cup StreamOps :
           LocksOf[n] = <<"primary">>
  BY DEF LocksOf, StreamOps
<1>3. /\ Tail(<<"primary">>) = <<>> /\ Head(<<"primary">>) = "primary"
      /\ Tail(<<"secondary">>) = <<>> /\ Head(<<"secondary">>) = "secondary"
      /\ Tail(<<"primary", "secondary">>) = <<"secondary">>
      /\ Head(<<"primary", "secondary">>) = "primary"
      /\ Tail(<<"secondary", "primary">>) = <<"primary">>
      /\ Head(<<"secondary", "primary">>) = "secondary"
  OBVIOUS
<1>4. /\ <<>> # <<"primary">> /\ <<>> # <<"secondary">>
      /\ <<"primary">> # <<"secondary">>
      /\ <<"primary", "secondary">> \notin {<<>>, <<"primary">>, <<"secondary">>}
      /\ <<"secondary", "primary">> \notin {<<>>, <<"primary">>, <<"secondary">>}
  OBVIOUS
<1>5. CASE name = "set_secondary_device"
  <2>1. Remaining(name) = {<<"secondary">>, <<>>}
    BY <1>5 DEF Remaining
  <2>2. QED  BY <1>2, <1>3, <1>4, <1>5, <2>1 DEF PS
<1>6. CASE name = "set_primary_device"
  <2>1. Remaining(name) = {<<"secondary", "primary">>, <<"primary">>, <<>>}
    BY <1>6 DEF Remaining
  <2>2. QED  BY <1>2, <1>3, <1>4, <1>6, <2>1 DEF PS
<1>7. CASE name \in {"get_devices", "destroy"}
  <2>1. Remaining(name) = {<<"primary", "secondary">>, <<"secondary">>, <<>>}
    BY <1>7 DEF Remaining
  <2>2. QED  BY <1>2, <1>3, <1>4, <1>7, <2>1 DEF PS
<1>8. CASE name \in {"add_device", "remove_device"} \cup StreamOps
  <2>1. Remaining(name) = {<<"primary">>, <<>>}
    BY <1>8 DEF Remaining, StreamOps
  <2>2. QED  BY <1>2, <1>3, <1>4, <1>8, <2>1 DEF PS
<1>9. QED
  BY <1>1, <1>5, <1>6, <1>7, <1>8, NameFacts
(* The mutexes and operations, but for the devices. *)
ThreadsTyped ==
  /\ core_mutex \in [PS -> Threads \cup {None}]
  /\ op \in [{"ui", "stream"} -> Ops \cup {None}]
  /\ streaming \in {"off", "on", "asleep"}
  /\ play \in [ps : PS, stage : {"resting", "locking", "playing", "ended"}]
  /\ yield \in BOOLEAN /\ end_thread \in BOOLEAN

LEMMA TypeParts ==
  /\ TypeOK <=> ThreadsTyped /\ core \in Cores
  /\ TypeOK' <=> ThreadsTyped' /\ core' \in Cores
BY DEF TypeOK, ThreadsTyped, Cores, ManagerNames

LEMMA SamePrimary ==
  ASSUME PrimaryInv, UNCHANGED <<core, play>>
  PROVE  PrimaryInv'
BY DEF PrimaryInv, PlaysOnPrimary

LEMMA CallFacts ==
  ASSUME AudioOutputAssumption, IInv, NEW t \in {"ui", "stream"},
         NEW name \in IF t = "ui" THEN UiNames ELSE StreamOps,
         NEW d \in Known \cup {Unknown, None},
         name = "set_primary_device" => d \in Known,
         Call(t, name, d)
  PROVE  /\ UNCHANGED <<core, core_mutex, play>>
         /\ op' \in [{"ui", "stream"} -> Ops \cup {None}]
         /\ op'[t].name = name
         /\ \A u \in {"ui", "stream"} \ {t} : op'[u] = op[u]
         /\ PrimaryInv' /\ SchedulerInv' /\ HolderInv'
<1> DEFINE o == [name |-> name, device |-> d, locks |-> LocksOf[name]]
<1>1. /\ UNCHANGED <<core, core_mutex, play>> /\ op[t] = None
      /\ op' = [op EXCEPT ![t] = o]
  BY DEF Call
<1>2. op \in [{"ui", "stream"} -> Ops \cup {None}]
  BY DEF IInv, TypeOK
<1>3. name \in DOMAIN LocksOf
  BY NameFacts
<1>4. /\ o \in Ops /\ o.locks \in Remaining(name) /\ ~HasPrimary(o)
      /\ o.name = name /\ o.device = d
  BY <1>3, LocksFacts DEF Ops, HasPrimary
<1>5. (name \in StreamOps) <=> (t = "stream")
  BY DEF UiNames
<1> HIDE DEF o
<1>6. /\ op' \in [{"ui", "stream"} -> Ops \cup {None}] /\ op'[t] = o
      /\ \A u \in {"ui", "stream"} \ {t} : op'[u] = op[u]
  BY <1>1, <1>2, <1>4
<1>7. HolderInv'
  BY <1>1, <1>4, <1>5, <1>6 DEF IInv, HolderInv
<1>8. PrimaryInv' /\ SchedulerInv'
  BY <1>1, SamePrimary DEF IInv, SchedulerInv
<1>9. QED
  BY <1>1, <1>4, <1>6, <1>7, <1>8

LEMMA CallStep ==
  ASSUME AudioOutputAssumption, IInv, CallsUi \/ CallsStream \/ WritesOn
  PROVE  IInv'
<1>1. yield' \in BOOLEAN /\ UNCHANGED end_thread
  BY DEF CallsUi, CallsStream, WritesOn, IInv, TypeOK
<1>2. CASE CallsUi
  <2>1. PICK name \in UiNames, d \in Known \cup {Unknown, None} :
          /\ Call("ui", name, d)
          /\ name = "set_primary_device" => d \in Known
    BY <1>2, NameFacts DEF CallsUi, Known
  <2>2. UNCHANGED streaming
    BY <1>2 DEF CallsUi
  <2>3. /\ UNCHANGED <<core, core_mutex, play>>
        /\ op' \in [{"ui", "stream"} -> Ops \cup {None}]
        /\ op'["stream"] = op["stream"]
        /\ PrimaryInv' /\ SchedulerInv' /\ HolderInv'
    BY <2>1, CallFacts
  <2>4. StreamInv' /\ TypeOK'
    BY <1>1, <2>2, <2>3 DEF IInv, StreamInv, TypeOK
  <2>5. QED  BY <2>3, <2>4 DEF IInv
<1>3. CASE CallsStream \/ WritesOn
  <2>1. PICK name \in StreamOps :
          /\ Call("stream", name, None)
          /\ (name = "start") <=> (streaming = "off")
          /\ streaming' = IF streaming = "off" THEN "off" ELSE "on"
    BY <1>3 DEF CallsStream, WritesOn, StreamOps
  <2>2. /\ UNCHANGED <<core, core_mutex, play>>
        /\ op' \in [{"ui", "stream"} -> Ops \cup {None}]
        /\ op'["stream"].name = name
        /\ PrimaryInv' /\ SchedulerInv' /\ HolderInv'
    <3>1. name # "set_primary_device"
      BY DEF StreamOps
    <3>2. QED  BY <2>1, <3>1, CallFacts
  <2>3. StreamInv' /\ TypeOK'
    BY <1>1, <2>1, <2>2 DEF IInv, StreamInv, TypeOK
  <2>4. QED  BY <2>2, <2>3 DEF IInv
<1>4. QED
  BY <1>2, <1>3

LEMMA LockStep ==
  ASSUME AudioOutputAssumption, IInv, NEW t \in {"ui", "stream"}, Lock(t)
  PROVE  IInv'
<1> DEFINE ps == Head(op[t].locks)
<1>1. /\ op[t] # None /\ op[t].locks # <<>> /\ core_mutex[ps] = None
      /\ core_mutex' = [core_mutex EXCEPT ![ps] = t]
      /\ op' = [op EXCEPT ![t].locks = Tail(op[t].locks)]
      /\ UNCHANGED <<core, streaming, play, end_thread>>
  BY DEF Lock, Free
<1>2. /\ op \in [{"ui", "stream"} -> Ops \cup {None}] /\ op[t] \in Ops
      /\ core_mutex \in [PS -> Threads \cup {None}] /\ t \in Threads
  BY <1>1 DEF IInv, TypeOK, Threads
<1>3. /\ op[t].name \in DOMAIN LocksOf
      /\ op[t].locks \in Remaining(op[t].name)
  BY <1>1, <1>2 DEF Ops, IInv, HolderInv
<1>4. ps \in PS /\ Tail(op[t].locks) \in Remaining(op[t].name)
  BY <1>1, <1>3, LocksFacts
<1>5. /\ op'[t] \in Ops /\ op'[t].name = op[t].name
      /\ op'[t].device = op[t].device /\ op'[t].locks = Tail(op[t].locks)
      /\ op' \in [{"ui", "stream"} -> Ops \cup {None}]
      /\ \A u \in {"ui", "stream"} \ {t} : op'[u] = op[u]
  <2>1. Tail(op[t].locks) \in {<<>>, <<"primary">>, <<"secondary">>,
                  <<"primary", "secondary">>, <<"secondary", "primary">>}
    BY <1>3, <1>4, LocksFacts
  <2>2. [op[t] EXCEPT !.locks = Tail(op[t].locks)] \in Ops
    BY <1>2, <2>1 DEF Ops
  <2>3. op' = [op EXCEPT ![t] = [op[t] EXCEPT !.locks = Tail(op[t].locks)]]
    BY <1>1
  <2>4. op'[t] = [op[t] EXCEPT !.locks = Tail(op[t].locks)]
    BY <1>2, <2>3
  <2>5. QED  BY <1>2, <2>2, <2>3, <2>4 DEF Ops
<1>6. /\ core_mutex' \in [PS -> Threads \cup {None}]
      /\ core_mutex'[ps] = t
      /\ \A q \in PS \ {ps} : core_mutex'[q] = core_mutex[q]
  BY <1>1, <1>2, <1>4
<1>7. yield' \in BOOLEAN
  BY DEF Lock, IInv, TypeOK
<1>8. TypeOK'
  BY <1>1, <1>5, <1>6, <1>7 DEF IInv, TypeOK
<1>9. PrimaryInv' /\ StreamInv'
  BY <1>1, <1>5, SamePrimary DEF IInv, StreamInv
<1>10. SchedulerInv'
  BY <1>1, <1>4, <1>6 DEF IInv, SchedulerInv, AudioOutputAssumption, Threads
<1>11. HasPrimary(op[t])' => core_mutex'["primary"] = t
  <2> SUFFICES ASSUME HasPrimary(op[t])'
               PROVE  core_mutex'["primary"] = t
    OBVIOUS
  <2>1. ps = "primary" \/ HasPrimary(op[t])
    BY <1>1, <1>3, <1>5, LocksFacts DEF HasPrimary
  <2>2. QED  BY <1>1, <1>6, <2>1 DEF IInv, HolderInv, PS
<1>12. \A u \in {"ui", "stream"} \ {t} :
         op[u] # None /\ HasPrimary(op[u]) => core_mutex'["primary"] = u
  <2>1. None \notin {"ui", "stream"}
    BY DEF AudioOutputAssumption, Threads
  <2>2. QED  BY <1>1, <1>6, <2>1 DEF IInv, HolderInv, PS
<1>13. HasPrimary(op[t])' = HasPrimary(op'[t])
  BY DEF HasPrimary
<1>14. HolderInv'
  <2>1. ASSUME NEW u \in {"ui", "stream"}, op'[u] # None
        PROVE  /\ (op'[u].name \in StreamOps) <=> (u = "stream")
               /\ op'[u].name = "set_primary_device" => op'[u].device \in Known
               /\ op'[u].locks \in Remaining(op'[u].name)
               /\ HasPrimary(op'[u]) => core_mutex'["primary"] = u
    <3>1. CASE u = t
      BY <1>1, <1>4, <1>5, <1>11, <1>13, <3>1 DEF IInv, HolderInv
    <3>2. CASE u # t
      BY <1>5, <1>12, <2>1, <3>2 DEF IInv, HolderInv
    <3>3. QED  BY <3>1, <3>2
  <2>2. QED  BY <2>1 DEF HolderInv, HasPrimary
<1>15. QED
  BY <1>8, <1>9, <1>10, <1>14 DEF IInv
LEMMA ReturnFacts ==
  ASSUME AudioOutputAssumption, IInv, NEW t \in {"ui", "stream"}, NEW name,
         Returns(t, name)
  PROVE  /\ op'[t] = None
         /\ \A u \in {"ui", "stream"} \ {t} : op'[u] = op[u]
         /\ op' \in [{"ui", "stream"} -> Ops \cup {None}]
         /\ core_mutex' \in [PS -> Threads \cup {None}]
         /\ UNCHANGED <<play, yield, end_thread>>
         /\ SchedulerInv' /\ HolderInv'
<1>1. /\ op' = [op EXCEPT ![t] = None]
      /\ core_mutex' = [ps \in PS |-> IF Free(ps) \/ core_mutex[ps] # t
                                         THEN core_mutex[ps] ELSE None]
      /\ UNCHANGED <<play, yield, end_thread>>
  BY DEF Returns
<1>2. /\ op \in [{"ui", "stream"} -> Ops \cup {None}]
      /\ core_mutex \in [PS -> Threads \cup {None}]
  BY DEF IInv, TypeOK
<1>3. /\ op'[t] = None
      /\ \A u \in {"ui", "stream"} \ {t} : op'[u] = op[u]
      /\ op' \in [{"ui", "stream"} -> Ops \cup {None}]
  BY <1>1, <1>2
<1>4. /\ core_mutex' \in [PS -> Threads \cup {None}]
      /\ \A ps \in PS : core_mutex'[ps] = core_mutex[ps]
                       \/ (core_mutex[ps] = t /\ core_mutex'[ps] = None)
  BY <1>1, <1>2
<1>5. SchedulerInv'
  BY <1>1, <1>4 DEF IInv, SchedulerInv, AudioOutputAssumption, Threads
<1>6. HolderInv'
  <2>1. ASSUME NEW u \in {"ui", "stream"}, op'[u] # None
        PROVE  /\ (op'[u].name \in StreamOps) <=> (u = "stream")
               /\ op'[u].name = "set_primary_device" => op'[u].device \in Known
               /\ op'[u].locks \in Remaining(op'[u].name)
               /\ HasPrimary(op'[u]) => core_mutex'["primary"] = u
    BY <1>3, <1>4, <2>1 DEF IInv, HolderInv, PS
  <2>2. QED  BY <2>1 DEF HolderInv, HasPrimary
<1>7. QED
  BY <1>1, <1>3, <1>4, <1>5, <1>6

LEMMA UiWorkStep ==
  ASSUME AudioOutputAssumption, IInv, UiWork
  PROVE  IInv'
<1>1. PICK name \in UiNames : Returns("ui", name)
  BY NameFacts DEF UiWork, set_primary_device, set_secondary_device,
                   add_device,
                   remove_device, get_devices, destroy
<1>2. UNCHANGED streaming
  BY DEF UiWork, set_primary_device, set_secondary_device, add_device,
         remove_device, get_devices, destroy
<1>3. PrimaryInv' /\ core' \in Cores /\ core'.active = core.active
  BY UiKeepsPrimary
<1>4. /\ op'["stream"] = op["stream"]
      /\ op' \in [{"ui", "stream"} -> Ops \cup {None}]
      /\ core_mutex' \in [PS -> Threads \cup {None}]
      /\ UNCHANGED <<play, yield, end_thread>>
      /\ SchedulerInv' /\ HolderInv'
  BY <1>1, ReturnFacts
<1>5. TypeOK'
  BY <1>2, <1>3, <1>4, TypeParts DEF IInv, ThreadsTyped
<1>6. StreamInv'
  BY <1>2, <1>3, <1>4 DEF IInv, StreamInv
<1>7. QED
  BY <1>3, <1>4, <1>5, <1>6 DEF IInv

LEMMA StreamWorkStep ==
  ASSUME AudioOutputAssumption, IInv, StreamWork
  PROVE  IInv'
<1>1. PICK name \in StreamOps : Returns("stream", name)
  BY DEF StreamWork, start, stop, set_buffer_size, set_frame_data, StreamOps
<1>2. streaming' \in {"off", "on", "asleep"}
  BY DEF StreamWork, start, stop, set_buffer_size, set_frame_data, IInv, TypeOK
<1>3. PrimaryInv' /\ core' \in Cores /\ (core'.active <=> streaming' # "off")
  BY StreamKeepsPrimary
<1>4. /\ op'["stream"] = None
      /\ op' \in [{"ui", "stream"} -> Ops \cup {None}]
      /\ core_mutex' \in [PS -> Threads \cup {None}]
      /\ UNCHANGED <<play, yield, end_thread>>
      /\ SchedulerInv' /\ HolderInv'
  BY <1>1, ReturnFacts
<1>5. TypeOK'
  BY <1>2, <1>3, <1>4, TypeParts DEF IInv, ThreadsTyped
<1>6. StreamInv'
  BY <1>3, <1>4 DEF StreamInv
<1>7. QED
  BY <1>3, <1>4, <1>5, <1>6 DEF IInv

LEMMA SchedulerWorkStep ==
  ASSUME AudioOutputAssumption, IInv, SchedulerStep \/ play_buffer
  PROVE  IInv'
<1>1. PrimaryInv' /\ core' \in Cores /\ core'.active = core.active
  BY SchedulerKeepsPrimary
<1>2. UNCHANGED <<op, yield, streaming, end_thread>>
  BY DEF SchedulerStep, play_buffer, play_buffer_locks, PlayEnds, Ends,
         Scheduler
<1>3. /\ play \in [ps : PS, stage : {"resting", "locking", "playing", "ended"}]
      /\ core_mutex \in [PS -> Threads \cup {None}]
      /\ SchedulerInv
      /\ "scheduler" \in Threads /\ None # "scheduler" /\ "primary" \in PS
  BY DEF IInv, TypeOK, Threads, AudioOutputAssumption, PS
<1> DEFINE Moves == /\ play' \in [ps : PS, stage : {"resting", "locking", "playing", "ended"}]
                    /\ core_mutex' \in [PS -> Threads \cup {None}]
                    /\ SchedulerInv'
                    /\ \A ps \in PS : \A t \in {"ui", "stream"} :
                         core_mutex[ps] = t => core_mutex'[ps] = t
<1>4. ASSUME UNCHANGED core_mutex, NEW ps \in PS,
             NEW stage \in {"resting", "locking", "ended"}, Scheduler(ps, stage),
             play.stage # "playing"
      PROVE  Moves
  BY <1>3, <1>4 DEF Scheduler, SchedulerInv
<1>5. ASSUME Has({}), Scheduler("primary", "resting")
      PROVE  Moves
  BY <1>3, <1>5 DEF Scheduler, SchedulerInv, Has
<1>6. ASSUME Has({play.ps}), Scheduler(play.ps, "playing"), Free(play.ps)
      PROVE  Moves
  <2>1. core_mutex[play.ps] = None /\ play.ps \in PS /\ None \notin {"ui", "stream"}
    BY <1>3, <1>6 DEF Free, AudioOutputAssumption, Threads
  <2>2. QED
    BY <1>3, <1>6, <2>1 DEF Scheduler, SchedulerInv, Has
<1>7. ASSUME play_buffer_locks
      PROVE  Moves
  <2>1. play.stage = "locking" /\ Free(play.ps)
    BY <1>7 DEF play_buffer_locks
  <2>2. \/ Scheduler(play.ps, "playing") /\ Has({play.ps})
        \/ Scheduler("primary", "resting") /\ Has({})
        \/ /\ Scheduler("primary", "locking") \/ Scheduler("primary", "resting")
           /\ UNCHANGED core_mutex
    BY <1>7 DEF play_buffer_locks
  <2> HIDE DEF Moves
  <2>3. QED
    BY <1>3, <1>4, <1>5, <1>6, <2>1, <2>2
<1>8. Moves
  <2> HIDE DEF Moves
  <2>1. CASE play_buffer
    BY <1>4, <2>1 DEF play_buffer
  <2>2. CASE PlayEnds
    BY <1>5, <2>2 DEF PlayEnds
  <2>3. CASE Ends
    BY <1>3, <1>4, <2>3 DEF Ends
  <2>4. QED
    BY <1>7, <2>1, <2>2, <2>3 DEF SchedulerStep
<1>9. TypeOK'
  BY <1>1, <1>2, <1>8, TypeParts DEF IInv, ThreadsTyped
<1>10. StreamInv'
  BY <1>1, <1>2 DEF IInv, StreamInv
<1>11. HolderInv'
  BY <1>2, <1>3, <1>8 DEF IInv, HolderInv, HasPrimary
<1>12. QED
  BY <1>1, <1>8, <1>9, <1>10, <1>11 DEF IInv

LEMMA RestStep ==
  ASSUME AudioOutputAssumption, IInv, quit \/ Yields
  PROVE  IInv'
<1>1. UNCHANGED <<core, core_mutex, op, play>>
  BY DEF quit, Yields
<1>2. \/ UNCHANGED streaming
      \/ op["stream"] = None /\ streaming = "on" /\ streaming' = "asleep"
  BY DEF quit, Yields
<1>3. TypeOK'
  BY <1>1, <1>2 DEF quit, Yields, IInv, TypeOK
<1>4. QED
  BY <1>1, <1>2, <1>3, SamePrimary
     DEF IInv, StreamInv, SchedulerInv, HolderInv, HasPrimary

-----------------------------------------------------------------------------
LEMMA IInvInit == AudioOutputAssumption /\ Init => IInv
<1> SUFFICES ASSUME AudioOutputAssumption, Init PROVE IInv
  OBVIOUS
<1>1. /\ core \in Cores /\ core.opened = {} /\ core.active = FALSE
  BY DEF Init, Cores
<1>2. TypeOK
  BY <1>1, TypeParts DEF Init, ThreadsTyped, PS
<1>3. PrimaryInv
  BY <1>1 DEF Init, PrimaryInv, PrimaryClosed, PlaysOnPrimary
<1>4. SchedulerInv /\ HolderInv /\ StreamInv
  BY <1>1 DEF Init, SchedulerInv, HolderInv, StreamInv, AudioOutputAssumption,
              Threads
<1>5. QED
  BY <1>2, <1>3, <1>4 DEF IInv

LEMMA IInvStep == AudioOutputAssumption /\ IInv /\ [Next]_vars => IInv'
<1> SUFFICES ASSUME AudioOutputAssumption, IInv, [Next]_vars
             PROVE  IInv'
  OBVIOUS
<1>1. CASE UiStep \/ CallsUi
  BY <1>1, CallStep, LockStep, UiWorkStep, RestStep DEF UiStep, UiWork
<1>2. CASE StreamStep \/ CallsStream \/ Yields \/ WritesOn
  BY <1>2, CallStep, LockStep, StreamWorkStep, RestStep DEF StreamStep,
     StreamWork
<1>3. CASE SchedulerStep \/ play_buffer
  BY <1>3, SchedulerWorkStep
<1>4. CASE UNCHANGED vars
  <2>1. UNCHANGED <<core, core_mutex, op, yield, streaming, play, end_thread>>
    BY <1>4 DEF vars
  <2>2. QED
    BY <2>1, SamePrimary
       DEF IInv, TypeOK, StreamInv, SchedulerInv, HolderInv, HasPrimary
<1>5. QED
  BY <1>1, <1>2, <1>3, <1>4 DEF Next

LEMMA Inductive ==
  ASSUME AudioOutputAssumption
  PROVE  Spec => []IInv
BY IInvInit, IInvStep, PTL DEF Spec

(* AudioOutputCore keeps the types of its variables. *)
THEOREM TypeCorrect ==
  ASSUME AudioOutputAssumption
  PROVE  Spec => []TypeOK
<1>1. IInv => TypeOK
  BY DEF IInv
<1>2. QED
  BY <1>1, Inductive, PTL

(* When its mutex is free, the primary device is open exactly while a      *)
(* stream is on, by the manager of its device and by no other, whatever    *)
(* the user interface and the sounds did meanwhile: for any devices.       *)
THEOREM PrimaryCorrect ==
  ASSUME AudioOutputAssumption
  PROVE  Spec => []PrimaryMatchesItsUse
<1>1. IInv => PrimaryMatchesItsUse
  <2> SUFFICES ASSUME IInv, core_mutex["primary"] = None
               PROVE  {m \in ManagerNames : <<m, "primary">> \in core.opened} =
                        IF core.active THEN {ManagerOf(core.device["primary"])} ELSE {}
    BY DEF PrimaryMatchesItsUse, Free, ManagerNames
  <2>1. ~PlaysOnPrimary
    BY DEF IInv, SchedulerInv, PlaysOnPrimary, PS, AudioOutputAssumption,
           Threads
  <2>2. CASE core.active
    <3>1. PrimaryOpen(core)
      BY <2>2 DEF IInv, PrimaryInv
    <3>2. ManagerOf(core.device["primary"]) \in ManagerNames
      BY <3>1, ManagerFacts DEF PrimaryOpen, Cores, PS
    <3>3. QED  BY <2>2, <3>1, <3>2 DEF PrimaryOpen
  <2>3. CASE ~core.active
    BY <2>1, <2>3 DEF IInv, PrimaryInv, PrimaryClosed
  <2>4. QED  BY <2>2, <2>3
<1>2. QED
  BY <1>1, Inductive, PTL

(* No sound is played on the primary device while a stream has it. *)
THEOREM StreamHasItsDevice ==
  ASSUME AudioOutputAssumption
  PROVE  Spec => []NoSoundOverAStream
<1>1. IInv => NoSoundOverAStream
  BY DEF IInv, PrimaryInv, PlaysOnPrimary, NoSoundOverAStream
<1>2. QED
  BY <1>1, Inductive, PTL

-----------------------------------------------------------------------------
(* The microphone *)

OneStream == \A s, u \in Streams : s = u

MicCores == [device : I!Known \cup {None}, opened : SUBSET {"PTLIB", "null"},
          active : BOOLEAN, desired : I!Known \cup {None}]

MicClosed(k)  == k \in MicCores /\ k.opened = {}

MicOpenAsSet(k) ==
  k \in MicCores /\ k.device # None /\ k.opened = {I!ManagerOf(k.device)}

MicrophoneInv ==
  /\ IF in_core.active THEN MicOpenAsSet(in_core) ELSE MicClosed(in_core)
  /\ ~in_core.active /\ in_core.desired # None => in_core.device = in_core.desired

(* Who holds the mutex is in an operation, that its caller may call. *)
MicHolderInv ==
  \A t \in I!Threads :
    /\ in_mutex = t => in_op[t] # None
    /\ in_op[t] # None => in_op[t].name \in IF t = "ui" THEN I!UiOps ELSE I!StreamOps

(* A stream that is on, or about to end, has the device activated. *)
MicStreamInv ==
  \A s \in Streams :
    /\ in_core.active <=> in_streaming[s] # "off"
    /\ in_op[s] # None =>
         in_streaming[s] = IF in_op[s].name = "start_stream" THEN "off" ELSE "on"

ActiveForAStream == in_core.active => \E s \in Streams : in_streaming[s] # "off"

InputInv == /\ I!TypeOK /\ MicrophoneInv /\ MicHolderInv
        /\ MicStreamInv /\ ActiveForAStream
-----------------------------------------------------------------------------
(* The operators on the devices. *)

LEMMA MicManagerFacts ==
  ASSUME I!AudioInputAssumption
  PROVE  /\ \A d \in I!Known : I!ManagerOf(d) \in {"PTLIB", "null"}
         /\ None \notin I!Known /\ I!ManagerOf(None) = None
         /\ None \notin {"PTLIB", "null"} /\ Silent \in I!Known
BY DEF I!AudioInputAssumption, I!Known, I!ManagerOf

LEMMA CloseFacts ==
  ASSUME I!AudioInputAssumption, NEW k, MicOpenAsSet(k) \/ MicClosed(k)
  PROVE  /\ MicClosed(I!internal_close(k))
         /\ I!internal_close(k).device = k.device
         /\ I!internal_close(k).desired = k.desired
         /\ I!internal_close(k).active = k.active
BY DEF I!internal_close, MicOpenAsSet, MicClosed, MicCores

LEMMA SetManagerFacts ==
  ASSUME I!AudioInputAssumption, NEW k, MicClosed(k), NEW d \in I!Known \cup {None}
  PROVE  /\ MicClosed(I!internal_set_manager(k, d))
         /\ I!internal_set_manager(k, d).device # None
         /\ d # None => I!internal_set_manager(k, d).device = d
         /\ I!internal_set_manager(k, d).desired = k.desired
         /\ I!internal_set_manager(k, d).active = k.active
BY MicManagerFacts DEF I!internal_set_manager, MicClosed, MicCores

LEMMA OpenFacts ==
  ASSUME I!AudioInputAssumption, NEW k, MicClosed(k), k.device # None,
         NEW k2 \in I!internal_open(k)
  PROVE  /\ MicOpenAsSet(k2)
         /\ k2.desired = k.desired /\ k2.active = k.active
<1>1. ASSUME NEW h, MicClosed(h), h.device # None
      PROVE  /\ MicOpenAsSet(I!Opened(h))
             /\ I!Opened(h).desired = h.desired /\ I!Opened(h).active = h.active
  <2>1. I!ManagerOf(h.device) \in {"PTLIB", "null"}
    BY <1>1, MicManagerFacts DEF MicClosed, MicCores
  <2>2. QED
    BY <1>1, <2>1 DEF I!Opened, MicClosed, MicCores, MicOpenAsSet
<1>2. k2 = I!Opened(k) \/ k2 = I!Opened(I!internal_set_manager(k, Silent))
  BY DEF I!internal_open, I!internal_set_fallback
<1>3. QED
  BY <1>1, <1>2, SetManagerFacts, MicManagerFacts

LEMMA SetDeviceFacts ==
  ASSUME I!AudioInputAssumption, MicrophoneInv, NEW d \in I!Known \cup {None},
         NEW k \in I!internal_set_device(in_core, d)
  PROVE  /\ k.active = in_core.active /\ k.desired = in_core.desired
         /\ IF in_core.active THEN MicOpenAsSet(k) ELSE MicClosed(k)
         /\ ~in_core.active /\ d # None => k.device = d
<1>1. CASE in_core.active
  <2>1. /\ MicClosed(I!internal_close(in_core))
        /\ I!internal_close(in_core).active = in_core.active
        /\ I!internal_close(in_core).desired = in_core.desired
    BY <1>1, CloseFacts DEF MicrophoneInv
  <2>2. k \in I!internal_open(I!internal_set_manager(I!internal_close(in_core), d))
    BY <1>1 DEF I!internal_set_device
  <2>3. QED
    BY ZenonT(60), <1>1, <2>1, <2>2, SetManagerFacts, OpenFacts
<1>2. CASE ~in_core.active
  BY <1>2, SetManagerFacts DEF MicrophoneInv, I!internal_set_device
<1>3. QED
  BY <1>1, <1>2

-----------------------------------------------------------------------------
(* Each operation leaves the microphone as its use asks for. *)

LEMMA UiKeepsMicrophone ==
  ASSUME I!AudioInputAssumption, InputInv,
         I!set_device \/ I!add_device \/ I!remove_device \/ I!get_devices
  PROVE  MicrophoneInv' /\ in_core'.active = in_core.active /\ in_core' \in MicCores
<1>1. /\ MicrophoneInv /\ in_core \in MicCores
      /\ \A t \in I!Threads : in_mutex = t => in_op[t].device \in I!Known \cup {None}
  BY DEF InputInv, I!TypeOK, MicCores, MicHolderInv, I!Threads
<1>2. CASE I!set_device
  <2>1. PICK k \in I!internal_set_device(in_core, in_op["ui"].device) :
          in_core' = [k EXCEPT !.desired = in_op["ui"].device]
    BY <1>2 DEF I!set_device
  <2>2. in_op["ui"].device \in I!Known \cup {None}
    BY <1>1, <1>2 DEF I!set_device, I!Returns, I!Threads
  <2>3. QED
    BY <1>1, <2>1, <2>2, SetDeviceFacts DEF MicrophoneInv, MicOpenAsSet,
       MicClosed, MicCores
<1>3. CASE I!add_device
  <2>1. CASE UNCHANGED in_core
    BY <1>1, <2>1 DEF MicrophoneInv, MicCores
  <2>2. CASE in_core' \in I!internal_set_device(in_core, in_core.desired)
    BY <1>1, <2>2, SetDeviceFacts DEF MicrophoneInv, MicOpenAsSet, MicClosed,
                                      MicCores
  <2>3. QED  BY <1>3, <2>1, <2>2 DEF I!add_device
<1>4. CASE I!remove_device
  <2>1. CASE UNCHANGED in_core
    BY <1>1, <2>1 DEF MicrophoneInv, MicCores
  <2>2. CASE in_core.active /\ in_core' \in I!internal_set_device(in_core, Silent)
    BY <1>1, <2>2, MicManagerFacts, SetDeviceFacts
       DEF MicrophoneInv, MicOpenAsSet, MicClosed, MicCores
  <2>3. QED  BY <1>4, <2>1, <2>2 DEF I!remove_device
<1>5. CASE I!get_devices
  BY <1>1, <1>5 DEF I!get_devices, MicrophoneInv, MicCores
<1>6. QED
  BY <1>2, <1>3, <1>4, <1>5

LEMMA StreamKeepsMicrophone ==
  ASSUME I!AudioInputAssumption, InputInv, NEW s \in Streams,
         \/ I!start_stream(s) \/ I!stop_stream(s)
         \/ I!set_stream_buffer_size(s) \/ I!get_frame_data(s)
  PROVE  /\ MicrophoneInv' /\ in_core' \in MicCores
         /\ in_core'.active <=> in_streaming'[s] # "off"
<1>1. /\ MicrophoneInv /\ in_core \in MicCores
      /\ in_streaming \in [Streams -> {"off", "on", "asleep"}]
      /\ in_core.active <=> in_streaming[s] # "off"
      /\ in_mutex = s /\ in_op[s] # None =>
            in_streaming[s] = IF in_op[s].name = "start_stream" THEN "off" ELSE "on"
  BY DEF InputInv, I!TypeOK, MicCores, MicStreamInv
<1>2. in_mutex = s /\ in_op[s] # None
  BY DEF InputInv, MicHolderInv, I!Threads, I!Returns, I!start_stream,
         I!stop_stream,
         I!set_stream_buffer_size, I!get_frame_data
<1>3. CASE I!start_stream(s)
  <2>1. ~in_core.active
    BY <1>1, <1>2, <1>3 DEF I!start_stream, I!Returns
  <2>2. PICK k \in I!internal_open(I!internal_set_manager(in_core, in_core.desired)) :
          in_core' = [k EXCEPT !.active = TRUE]
    BY <1>3 DEF I!start_stream
  <2>3. MicClosed(in_core) /\ in_core.desired \in I!Known \cup {None}
    BY <1>1, <2>1 DEF MicrophoneInv, MicCores
  <2>4. MicOpenAsSet(k)
    BY <2>2, <2>3, SetManagerFacts, OpenFacts
  <2>5. in_streaming'[s] = "on"
    BY <1>1, <1>3 DEF I!start_stream
  <2>6. QED
    BY <2>2, <2>4, <2>5 DEF MicrophoneInv, MicOpenAsSet, MicCores
<1>4. CASE I!stop_stream(s)
  <2>1. in_core.active
    BY <1>1, <1>2, <1>4 DEF I!stop_stream, I!Returns
  <2>2. in_core' = [I!internal_set_manager(I!internal_close(in_core), in_core.desired)
                   EXCEPT !.active = FALSE]
    BY <1>4, <2>1 DEF I!stop_stream
  <2>3. in_core.desired \in I!Known \cup {None}
    BY <1>1 DEF MicCores
  <2>4. /\ MicClosed(I!internal_close(in_core))
        /\ I!internal_close(in_core).desired = in_core.desired
    BY <1>1, <2>1, CloseFacts DEF MicrophoneInv
  <2>5. in_streaming'[s] = "off"
    BY <1>1, <1>4 DEF I!stop_stream
  <2> DEFINE k == I!internal_set_manager(I!internal_close(in_core), in_core.desired)
  <2>6. /\ MicClosed(k) /\ k.desired = in_core.desired
        /\ in_core.desired # None => k.device = in_core.desired
    BY <2>3, <2>4, SetManagerFacts
  <2> HIDE DEF k
  <2>7. QED
    BY <2>2, <2>5, <2>6 DEF MicrophoneInv, MicClosed, MicCores, k
<1>5. CASE I!set_stream_buffer_size(s)
  BY <1>1, <1>5 DEF I!set_stream_buffer_size, MicrophoneInv, MicCores
<1>6. CASE I!get_frame_data(s)
  <2>1. in_core.active /\ UNCHANGED in_streaming
    BY <1>1, <1>2, <1>6 DEF I!get_frame_data, I!Returns
  <2>2. CASE UNCHANGED in_core
    BY <1>1, <2>1, <2>2 DEF MicrophoneInv, MicCores
  <2>3. CASE in_core' \in I!internal_open(I!internal_set_fallback(I!internal_close(in_core)))
    <3>1. /\ MicClosed(I!internal_close(in_core))
          /\ I!internal_close(in_core).active = in_core.active
      BY <1>1, <2>1, CloseFacts DEF MicrophoneInv
    <3>2. MicOpenAsSet(in_core') /\ in_core'.active = in_core.active
      BY <2>3, <3>1, MicManagerFacts, SetManagerFacts, OpenFacts
         DEF I!internal_set_fallback
    <3>3. QED
      BY <1>1, <2>1, <3>2 DEF MicrophoneInv, MicOpenAsSet, MicCores
  <2>4. QED  BY <1>6, <2>2, <2>3 DEF I!get_frame_data
<1>7. QED
  BY <1>3, <1>4, <1>5, <1>6
-----------------------------------------------------------------------------
(* Calls, locks and waits leave the device alone. *)

MicUiWork == I!set_device \/ I!add_device \/ I!remove_device \/ I!get_devices

MicStreamWork(s) == \/ I!start_stream(s) \/ I!stop_stream(s)
                 \/ I!set_stream_buffer_size(s) \/ I!get_frame_data(s)

LEMMA StepCases ==
  ASSUME I!Next
  PROVE  \/ I!CallsSetDevice \/ I!CallsUi \/ MicUiWork
         \/ \E t \in I!Threads : I!Lock(t)
         \/ \E s \in Streams : I!CallsStream(s) \/ I!Yields(s) \/ I!ReadsOn(s)
                              \/ MicStreamWork(s)
BY DEF I!Next, I!UiStep, I!StreamStep, MicUiWork, MicStreamWork, I!Threads

(* A thread calls one of its operations. *)
LEMMA MicCallFacts ==
  ASSUME InputInv, NEW t \in I!Threads, NEW d \in I!Known \cup {None},
         NEW name \in IF t = "ui" THEN I!UiOps ELSE I!StreamOps, I!Call(t, name, d)
  PROVE  /\ UNCHANGED <<in_core, in_mutex>>
         /\ in_op' \in [I!Threads -> {None} \cup
                     [name : I!UiOps \cup I!StreamOps, device : I!Known \cup {None}]]
         /\ in_op'[t].name = name
         /\ \A u \in I!Threads \ {t} : in_op'[u] = in_op[u]
         /\ MicrophoneInv' /\ MicHolderInv'
<1>1. /\ UNCHANGED <<in_core, in_mutex>>
      /\ in_op' = [in_op EXCEPT ![t] = [name |-> name, device |-> d]]
      /\ in_op[t] = None
  BY DEF I!Call
<1>2. in_op \in [I!Threads -> {None} \cup
              [name : I!UiOps \cup I!StreamOps, device : I!Known \cup {None}]]
  BY DEF InputInv, I!TypeOK
<1>3. /\ in_op' \in [I!Threads -> {None} \cup
                  [name : I!UiOps \cup I!StreamOps, device : I!Known \cup {None}]]
      /\ in_op'[t].name = name
      /\ \A u \in I!Threads \ {t} : in_op'[u] = in_op[u]
  BY <1>1, <1>2
<1>4. in_mutex # t
  BY <1>1 DEF InputInv, MicHolderInv
<1>5. MicrophoneInv' /\ MicHolderInv'
  BY <1>1, <1>3, <1>4 DEF InputInv, MicrophoneInv, MicHolderInv
<1>6. QED
  BY <1>1, <1>3, <1>5

(* The types of core are those of MicrophoneInv. *)
LEMMA CoreTyped ==
  ASSUME MicrophoneInv', in_core' \in MicCores
  PROVE  in_core'.active => in_core'.device # None
BY DEF MicrophoneInv, MicOpenAsSet

LEMMA UiCallStep ==
  ASSUME I!AudioInputAssumption, OneStream, InputInv, I!CallsSetDevice \/ I!CallsUi
  PROVE  InputInv'
<1>1. PICK name \in I!UiOps, d \in I!Known \cup {None} : I!Call("ui", name, d)
  BY DEF I!CallsSetDevice, I!CallsUi, I!UiOps, I!Known
<1>2. UNCHANGED in_streaming /\ in_yield' \in BOOLEAN
  BY DEF I!CallsSetDevice, I!CallsUi, InputInv, I!TypeOK
<1>3. /\ UNCHANGED <<in_core, in_mutex>>
      /\ in_op' \in [I!Threads -> {None} \cup
                  [name : I!UiOps \cup I!StreamOps, device : I!Known \cup {None}]]
      /\ \A s \in Streams : in_op'[s] = in_op[s]
      /\ MicrophoneInv' /\ MicHolderInv'
  BY <1>1, MicCallFacts DEF I!Threads, I!AudioInputAssumption
<1>4. I!TypeOK'
  BY <1>2, <1>3 DEF InputInv, I!TypeOK
<1>5. MicStreamInv' /\ ActiveForAStream'
  BY <1>2, <1>3 DEF InputInv, MicStreamInv, ActiveForAStream
<1>6. QED
  BY <1>3, <1>4, <1>5 DEF InputInv

LEMMA StreamCallStep ==
  ASSUME I!AudioInputAssumption, OneStream, InputInv, NEW s \in Streams,
         I!CallsStream(s) \/ I!ReadsOn(s)
  PROVE  InputInv'
<1>1. in_streaming \in [Streams -> {"off", "on", "asleep"}] /\ s \in I!Threads
  BY DEF InputInv, I!TypeOK, I!Threads
<1>2. PICK name \in I!StreamOps :
        /\ I!Call(s, name, None)
        /\ (name = "start_stream") <=> (in_streaming[s] = "off")
        /\ in_streaming' = [in_streaming EXCEPT ![s] = IF @ = "off" THEN @ ELSE "on"]
  BY <1>1 DEF I!CallsStream, I!ReadsOn, I!StreamOps
<1>3. in_yield' \in BOOLEAN
  BY DEF I!CallsStream, I!ReadsOn, InputInv, I!TypeOK
<1>4. /\ UNCHANGED <<in_core, in_mutex>>
      /\ in_op' \in [I!Threads -> {None} \cup
                  [name : I!UiOps \cup I!StreamOps, device : I!Known \cup {None}]]
      /\ in_op'[s].name = name
      /\ \A u \in I!Threads \ {s} : in_op'[u] = in_op[u]
      /\ MicrophoneInv' /\ MicHolderInv'
  BY <1>1, <1>2, MicCallFacts DEF I!Threads, I!AudioInputAssumption
<1>5. /\ in_streaming' \in [Streams -> {"off", "on", "asleep"}]
      /\ in_streaming'[s] = IF name = "start_stream" THEN "off" ELSE "on"
      /\ \A u \in Streams : (in_streaming'[u] # "off") <=> (in_streaming[u] # "off")
      /\ \A u \in Streams \ {s} : in_streaming'[u] = in_streaming[u]
  BY <1>1, <1>2
<1>6. I!TypeOK'
  BY <1>3, <1>4, <1>5 DEF InputInv, I!TypeOK
<1>7. MicStreamInv' /\ ActiveForAStream'
  BY <1>4, <1>5 DEF InputInv, MicStreamInv, ActiveForAStream, I!Threads
<1>8. QED
  BY <1>4, <1>6, <1>7 DEF InputInv

LEMMA WaitStep ==
  ASSUME I!AudioInputAssumption, InputInv,
         \/ \E t \in I!Threads : I!Lock(t)
         \/ \E s \in Streams : I!Yields(s)
  PROVE  InputInv'
<1>1. UNCHANGED <<in_core, in_op>>
  BY DEF I!Lock, I!Yields
<1>2. I!TypeOK'
  BY DEF InputInv, I!TypeOK, I!Lock, I!Yields
<1>3. MicrophoneInv'
  BY <1>1 DEF InputInv, MicrophoneInv
<1>4. MicHolderInv'
  BY <1>1 DEF InputInv, MicHolderInv, I!Lock, I!Yields
<1>5. \/ UNCHANGED in_streaming
      \/ \E s \in Streams :
           /\ in_op[s] = None /\ in_streaming[s] = "on"
           /\ in_streaming' = [in_streaming EXCEPT ![s] = "asleep"]
  BY DEF I!Lock, I!Yields
<1>6. MicStreamInv' /\ ActiveForAStream'
  BY <1>1, <1>5 DEF InputInv, I!TypeOK, MicStreamInv, ActiveForAStream
<1>7. QED
  BY <1>2, <1>3, <1>4, <1>6 DEF InputInv

LEMMA MicReturnFacts ==
  ASSUME I!AudioInputAssumption, InputInv, NEW t \in I!Threads, NEW name, I!Returns(t, name)
  PROVE  /\ in_mutex' = None /\ in_op'[t] = None
         /\ \A u \in I!Threads \ {t} : in_op'[u] = in_op[u]
         /\ in_op' \in [I!Threads -> {None} \cup
                     [name : I!UiOps \cup I!StreamOps, device : I!Known \cup {None}]]
         /\ MicHolderInv'
<1>1. /\ in_mutex' = None /\ in_op'[t] = None
      /\ \A u \in I!Threads \ {t} : in_op'[u] = in_op[u]
      /\ in_op' \in [I!Threads -> {None} \cup
                  [name : I!UiOps \cup I!StreamOps, device : I!Known \cup {None}]]
  BY DEF I!Returns, InputInv, I!TypeOK
<1>2. MicHolderInv'
  BY <1>1 DEF InputInv, MicHolderInv, I!AudioInputAssumption
<1>3. QED
  BY <1>1, <1>2

LEMMA MicUiWorkStep ==
  ASSUME I!AudioInputAssumption, InputInv, MicUiWork
  PROVE  InputInv'
<1>1. PICK name \in I!UiOps : I!Returns("ui", name)
  BY DEF MicUiWork, I!set_device, I!add_device, I!remove_device,
         I!get_devices, I!UiOps
<1>2. UNCHANGED in_streaming /\ in_yield' \in BOOLEAN
  BY DEF MicUiWork, I!set_device, I!add_device, I!remove_device,
         I!get_devices, InputInv, I!TypeOK
<1>3. MicrophoneInv' /\ in_core'.active = in_core.active /\ in_core' \in MicCores
  BY UiKeepsMicrophone DEF MicUiWork
<1>4. /\ in_mutex' = None /\ MicHolderInv'
      /\ \A s \in Streams : in_op'[s] = in_op[s]
      /\ in_op' \in [I!Threads -> {None} \cup
                  [name : I!UiOps \cup I!StreamOps, device : I!Known \cup {None}]]
  BY <1>1, MicReturnFacts DEF I!Threads, I!AudioInputAssumption
<1>5. I!TypeOK'
  BY <1>2, <1>3, <1>4, CoreTyped DEF InputInv, I!TypeOK, MicCores
<1>6. MicStreamInv' /\ ActiveForAStream'
  BY <1>2, <1>3, <1>4 DEF InputInv, MicStreamInv, ActiveForAStream
<1>7. QED
  BY <1>3, <1>4, <1>5, <1>6 DEF InputInv

LEMMA MicStreamWorkStep ==
  ASSUME I!AudioInputAssumption, OneStream, InputInv, NEW s \in Streams, MicStreamWork(s)
  PROVE  InputInv'
<1>1. PICK name \in I!StreamOps : I!Returns(s, name)
  BY DEF MicStreamWork, I!start_stream, I!stop_stream,
         I!set_stream_buffer_size,
         I!get_frame_data, I!StreamOps
<1>2. in_yield' \in BOOLEAN /\ in_streaming' \in [Streams -> {"off", "on", "asleep"}]
  BY DEF MicStreamWork, I!start_stream, I!stop_stream,
         I!set_stream_buffer_size,
         I!get_frame_data, InputInv, I!TypeOK
<1>3. /\ MicrophoneInv' /\ in_core' \in MicCores
      /\ in_core'.active <=> in_streaming'[s] # "off"
  BY StreamKeepsMicrophone DEF MicStreamWork
<1>4. /\ in_mutex' = None /\ in_op'[s] = None /\ MicHolderInv'
      /\ in_op' \in [I!Threads -> {None} \cup
                  [name : I!UiOps \cup I!StreamOps, device : I!Known \cup {None}]]
  BY <1>1, MicReturnFacts DEF I!Threads
<1>5. I!TypeOK'
  BY <1>2, <1>3, <1>4, CoreTyped DEF InputInv, I!TypeOK, MicCores
<1>6. \A u \in Streams : u = s
  BY DEF OneStream
<1>7. MicStreamInv' /\ ActiveForAStream'
  BY <1>3, <1>4, <1>6 DEF MicStreamInv, ActiveForAStream
<1>8. QED
  BY <1>3, <1>4, <1>5, <1>7 DEF InputInv

-----------------------------------------------------------------------------
LEMMA InputInvInit == I!AudioInputAssumption /\ I!Init => InputInv
<1> SUFFICES ASSUME I!AudioInputAssumption, I!Init PROVE InputInv
  OBVIOUS
<1>1. /\ in_core \in MicCores /\ in_core.opened = {} /\ in_core.active = FALSE
      /\ in_core.desired = None
  BY DEF I!Init, MicCores
<1>2. I!TypeOK
  BY <1>1 DEF I!Init, I!TypeOK, MicCores
<1>3. MicrophoneInv
  BY <1>1 DEF MicrophoneInv, MicClosed
<1>4. MicHolderInv
  BY DEF I!Init, MicHolderInv, I!AudioInputAssumption
<1>5. MicStreamInv /\ ActiveForAStream
  BY <1>1 DEF I!Init, MicStreamInv, ActiveForAStream, I!Threads
<1>6. QED
  BY <1>2, <1>3, <1>4, <1>5 DEF InputInv

LEMMA InputInvStep ==
  I!AudioInputAssumption /\ OneStream /\ InputInv /\ [I!Next]_I!vars => InputInv'
<1> SUFFICES ASSUME I!AudioInputAssumption, OneStream, InputInv, [I!Next]_I!vars
             PROVE  InputInv'
  OBVIOUS
<1>1. CASE I!Next
  BY <1>1, StepCases, UiCallStep, StreamCallStep, WaitStep, MicUiWorkStep,
     MicStreamWorkStep
<1>2. CASE UNCHANGED I!vars
  BY <1>2 DEF I!vars, InputInv, I!TypeOK, MicrophoneInv, MicOpenAsSet,
              MicClosed, MicHolderInv,
              MicStreamInv, ActiveForAStream
<1>3. QED
  BY <1>1, <1>2

LEMMA MicInductive ==
  ASSUME I!AudioInputAssumption, OneStream
  PROVE  I!Spec => []InputInv
BY InputInvInit, InputInvStep, PTL DEF I!Spec

(* AudioInputCore keeps the types of its variables. *)
THEOREM MicTypeCorrect ==
  ASSUME I!AudioInputAssumption, OneStream
  PROVE  I!Spec => []I!TypeOK
<1>1. InputInv => I!TypeOK
  BY DEF InputInv
<1>2. QED
  BY <1>1, MicInductive, PTL

(* Between two operations the microphone is open exactly while a stream is *)
(* on, by the manager of its device: for any devices, if there is never a  *)
(* second stream.                                                          *)
THEOREM MicrophoneCorrect ==
  ASSUME I!AudioInputAssumption, OneStream
  PROVE  I!Spec => []MicrophoneMatchesItsUse
<1>1. InputInv => MicrophoneMatchesItsUse
  BY DEF InputInv, MicrophoneInv, MicOpenAsSet, MicClosed,
         MicrophoneMatchesItsUse, I!MicrophoneMatchesItsUse
<1>2. QED
  BY <1>1, MicInductive, PTL

(* Between two streams the device is the one that the user chose last: the *)
(* fallback for one that failed or was unplugged ends with its stream.     *)
THEOREM ChoiceRestored ==
  ASSUME I!AudioInputAssumption, OneStream
  PROVE  I!Spec => []DesiredBetweenStreams
<1>1. InputInv => DesiredBetweenStreams
  BY DEF InputInv, MicrophoneInv, DesiredBetweenStreams,
         I!DesiredBetweenStreams
<1>2. QED
  BY <1>1, MicInductive, PTL

-----------------------------------------------------------------------------
(* The scheduler of the sounds.  What it wakes up for is in the list, so   *)
(* the invariant says which entries the list may have: anything that can   *)
(* be added, until the thread has gone through it; from then on only what  *)
(* is repeated, unless the thread was told to look again; and while it     *)
(* sleeps, only what is not due before it wakes up.                        *)
Entry == [name : Events \cup Files, interval : 0 .. (Never - 1),
          repetitions : Int, time : (-1) .. (Never - 1)]

Repeating == {e \in Entry : e.interval > 0}

(* Those that are not due within t. *)
LaterThan(t) == {e \in Repeating : S!Ahead(e) => t <= e.time}

SchedulerIInv ==
  /\ event_list \in Seq(Entry)
  /\ idle_time \in 0 .. Never /\ run_thread \in BOOLEAN
  /\ scheduler_pc \in {"waiting", "woken", "loading", "playing", "ended"}
  /\ scheduler_pc \in {"loading", "playing"} /\ ~run_thread
       => event_list \in Seq(Repeating)
  /\ S!Asleep => event_list \in Seq(LaterThan(idle_time))

(* There is no smallest number that lacks a property only if all have it:  *)
(* the induction of the next two lemmas.                                   *)
LEMMA LeastOf ==
  ASSUME NEW T \in SUBSET Nat, T # {}
  PROVE  \E n \in T : \A m \in T : n <= m
<1> DEFINE Less == {ss \in Nat \X Nat : ss[1] < ss[2]}
<1>1. IsWellFoundedOn(Less, Nat)
  BY NatLessThanWellFounded DEF OpToRel
<1> HIDE DEF Less
<1>2. PICK n \in T : \A m \in T : <<m, n>> \notin Less
  BY <1>1, WFMin
<1>3. ASSUME NEW m \in T PROVE n <= m
  <2>1. <<m, n>> \in Less <=> m < n
    BY DEF Less
  <2> QED
    BY <1>2, <2>1
<1> QED
  BY <1>3

LEMMA MinFacts ==
  ASSUME NEW T \in SUBSET Nat, T # {}
  PROVE  S!Min(T) \in T /\ \A m \in T : S!Min(T) <= m
BY LeastOf DEF S!Min

LEMMA RepeatedFacts ==
  ASSUME S!SchedulerAssumption, NEW e \in Entry, S!IsKept(e)
  PROVE  S!Repeated(e) \in Repeating
<1>1. /\ e = [name |-> e.name, interval |-> e.interval,
              repetitions |-> e.repetitions, time |-> e.time]
      /\ e.name \in Events \cup Files /\ e.interval \in 1 .. (Never - 1)
      /\ e.repetitions \in Int /\ e.time \in (-1) .. (Never - 1)
  BY DEF Entry, S!SchedulerAssumption, S!IsKept
<1>2. CASE e.time <= 0
  <2>1. S!Repeated(e) = [name |-> e.name, interval |-> e.interval,
                         repetitions |-> e.repetitions - 1,
                         time |-> e.interval]
    BY <1>1, <1>2 DEF S!Repeated
  <2> QED
    BY <1>1, <2>1 DEF Entry, Repeating, S!SchedulerAssumption
<1>3. CASE ~(e.time <= 0)
  BY <1>1, <1>3 DEF S!Repeated, Repeating
<1> QED
  BY <1>2, <1>3

(* The loop leaves only what is repeated. *)
LEMMA NewListFacts ==
  ASSUME S!SchedulerAssumption, event_list \in Seq(Entry)
  PROVE  S!new_event_list \in Seq(Repeating)
<1> DEFINE q == event_list
           After(list, i) ==
             IF S!IsKept(q[i]) THEN Append(list, S!Repeated(q[i])) ELSE list
           Step(list, i) == IF i = 0 THEN <<>> ELSE After(list[i - 1], i)
           Goes(f, n) ==
             /\ f \in [0 .. n -> Seq(Repeating)]
             /\ \A i \in 0 .. n : f[i] = Step(f, i)
           Undone == {n \in 0 .. Len(q) : ~ \E f : Goes(f, n)}
<1>1. Len(q) \in Nat /\ \A i \in 1 .. Len(q) : q[i] \in Entry
  OBVIOUS
<1>2. ASSUME NEW i \in 1 .. Len(q), NEW list \in Seq(Repeating)
      PROVE  After(list, i) \in Seq(Repeating)
  BY <1>1, <1>2, RepeatedFacts
<1> HIDE DEF After
<1>3. \E f : Goes(f, 0)
  <2> DEFINE f == [i \in 0 .. 0 |-> <<>>]
  <2>1. Goes(f, 0)
    OBVIOUS
  <2> QED
    BY <2>1
<1>4. ASSUME NEW n \in 1 .. Len(q), NEW f, Goes(f, n - 1)
      PROVE  \E g : Goes(g, n)
  <2> DEFINE g == [i \in 0 .. n |-> IF i = n THEN After(f[n - 1], n) ELSE f[i]]
  <2>1. \A i \in 0 .. (n - 1) : g[i] = f[i]
    BY <1>1
  <2>2. /\ g[n] = After(f[n - 1], n)
        /\ g = [i \in 0 .. n |-> g[i]]
    BY <1>1
  <2> HIDE DEF g
  <2>3. f[n - 1] \in Seq(Repeating) /\ n - 1 \in 0 .. (n - 1)
    BY <1>1, <1>4
  <2>4. g[n] \in Seq(Repeating) /\ g[n] = Step(g, n)
    <3>1. g[n - 1] = f[n - 1] /\ n # 0
      BY <1>1, <2>1, <2>3
    <3>2. After(f[n - 1], n) \in Seq(Repeating)
      BY <1>2, <2>3
    <3> QED
      BY <2>2, <3>1, <3>2
  <2>5. ASSUME NEW i \in 0 .. (n - 1)
        PROVE  g[i] \in Seq(Repeating) /\ g[i] = Step(g, i)
    <3>1. f[i] \in Seq(Repeating) /\ f[i] = Step(f, i)
      BY <1>4
    <3>2. i # 0 => f[i - 1] = g[i - 1]
      BY <1>1, <2>1, <2>5
    <3> QED
      BY <2>1, <3>1, <3>2
  <2>6. \A i \in 0 .. n : i = n \/ i \in 0 .. (n - 1)
    BY <1>1
  <2> QED
    BY <2>2, <2>4, <2>5, <2>6
<1>5. Undone = {}
  <2>1. SUFFICES ASSUME Undone # {} PROVE FALSE
    OBVIOUS
  <2>2. PICK n \in Undone : \A m \in Undone : n <= m
    <3>1. Undone \in SUBSET Nat
      BY <1>1
    <3> QED
      BY <2>1, <3>1, LeastOf
  <2> HIDE DEF Goes
  <2>3. n \in 0 .. Len(q) /\ (~ \E f : Goes(f, n)) /\ n # 0
    BY <1>3, <2>2
  <2>4. n \in 1 .. Len(q) /\ n - 1 \in 0 .. Len(q) /\ n - 1 \notin Undone
    BY <1>1, <2>2, <2>3
  <2>5. PICK f : Goes(f, n - 1)
    BY <2>4
  <2> QED
    BY <1>4, <2>3, <2>4, <2>5
<1>6. PICK f : Goes(f, Len(q))
  BY <1>1, <1>5
<1> DEFINE F == CHOOSE g : g = [i \in 0 .. Len(q) |-> Step(g, i)]
<1>7. F = [i \in 0 .. Len(q) |-> Step(F, i)]
  <2>1. f = [i \in 0 .. Len(q) |-> Step(f, i)]
    BY <1>6
  <2> QED
    BY <2>1
<1> HIDE DEF F
<1>8. \A i \in 0 .. Len(q) : F[i] \in Seq(Repeating)
  <2> DEFINE Other == {i \in 0 .. Len(q) : F[i] \notin Seq(Repeating)}
  <2>1. SUFFICES ASSUME Other # {} PROVE FALSE
    OBVIOUS
  <2>2. PICK n \in Other : \A m \in Other : n <= m
    <3>1. Other \in SUBSET Nat
      BY <1>1
    <3> QED
      BY <2>1, <3>1, LeastOf
  <2>3. F[n] = Step(F, n)
    BY <1>7
  <2>4. CASE n = 0
    <3>1. F[n] = <<>>
      BY <2>3, <2>4
    <3>2. <<>> \in Seq(Repeating)
      OBVIOUS
    <3>3. F[n] \notin Seq(Repeating)
      BY <2>2
    <3> QED
      BY <3>1, <3>2, <3>3
  <2>5. CASE n # 0
    <3>1. n \in 1 .. Len(q) /\ n - 1 \in 0 .. Len(q) /\ n - 1 \notin Other
      BY <1>1, <2>2, <2>5
    <3>2. F[n - 1] \in Seq(Repeating)
      BY <3>1
    <3>3. F[n] = After(F[n - 1], n)
      BY <2>3, <2>5
    <3> QED
      BY <1>2, <2>2, <3>1, <3>2, <3>3
  <2> QED
    BY <2>4, <2>5
<1>9. S!new_event_list = F[Len(q)]
  BY DEF S!new_event_list, F, After
<1> QED
  BY <1>1, <1>8, <1>9

(* An entry goes, and the others stay what they are. *)
LEMMA EntryGoes ==
  ASSUME NEW E, NEW q \in Seq(E), NEW i \in DOMAIN q
  PROVE  S!RemoveAt(q, i) \in Seq(E)
<1>1. i \in 1 .. Len(q) /\ Len(q) \in Nat
  OBVIOUS
<1>2. SubSeq(q, 1, i - 1) \in Seq(E) /\ SubSeq(q, i + 1, Len(q)) \in Seq(E)
  BY <1>1
<1> QED
  BY <1>2 DEF S!RemoveAt

LEMMA SubsetSeq ==
  ASSUME NEW E, NEW D, NEW q \in Seq(E), \A i \in DOMAIN q : q[i] \in D
  PROVE  q \in Seq(D)
OBVIOUS

LEMMA SoundsInit == S!SchedulerAssumption /\ S!Init => SchedulerIInv
<1> SUFFICES ASSUME S!SchedulerAssumption, S!Init PROVE SchedulerIInv
  OBVIOUS
<1>1. event_list = <<>> /\ Never \in Nat
  BY DEF S!Init, S!SchedulerAssumption
<1>2. \A E : <<>> \in Seq(E)
  OBVIOUS
<1>3. scheduler_pc = "waiting" /\ idle_time = Never
  BY DEF S!Init
<1>4. idle_time \in 0 .. Never
  BY <1>1, <1>3
<1>5. run_thread \in BOOLEAN
  BY Zenon DEF S!Init
<1> QED
  BY <1>1, <1>2, <1>3, <1>4, <1>5 DEF SchedulerIInv

(* Whatever is added, the thread is told. *)
LEMMA AddKeeps ==
  ASSUME S!SchedulerAssumption, SchedulerIInv, NEW n \in Events \cup Files,
         NEW interval \in 0 .. (Never - 1), NEW repetitions \in Int,
         S!add_event_to_queue(n, interval, repetitions),
         UNCHANGED <<scheduler_pc, idle_time>>
  PROVE  SchedulerIInv'
<1> DEFINE e == [name |-> n, interval |-> interval,
                 repetitions |-> repetitions, time |-> 0]
<1>1. e \in Entry
  BY DEF Entry, S!SchedulerAssumption
<1>2. event_list' = Append(event_list, e) /\ run_thread' = TRUE
  BY DEF S!add_event_to_queue
<1> HIDE DEF e
<1>3. event_list' \in Seq(Entry)
  BY <1>1, <1>2 DEF SchedulerIInv
<1> QED
  BY <1>2, <1>3 DEF SchedulerIInv, S!Asleep

LEMMA RemoveKeeps ==
  ASSUME SchedulerIInv, NEW n, S!remove_event_from_queue(n)
  PROVE  SchedulerIInv'
<1> DEFINE found == {i \in DOMAIN event_list : event_list[i].name = n}
<1>1. found # {} /\ event_list' = S!RemoveAt(event_list, S!Min(found))
  BY DEF S!remove_event_from_queue
<1>2. found \in SUBSET Nat
  BY DEF SchedulerIInv
<1>3. S!Min(found) \in DOMAIN event_list
  BY <1>1, <1>2, MinFacts
<1>4. UNCHANGED <<scheduler_pc, idle_time, run_thread>>
  BY DEF S!remove_event_from_queue
<1> HIDE DEF found
<1>5. \A E : event_list \in Seq(E) => event_list' \in Seq(E)
  BY <1>1, <1>3, EntryGoes
<1> QED
  BY <1>4, <1>5 DEF SchedulerIInv, S!Asleep, LaterThan, Repeating, Entry, S!Ahead

LEMMA MainKeeps ==
  ASSUME S!SchedulerAssumption, SchedulerIInv, S!Main
  PROVE  SchedulerIInv'
<1>1. CASE S!Wakes
  BY <1>1 DEF S!Wakes, SchedulerIInv, S!Asleep
<1>2. CASE S!get_pending_event_list
  <2>1. /\ event_list' = S!new_event_list /\ scheduler_pc' = "loading"
        /\ UNCHANGED <<idle_time, run_thread>>
    BY <1>2 DEF S!get_pending_event_list
  <2>2. event_list' \in Seq(Repeating)
    BY <2>1, NewListFacts DEF SchedulerIInv
  <2>3. event_list' \in Seq(Entry)
    BY <2>2, SubsetSeq DEF Repeating
  <2> QED
    BY <2>1, <2>2, <2>3 DEF SchedulerIInv, S!Asleep
<1>3. CASE S!load_wav \/ S!play_buffer
  <2>1. /\ scheduler_pc \in {"loading", "playing"}
        /\ scheduler_pc' \in {"loading", "playing"}
        /\ UNCHANGED <<event_list, idle_time, run_thread>>
    BY <1>3 DEF S!load_wav, S!play_buffer
  <2> QED
    BY <2>1 DEF SchedulerIInv, S!Asleep
<1>4. CASE S!Rests
  <2> DEFINE ahead == {i \in DOMAIN event_list : S!Ahead(event_list[i])}
             times == {event_list[i].time : i \in ahead} \cup {Never}
  <2>1. /\ scheduler_pc = "loading" /\ idle_time' = S!Min(times)
        /\ scheduler_pc' \in {"ended", "waiting"}
        /\ UNCHANGED <<event_list, run_thread>>
    BY <1>4 DEF S!Rests, S!get_time_to_next_event
  <2>2. \A i \in DOMAIN event_list : event_list[i] \in Entry
    BY DEF SchedulerIInv
  <2>3. times \in SUBSET (0 .. Never)
    <3>1. \A i \in ahead : event_list[i].time \in 0 .. Never
      BY <2>2 DEF Entry, S!Ahead, S!SchedulerAssumption
    <3>2. Never \in 0 .. Never
      BY DEF S!SchedulerAssumption
    <3> QED
      BY <3>1, <3>2
  <2> HIDE DEF times
  <2>4. S!Min(times) \in times /\ \A t \in times : S!Min(times) <= t
    <3>1. times \in SUBSET Nat /\ times # {}
      BY <2>3 DEF times
    <3> QED
      BY <3>1, MinFacts
  <2>5. idle_time' \in 0 .. Never
    BY <2>1, <2>3, <2>4
  <2>6. ASSUME ~run_thread PROVE event_list \in Seq(LaterThan(S!Min(times)))
    <3>1. event_list \in Seq(Repeating)
      BY <2>1, <2>6 DEF SchedulerIInv
    <3>2. ASSUME NEW i \in DOMAIN event_list
          PROVE  event_list[i] \in LaterThan(S!Min(times))
      <4>1. event_list[i] \in Repeating
        BY <3>1
      <4>2. S!Ahead(event_list[i]) => S!Min(times) <= event_list[i].time
        BY <2>4 DEF times
      <4> QED
        BY <4>1, <4>2 DEF LaterThan
    <3> QED
      BY <3>1, <3>2, SubsetSeq
  <2> QED
    BY <2>1, <2>5, <2>6 DEF SchedulerIInv, S!Asleep, LaterThan, Repeating, Entry, S!Ahead
<1> QED
  BY <1>1, <1>2, <1>3, <1>4 DEF S!Main

(* A wait has no end only if nothing lies ahead, as all that is repeated is *)
(* repeated within less time than that.                                     *)
LEMMA TickKeeps ==
  ASSUME S!SchedulerAssumption, SchedulerIInv, S!Tick
  PROVE  SchedulerIInv'
<1> DEFINE Later(e) ==
      [e EXCEPT !.time = IF @ > S!Overdue THEN @ - 1 ELSE @]
<1>1. /\ event_list' = [i \in DOMAIN event_list |-> Later(event_list[i])]
      /\ UNCHANGED <<scheduler_pc, run_thread>>
  BY DEF S!Tick
<1>2. ASSUME NEW e \in Entry
      PROVE  /\ Later(e) \in Entry
             /\ Later(e).interval = e.interval
             /\ Later(e).time >= 0 => e.time >= 1 /\ Later(e).time = e.time - 1
  <2>1. /\ e = [name |-> e.name, interval |-> e.interval,
                repetitions |-> e.repetitions, time |-> e.time]
        /\ e.name \in Events \cup Files /\ e.interval \in 0 .. (Never - 1)
        /\ e.repetitions \in Int /\ e.time \in (-1) .. (Never - 1)
        /\ Never \in Nat \ {0}
    BY DEF Entry, S!SchedulerAssumption
  <2>2. CASE e.time > -1
    <3>1. Later(e) = [name |-> e.name, interval |-> e.interval,
                      repetitions |-> e.repetitions, time |-> e.time - 1]
      BY <2>1, <2>2 DEF S!Overdue
    <3> QED
      BY <2>1, <2>2, <3>1 DEF Entry
  <2>3. CASE e.time = -1
    <3>1. Later(e) = e
      BY <2>1, <2>3 DEF S!Overdue
    <3> QED
      BY <2>1, <2>3, <3>1
  <2> QED
    BY <2>1, <2>2, <2>3
<1> HIDE DEF Later
<1>3. /\ Len(event_list) \in Nat /\ DOMAIN event_list = 1 .. Len(event_list)
      /\ \A i \in DOMAIN event_list : event_list[i] \in Entry
  BY DEF SchedulerIInv
<1>4. ASSUME NEW E, \A i \in DOMAIN event_list : Later(event_list[i]) \in E
      PROVE  event_list' \in Seq(E)
  BY <1>1, <1>3, <1>4
<1>5. event_list' \in Seq(Entry)
  BY <1>2, <1>3, <1>4
<1>6. idle_time' \in 0 .. Never
  BY DEF S!Tick, SchedulerIInv, S!SchedulerAssumption
<1>7. ASSUME scheduler_pc \in {"loading", "playing"}, ~run_thread
      PROVE  event_list' \in Seq(Repeating)
  <2>1. \A i \in DOMAIN event_list : event_list[i].interval > 0
    BY <1>7 DEF SchedulerIInv, Repeating
  <2> QED
    BY <1>2, <1>3, <1>4, <2>1 DEF Repeating
<1>8. ASSUME S!Asleep PROVE event_list' \in Seq(LaterThan(idle_time'))
  <2>1. ASSUME NEW i \in DOMAIN event_list
        PROVE  Later(event_list[i]) \in LaterThan(idle_time')
    <3> DEFINE e == event_list[i]
    <3>1. e \in Entry /\ e \in LaterThan(idle_time)
      BY <1>3, <1>8 DEF SchedulerIInv
    <3>2. /\ e.interval > 0 /\ e.time \in (-1) .. (Never - 1)
          /\ e.interval \in 0 .. (Never - 1)
          /\ e.time >= 0 => idle_time <= e.time
      BY <3>1 DEF LaterThan, Repeating, Entry, S!Ahead
    <3>3. /\ idle_time \in 0 .. Never /\ Never \in Nat \ {0}
          /\ idle_time' = IF idle_time \in 1 .. (Never - 1)
                            THEN idle_time - 1 ELSE idle_time
      BY <1>8 DEF S!Asleep, S!Tick, SchedulerIInv, S!SchedulerAssumption
    <3> HIDE DEF e
    <3>4. /\ Later(e) \in Entry /\ Later(e).interval = e.interval
          /\ Later(e).time >= 0 => e.time >= 1 /\ Later(e).time = e.time - 1
      BY <1>2, <3>1
    <3>5. Later(e).time >= 0 => idle_time' <= Later(e).time
      BY <3>2, <3>3, <3>4
    <3>6. Later(e) \in LaterThan(idle_time')
      BY <3>2, <3>4, <3>5 DEF LaterThan, Repeating, S!Ahead
    <3> QED
      BY <3>6 DEF e
  <2> QED
    BY <1>4, <2>1
<1> QED
  BY <1>1, <1>5, <1>6, <1>7, <1>8
  DEF SchedulerIInv, S!Asleep, LaterThan, Repeating, Entry, S!Ahead

LEMMA SoundsStep ==
  S!SchedulerAssumption /\ SchedulerIInv /\ [S!Next]_S!vars => SchedulerIInv'
<1> SUFFICES ASSUME S!SchedulerAssumption, SchedulerIInv, [S!Next]_S!vars
             PROVE  SchedulerIInv'
  OBVIOUS
<1>1. CASE S!Main
  BY <1>1, MainKeeps
<1>2. CASE S!Tick
  BY <1>2, TickKeeps
<1>3. CASE S!quit
  BY <1>3 DEF S!quit, SchedulerIInv, S!Asleep
<1>4. ASSUME NEW n \in Events,
             S!play_event(n) \/ S!start_play_event(n)
      PROVE  SchedulerIInv'
  <2>1. 0 \in 0 .. (Never - 1) /\ Interval[n] \in 0 .. (Never - 1)
        /\ 0 \in Int /\ Repetitions[n] \in Int
    BY DEF S!SchedulerAssumption
  <2> QED
    BY <1>4, <2>1, AddKeeps DEF S!play_event, S!start_play_event
<1>5. ASSUME NEW n \in Files, S!play_file(n) PROVE SchedulerIInv'
  <2>1. 0 \in 0 .. (Never - 1) /\ 0 \in Int
    BY DEF S!SchedulerAssumption
  <2> QED
    BY <1>5, <2>1, AddKeeps DEF S!play_file
<1>6. ASSUME NEW n \in Events, S!remove_event_from_queue(n)
      PROVE  SchedulerIInv'
  BY <1>6, RemoveKeeps
<1>7. ASSUME NEW n \in Events, NEW enabled \in BOOLEAN,
             S!set_file_name(n, enabled)
      PROVE  SchedulerIInv'
  BY <1>7 DEF S!set_file_name, SchedulerIInv, S!Asleep, LaterThan, Repeating,
              Entry, S!Ahead
<1>8. CASE UNCHANGED S!vars
  BY <1>8 DEF S!vars, SchedulerIInv, S!Asleep, LaterThan, Repeating, Entry,
              S!Ahead
<1> QED
  BY <1>1, <1>2, <1>3, <1>4, <1>5, <1>6, <1>7, <1>8 DEF S!Next

(* A scheduler that sleeps misses no sound that is to be played once, and  *)
(* wakes up in time for each repetition that lies ahead: for any sounds,   *)
(* intervals and repetitions, whatever is added or stopped meanwhile       *)
(* (AudioEventScheduler::Main, get_time_to_next_event).                    *)
THEOREM WakesInTime ==
  ASSUME S!SchedulerAssumption
  PROVE  S!Spec => []SleepsInTime
<1>1. SchedulerIInv => SleepsInTime
  BY DEF SchedulerIInv, SleepsInTime, S!SleepsInTime, LaterThan, Repeating
<1>2. S!Spec => []SchedulerIInv
  BY SoundsInit, SoundsStep, PTL DEF S!Spec
<1> QED
  BY <1>1, <1>2, PTL
=============================================================================
