------------------------- MODULE VideoOutput_proofs -------------------------
(***************************************************************************)
(* Theorems about VideoOutput, for any streams, sizes and views.           *)
(***************************************************************************)
EXTENDS VideoOutput, TLAPS

Used  == active # {} \/ preview
Users == (IF active = {} THEN 0 ELSE 1) + (IF preview THEN 1 ELSE 0)

NonePending == pending["opal"] = None /\ pending["preview"] = None

(* The types of the users and their requests, and of the pictures. *)
UsersOK ==
  /\ active \subseteq Kinds /\ preview \in BOOLEAN
  /\ started \in 0..2
  /\ op \in {None} \cup
        [what : {"open", "close"}, by : Kinds \cup {"preview"}]
  /\ pending \in [{"opal", "preview"} ->
        {None} \cup [of : AllKinds, mode : Modes \cup {None}]]
  /\ thread \in [at : {"wait", "init", "draw", "uninit", "ended"},
                 initialised : BOOLEAN]
  /\ flags \in [init : BOOLEAN, uninit : BOOLEAN, end : BOOLEAN,
                run : BOOLEAN]

PicturesOK ==
  /\ info \in [view : Views, widget : BOOLEAN, ext : BOOLEAN]
  /\ cur \in [mode : Modes \cup {None}, both : BOOLEAN, ext : BOOLEAN,
              received : SUBSET AllKinds]
  /\ frame \in [AllKinds -> Sizes \cup {None}]
  /\ last \in [mode : Modes \cup {None}, ext_mode : {"remote_ext", None},
               both : BOOLEAN, ext : BOOLEAN,
               size : [AllKinds -> Sizes \cup {None}]]
  /\ window \in [AllKinds -> Sizes \cup {None}]
  /\ leaked \in BOOLEAN
  /\ screen \in [pip_window_available : BOOLEAN, video_disabled : BOOLEAN]
  /\ result \in {"shown", "hidden", "failed"} /\ crashed \in BOOLEAN
  /\ told \in [what : {"closed", "error", "opened"}, ext : BOOLEAN]

(* Who is inside open or close is the only user, and the thread has done    *)
(* what was asked once the flag is down.                                    *)
OpenInv ==
  /\ op = None => /\ ~flags.init /\ ~flags.uninit
                  /\ (thread.initialised <=> Used) /\ started = Users
  /\ op # None => active = {} /\ ~preview /\ NonePending
  /\ op # None /\ op.what = "open" =>
       ~flags.uninit /\ (flags.init <=> ~thread.initialised) /\ started = 1
  /\ op # None /\ op.what = "close" =>
       ~flags.init /\ (flags.uninit <=> thread.initialised) /\ started = 0

(* Frames are on their way only from those that have started. *)
PendingInv ==
  /\ pending["opal"] # None => pending["opal"].of \in active
  /\ pending["preview"] # None => preview

(* A thread that is not initialised has closed what it had opened. *)
ClosedInv ==
  ~thread.initialised =>
    window = Nothing /\ told = ClosedSignal /\ frame = Nothing

UseInv == UsersOK /\ OpenInv /\ PendingInv

PictureInv == PicturesOK /\ ClosedInv /\ LastFrameIsRight

IInv == UseInv /\ PictureInv

LEMMA Typed == TypeOK <=> UsersOK /\ PicturesOK
BY DEF TypeOK, UsersOK, PicturesOK

-----------------------------------------------------------------------------
(* The users. *)

LEMMA NoneFacts ==
  /\ \A w \in {"open", "close"}, by \in Kinds \cup {"preview"} :
       [what |-> w, by |-> by] # None
  /\ \A k \in AllKinds, mode \in Modes \cup {None} :
       [of |-> k, mode |-> mode] # None
BY VideoOutputAssumption DEF VideoOutputAssumption

LEMMA OpenStep ==
  ASSUME UseInv, NEW by \in Kinds \cup {"preview"}, Free,
         started = 0, started' = started + 1,
         op' = [what |-> "open", by |-> by],
         flags' = [flags EXCEPT !.init = TRUE, !.run = TRUE],
         UNCHANGED <<active, preview, pending, thread>>
  PROVE  UseInv'
<1>1. op' # None /\ op'.what = "open"
  BY NoneFacts
<1>2. active = {} /\ ~preview /\ ~thread.initialised
      /\ ~flags.init /\ ~flags.uninit
  BY DEF UseInv, UsersOK, OpenInv, Free, Used, Users
<1>3. NonePending
  BY <1>2 DEF UseInv, PendingInv, NonePending
<1>4. UsersOK'
  <2>1. started' \in 0..2
    OBVIOUS
  <2>2. flags' \in [init : BOOLEAN, uninit : BOOLEAN, end : BOOLEAN,
                   run : BOOLEAN]
    BY DEF UseInv, UsersOK
  <2> QED
    BY <2>1, <2>2 DEF UseInv, UsersOK
<1>5. flags'.init /\ ~flags'.uninit
  BY <1>2 DEF UseInv, UsersOK
<1>6. OpenInv'
  BY <1>1, <1>2, <1>3, <1>5 DEF OpenInv, NonePending
<1>7. PendingInv'
  BY DEF UseInv, PendingInv
<1> QED
  BY <1>4, <1>6, <1>7 DEF UseInv

LEMMA CloseStep ==
  ASSUME UseInv, NEW by \in Kinds \cup {"preview"}, Free, Used,
         started = 1, started' = started - 1,
         op' = [what |-> "close", by |-> by],
         flags' = [flags EXCEPT !.uninit = TRUE, !.run = TRUE],
         active' = {}, preview' = FALSE, NonePending,
         UNCHANGED <<pending, thread>>
  PROVE  UseInv'
<1>1. op' # None /\ op'.what = "close"
  BY NoneFacts
<1>2. thread.initialised /\ ~flags.init
  BY DEF UseInv, UsersOK, OpenInv, Free
<1>4. UsersOK'
  <2>1. started' \in 0..2
    OBVIOUS
  <2>2. flags' \in [init : BOOLEAN, uninit : BOOLEAN, end : BOOLEAN,
                   run : BOOLEAN]
    BY DEF UseInv, UsersOK
  <2> QED
    BY <2>1, <2>2 DEF UseInv, UsersOK
<1>5. flags'.uninit /\ ~flags'.init
  BY <1>2 DEF UseInv, UsersOK
<1>6. OpenInv'
  BY <1>1, <1>2, <1>5 DEF OpenInv, NonePending
<1>7. PendingInv'
  BY DEF PendingInv, NonePending
<1> QED
  BY <1>4, <1>6, <1>7 DEF UseInv

(* The users change, and the manager is and stays open. *)
LEMMA UsersStep ==
  ASSUME UseInv, op = None, UNCHANGED <<op, flags, thread>>,
         active' \subseteq Kinds, preview' \in BOOLEAN, Used, Used',
         started' = Users',
         pending' \in [{"opal", "preview"} ->
           {None} \cup [of : AllKinds, mode : Modes \cup {None}]],
         PendingInv'
  PROVE  UseInv'
<1>1. UsersOK'
  BY DEF UseInv, UsersOK, Users
<1>2. OpenInv'
  BY DEF UseInv, OpenInv, Used, Users
<1> QED
  BY <1>1, <1>2 DEF UseInv

LEMMA ReadsFacts ==
  ASSUME IInv, NEW t \in {"opal", "preview"}, NEW k \in AllKinds, Reads(t, k)
  PROVE  /\ pending' \in [{"opal", "preview"} ->
              {None} \cup [of : AllKinds, mode : Modes \cup {None}]]
         /\ pending'[t] # None /\ pending'[t].of = k
         /\ \A u \in {"opal", "preview"} \ {t} : pending'[u] = pending[u]
<1>1. ModeRead(k) \in Modes \cup {None}
  BY VideoOutputAssumption DEF ModeRead, IInv, PictureInv, PicturesOK, Modes,
     VideoOutputAssumption
<1>2. [of |-> k, mode |-> ModeRead(k)] # None
  BY <1>1, NoneFacts
<1> QED
  BY <1>1, <1>2 DEF Reads, IInv, UseInv, UsersOK

LEMMA KindsFacts == \A k \in Kinds : k \in AllKinds /\ k \in Kinds \cup {"preview"}
BY VideoOutputAssumption DEF VideoOutputAssumption

(* Without an operation the core counts its users. *)
LEMMA FreeFacts ==
  ASSUME UseInv, Free
  PROVE  /\ op = None /\ started = Users /\ (thread.initialised <=> Used)
         /\ preview \in BOOLEAN /\ active \subseteq Kinds
         /\ active = {} => pending["opal"] = None
         /\ ~preview => pending["preview"] = None
BY DEF UseInv, UsersOK, OpenInv, PendingInv, Free

LEMMA SetFrameDataStep ==
  ASSUME IInv, NEW k \in Kinds, SetFrameData(k)
  PROVE  UseInv'
<1>1. /\ Free /\ UNCHANGED thread /\ UseInv /\ k \in AllKinds
      /\ op = None /\ started = Users /\ preview \in BOOLEAN
      /\ active \subseteq Kinds /\ PendingInv
  BY FreeFacts, KindsFacts DEF SetFrameData, IInv, UseInv
<1>2. CASE k \in active
  <2>1. Reads("opal", k) /\ UNCHANGED <<active, preview, started, op, flags>>
    BY <1>2 DEF SetFrameData
  <2>2. PendingInv'
    BY <1>1, <1>2, <2>1, ReadsFacts DEF PendingInv
  <2>3. Used /\ Used' /\ started' = Users'
    BY <1>1, <1>2, <2>1 DEF Used, Users
  <2> QED
    BY <1>1, <2>1, <2>2, <2>3, ReadsFacts, UsersStep
<1>3. CASE active = {} /\ started = 0
  <2>1. /\ started' = started + 1 /\ op' = [what |-> "open", by |-> k]
        /\ flags' = [flags EXCEPT !.init = TRUE, !.run = TRUE]
        /\ UNCHANGED <<active, preview, pending, thread>>
    BY <1>3 DEF SetFrameData, start
  <2> QED
    BY <1>1, <1>3, <2>1, OpenStep, KindsFacts
<1>4. CASE k \notin active /\ ~(active = {} /\ started = 0)
  <2>1. /\ FirstFrame(k) /\ UNCHANGED <<op, flags>>
        /\ started' = IF active = {} THEN started + 1 ELSE started
    BY <1>4 DEF SetFrameData, start
  <2>2. /\ active' = active \cup {k} /\ Reads("opal", k) /\ UNCHANGED preview
    BY <2>1 DEF FirstFrame
  <2>3. PendingInv'
    BY <1>1, <2>2, ReadsFacts DEF PendingInv
  <2>4. Used /\ Used' /\ started' = Users'
    BY <1>1, <1>4, <2>1, <2>2 DEF Used, Users
  <2>5. active' \subseteq Kinds /\ preview' \in BOOLEAN
    BY <1>1, <2>2
  <2> QED
    BY <1>1, <2>1, <2>2, <2>3, <2>4, <2>5, ReadsFacts, UsersStep
<1> QED
  BY <1>2, <1>3, <1>4

LEMMA DestroyDisplayStep ==
  ASSUME UseInv, NEW k \in Kinds, DestroyDisplay(k)
  PROVE  UseInv'
<1>1. /\ Free /\ pending["opal"] = None /\ k \in active
      /\ active' = active \ {k} /\ UNCHANGED <<preview, pending, thread>>
      /\ op = None /\ started = Users /\ preview \in BOOLEAN
      /\ active \subseteq Kinds /\ ~preview => pending["preview"] = None
  BY FreeFacts DEF DestroyDisplay
<1>2. CASE active' = {} /\ ~preview
  <2>1. started = 1
    BY <1>1, <1>2 DEF Users
  <2>2. /\ started' = started - 1 /\ op' = [what |-> "close", by |-> k]
        /\ flags' = [flags EXCEPT !.uninit = TRUE, !.run = TRUE]
    BY <1>2, <2>1 DEF DestroyDisplay, stop
  <2>3. Used /\ NonePending /\ preview' = FALSE
    BY <1>1, <1>2 DEF Used, NonePending
  <2> QED
    BY <1>1, <1>2, <2>1, <2>2, <2>3, CloseStep, KindsFacts
<1>3. CASE active' # {} \/ preview
  <2>1. UNCHANGED <<op, flags>> /\ started' = Users'
    <3>1. CASE active' = {}
      <4>1. started = 2
        BY <1>1, <1>3, <3>1 DEF Users
      <4> QED
        BY <1>1, <1>3, <3>1, <4>1 DEF DestroyDisplay, stop, Users
    <3>2. CASE active' # {}
      BY <1>1, <3>2 DEF DestroyDisplay, Users
    <3> QED
      BY <3>1, <3>2
  <2>2. PendingInv'
    BY <1>1 DEF UseInv, PendingInv
  <2>3. Used /\ Used'
    BY <1>1, <1>3 DEF Used
  <2>4. /\ active' \subseteq Kinds /\ preview' \in BOOLEAN
        /\ pending' \in [{"opal", "preview"} ->
             {None} \cup [of : AllKinds, mode : Modes \cup {None}]]
    BY <1>1 DEF UseInv, UsersOK
  <2> QED
    BY <1>1, <2>1, <2>2, <2>3, <2>4, UsersStep
<1> QED
  BY <1>1, <1>2, <1>3

LEMMA StartPreviewStep ==
  ASSUME UseInv, StartPreview
  PROVE  UseInv'
<1>1. /\ Free /\ ~preview /\ UNCHANGED thread /\ started' = started + 1
      /\ op = None /\ started = Users /\ active \subseteq Kinds
  BY FreeFacts DEF StartPreview, start
<1>2. CASE started = 0
  <2>1. /\ op' = [what |-> "open", by |-> "preview"]
        /\ flags' = [flags EXCEPT !.init = TRUE, !.run = TRUE]
        /\ UNCHANGED <<active, preview, pending>>
    BY <1>2 DEF StartPreview, start
  <2> QED
    BY <1>1, <1>2, <2>1, OpenStep
<1>3. CASE started # 0
  <2>1. preview' = TRUE /\ UNCHANGED <<active, pending, op, flags>>
    BY <1>3 DEF StartPreview, start, PreviewIsOn
  <2>2. Used /\ Used' /\ started' = Users'
    BY <1>1, <1>3, <2>1 DEF Used, Users
  <2>3. PendingInv'
    BY <2>1 DEF UseInv, PendingInv
  <2>4. /\ active' \subseteq Kinds /\ preview' \in BOOLEAN
        /\ pending' \in [{"opal", "preview"} ->
             {None} \cup [of : AllKinds, mode : Modes \cup {None}]]
    BY <1>1, <2>1 DEF UseInv, UsersOK
  <2> QED
    BY <1>1, <2>1, <2>2, <2>3, <2>4, UsersStep
<1> QED
  BY <1>2, <1>3

LEMMA PreviewFrameStep ==
  ASSUME IInv, PreviewFrame
  PROVE  UseInv'
<1>1. /\ Free /\ preview /\ Reads("preview", "local") /\ UseInv
      /\ UNCHANGED <<active, preview, started, op, thread, flags>>
      /\ op = None /\ started = Users /\ active \subseteq Kinds
      /\ preview \in BOOLEAN
  BY FreeFacts DEF PreviewFrame, IInv
<1>2. "local" \in AllKinds
  BY DEF AllKinds
<1>3. PendingInv'
  BY <1>1, <1>2, ReadsFacts DEF UseInv, PendingInv
<1>4. Used /\ Used' /\ started' = Users'
  BY <1>1 DEF Used, Users
<1> QED
  BY <1>1, <1>2, <1>3, <1>4, ReadsFacts, UsersStep

LEMMA StopPreviewStep ==
  ASSUME UseInv, StopPreview
  PROVE  UseInv'
<1>1. /\ Free /\ preview /\ pending["preview"] = None /\ preview' = FALSE
      /\ UNCHANGED <<active, pending, thread>>
      /\ op = None /\ started = Users /\ active \subseteq Kinds
      /\ active = {} => pending["opal"] = None
  BY FreeFacts DEF StopPreview
<1>2. CASE active = {}
  <2>1. started = 1 /\ Used /\ NonePending
    BY <1>1, <1>2 DEF Users, Used, NonePending
  <2>2. /\ started' = started - 1 /\ op' = [what |-> "close", by |-> "preview"]
        /\ flags' = [flags EXCEPT !.uninit = TRUE, !.run = TRUE]
    BY <2>1 DEF StopPreview, stop
  <2> QED
    BY <1>1, <1>2, <2>1, <2>2, CloseStep
<1>3. CASE active # {}
  <2>1. started = 2 /\ Used /\ Used'
    BY <1>1, <1>3 DEF Users, Used
  <2>2. UNCHANGED <<op, flags>> /\ started' = Users'
    BY <1>1, <1>3, <2>1 DEF StopPreview, stop, Users
  <2>3. PendingInv'
    BY <1>1 DEF UseInv, PendingInv
  <2>4. /\ active' \subseteq Kinds /\ preview' \in BOOLEAN
        /\ pending' \in [{"opal", "preview"} ->
             {None} \cup [of : AllKinds, mode : Modes \cup {None}]]
    BY <1>1 DEF UseInv, UsersOK
  <2> QED
    BY <1>1, <2>1, <2>2, <2>3, <2>4, UsersStep
<1> QED
  BY <1>2, <1>3

LEMMA ReturnsStep ==
  ASSUME IInv, Returns
  PROVE  UseInv'
<1>1. /\ op # None /\ op' = None /\ UNCHANGED <<started, thread, flags>>
      /\ active = {} /\ ~preview /\ NonePending /\ UseInv
      /\ op \in [what : {"open", "close"}, by : Kinds \cup {"preview"}]
  BY DEF Returns, IInv, UseInv, UsersOK, OpenInv
<1>2. CASE op.what = "close"
  <2>1. /\ UNCHANGED <<active, preview, pending>> /\ started = 0
        /\ ~flags.init /\ ~flags.uninit /\ ~thread.initialised
    BY <1>1, <1>2 DEF Returns, UseInv, OpenInv
  <2>2. UsersOK'
    BY <1>1, <2>1 DEF UseInv, UsersOK
  <2>3. OpenInv'
    BY <1>1, <2>1 DEF OpenInv, Used, Users
  <2> QED
    BY <1>1, <2>1, <2>2, <2>3 DEF UseInv, PendingInv
<1>3. CASE op.what = "open"
  <2>1. /\ started = 1 /\ ~flags.init /\ ~flags.uninit /\ thread.initialised
    BY <1>1, <1>3 DEF Returns, UseInv, OpenInv
  <2>2. CASE op.by = "preview"
    <3>1. active' = {} /\ preview' = TRUE /\ UNCHANGED pending
      BY <1>1, <1>3, <2>2 DEF Returns, PreviewIsOn
    <3>2. UsersOK'
      BY <1>1, <3>1 DEF UseInv, UsersOK
    <3>3. OpenInv'
      BY <1>1, <2>1, <3>1 DEF OpenInv, Used, Users
    <3>4. PendingInv'
      BY <1>1, <3>1 DEF PendingInv, NonePending
    <3> QED
      BY <3>2, <3>3, <3>4 DEF UseInv
  <2>3. CASE op.by # "preview"
    <3>1. PICK k \in Kinds : k = op.by
      BY <1>1, <2>3
    <3>2. active' = {k} /\ Reads("opal", k) /\ preview' = FALSE
      <4>1. UNCHANGED preview /\ preview \in BOOLEAN
        BY <1>1, <1>3, <2>3 DEF Returns, FirstFrame, UseInv, UsersOK
      <4> QED
        BY <1>1, <1>3, <2>3, <3>1, <4>1 DEF Returns, FirstFrame
    <3>3. /\ pending' \in [{"opal", "preview"} ->
                {None} \cup [of : AllKinds, mode : Modes \cup {None}]]
          /\ pending'["opal"].of = k /\ pending'["preview"] = None
      BY <1>1, <3>2, ReadsFacts, KindsFacts DEF NonePending
    <3>4. UsersOK'
      BY <1>1, <3>2, <3>3 DEF UseInv, UsersOK
    <3>5. OpenInv'
      BY <1>1, <2>1, <3>2 DEF OpenInv, Used, Users
    <3>6. PendingInv'
      BY <3>2, <3>3 DEF PendingInv
    <3> QED
      BY <3>4, <3>5, <3>6 DEF UseInv
  <2> QED
    BY <2>2, <2>3
<1> QED
  BY <1>1, <1>2, <1>3

LEMMA NothingFacts ==
  /\ Nothing \in [AllKinds -> Sizes \cup {None}]
  /\ \A k \in AllKinds : Nothing[k] = None
  /\ ClosedSignal \in [what : {"closed", "error", "opened"}, ext : BOOLEAN]
  /\ "local" \in AllKinds /\ "remote" \in AllKinds
BY DEF Nothing, ClosedSignal, AllKinds

(* The steps of the users leave the pictures alone. *)
LEMMA PicturesKept ==
  ASSUME PictureInv, UNCHANGED <<info, drawing, thread>>
  PROVE  PictureInv'
<1>1. UNCHANGED <<info, cur, frame, last, window, leaked, screen, result, told,
                  crashed, thread>>
  BY DEF drawing
<1> QED
  BY <1>1 DEF PictureInv, PicturesOK, ClosedInv, LastFrameIsRight, Nothing,
     ClosedSignal, Shows

-----------------------------------------------------------------------------
(* The frames that are stored. *)

LEMMA ModeFacts ==
  ASSUME PicturesOK, NEW t, NEW k \in AllKinds, NEW mode \in Modes \cup {None}
  PROVE  /\ Received(t, k) \in SUBSET AllKinds
         /\ ModeOf(t, k, mode) \in Modes \cup {None}
BY DEF PicturesOK, Received, ModeOf, Modes

LEMMA StoreFrameStep ==
  ASSUME IInv, NEW t \in {"opal", "preview"}, NEW s \in Sizes, StoreFrame(t, s)
  PROVE  IInv'
<1> DEFINE k == pending[t].of
           mode == ModeOf(t, k, pending[t].mode)
           many == DevicesNbr(t) > 1
           both == many /\ {"local", "remote"} \subseteq Received(t, k)
           ext == many /\ "ext" \in Received(t, k)
           run == flags.run \/ mode \in PipModes \/ KindOf(mode) = k
<1>1. /\ pending[t] # None
      /\ pending[t] \in [of : AllKinds, mode : Modes \cup {None}]
      /\ k \in AllKinds /\ UseInv /\ PictureInv
  BY DEF StoreFrame, IInv, UseInv, UsersOK
<1>2. /\ Received(t, k) \in SUBSET AllKinds /\ mode \in Modes \cup {None}
  BY <1>1, ModeFacts DEF PictureInv
<1>3. both \in BOOLEAN /\ ext \in BOOLEAN /\ run \in BOOLEAN
  BY DEF UseInv, UsersOK
<1>4. /\ frame' = [frame EXCEPT ![k] = s]
      /\ cur' = [mode |-> mode, received |-> Received(t, k),
                 both |-> both, ext |-> ext]
      /\ pending' = [pending EXCEPT ![t] = None]
      /\ flags' = [flags EXCEPT !.run = run]
      /\ UNCHANGED <<active, preview, started, op, info, last, window, leaked,
                     screen, result, told, crashed, thread>>
  BY DEF StoreFrame
<1> HIDE DEF k, mode, many, both, ext, run
<1>5. UsersOK' /\ flags'.init = flags.init /\ flags'.uninit = flags.uninit
  BY <1>1, <1>3, <1>4 DEF UseInv, UsersOK
<1>6. op = None /\ Used /\ thread.initialised
  BY <1>1 DEF UseInv, OpenInv, PendingInv, NonePending, Used
<1>7. OpenInv'
  BY <1>1, <1>4, <1>5, <1>6 DEF UseInv, OpenInv, Used, Users
<1>8. PendingInv'
  BY <1>1, <1>4 DEF UseInv, UsersOK, PendingInv
<1>9. PicturesOK'
  <2>1. cur' \in [mode : Modes \cup {None}, both : BOOLEAN, ext : BOOLEAN,
                  received : SUBSET AllKinds]
    BY <1>2, <1>3, <1>4
  <2> QED
    BY <1>1, <1>4, <2>1 DEF PictureInv, PicturesOK
<1>10. ClosedInv' /\ LastFrameIsRight'
  BY <1>1, <1>4, <1>6 DEF PictureInv, ClosedInv, LastFrameIsRight, Shows
<1> QED
  BY <1>5, <1>7, <1>8, <1>9, <1>10 DEF IInv, UseInv, PictureInv

-----------------------------------------------------------------------------
(* The thread. *)

(* It alone changes whether it is initialised, and takes the flag down.     *)
LEMMA ThreadStep ==
  ASSUME UseInv, UNCHANGED users,
         NEW at \in {"wait", "init", "draw", "uninit", "ended"},
         NEW initialised \in BOOLEAN, NEW run \in BOOLEAN,
         NEW init \in BOOLEAN, NEW uninit \in BOOLEAN,
         thread' = [at |-> at, initialised |-> initialised],
         flags' = [flags EXCEPT !.init = init, !.uninit = uninit, !.run = run],
         \/ init = flags.init /\ uninit = flags.uninit
            /\ initialised = thread.initialised
         \/ ~init /\ flags.init /\ uninit = flags.uninit /\ initialised
         \/ ~uninit /\ flags.uninit /\ init = flags.init /\ ~initialised
  PROVE  UseInv'
<1>1. /\ flags'.init = init /\ flags'.uninit = uninit
      /\ thread'.initialised = initialised
      /\ flags' \in [init : BOOLEAN, uninit : BOOLEAN, end : BOOLEAN,
                     run : BOOLEAN]
  BY DEF UseInv, UsersOK
<1>2. UNCHANGED <<active, preview, started, op, pending>>
  BY DEF users
<1>3. UsersOK'
  BY <1>1, <1>2 DEF UseInv, UsersOK
<1>4. /\ flags.init \in BOOLEAN /\ flags.uninit \in BOOLEAN
      /\ thread.initialised \in BOOLEAN
      /\ op = None \/ op.what \in {"open", "close"}
  BY DEF UseInv, UsersOK
<1>5. OpenInv'
  BY <1>1, <1>2, <1>4 DEF UseInv, OpenInv, NonePending, Used, Users
<1>6. PendingInv'
  BY <1>2 DEF UseInv, PendingInv
<1> QED
  BY <1>3, <1>5, <1>6 DEF UseInv

LEMMA ThreadFacts ==
  ASSUME UseInv
  PROVE  /\ flags.init \in BOOLEAN /\ flags.uninit \in BOOLEAN
         /\ flags.run \in BOOLEAN /\ flags.end \in BOOLEAN
         /\ thread.initialised \in BOOLEAN
         /\ thread = [at |-> thread.at, initialised |-> thread.initialised]
         /\ flags = [init |-> flags.init, uninit |-> flags.uninit,
                     end |-> flags.end, run |-> flags.run]
         /\ flags.init => ~thread.initialised
         /\ flags.uninit => thread.initialised
BY DEF UseInv, UsersOK, OpenInv

LEMMA WakesStep ==
  ASSUME IInv, Wakes
  PROVE  IInv'
<1>1. /\ UseInv /\ PictureInv /\ UNCHANGED users /\ UNCHANGED <<info, drawing>>
      /\ thread' = [thread EXCEPT !.at = "init"]
      /\ flags' = [flags EXCEPT !.run = FALSE]
  BY DEF Wakes, IInv
<1>2. PICK initialised, init, uninit :
        initialised = thread.initialised /\ init = flags.init
        /\ uninit = flags.uninit
  OBVIOUS
<1>3. /\ initialised \in BOOLEAN /\ init \in BOOLEAN /\ uninit \in BOOLEAN
      /\ thread' = [at |-> "init", initialised |-> initialised]
      /\ flags' = [flags EXCEPT !.init = init, !.uninit = uninit, !.run = FALSE]
  BY <1>1, <1>2, ThreadFacts
<1>4. UseInv'
  BY <1>1, <1>2, <1>3, ThreadStep
<1>5. PictureInv'
  <2>1. /\ thread'.initialised = thread.initialised
        /\ UNCHANGED <<info, cur, frame, last, window, leaked, screen, result,
                       told, crashed>>
    BY <1>1, <1>2, <1>3 DEF drawing
  <2> QED
    BY <1>1, <2>1 DEF PictureInv, PicturesOK, ClosedInv, LastFrameIsRight,
       Nothing, ClosedSignal, Shows
<1> QED
  BY <1>4, <1>5 DEF IInv

LEMMA InitialisesStep ==
  ASSUME IInv, Initialises
  PROVE  IInv'
<1>1. /\ UseInv /\ PictureInv /\ UNCHANGED users
      /\ UNCHANGED <<info, window, leaked, result, told, crashed>>
      /\ thread' = [at |-> "draw",
                    initialised |-> thread.initialised \/ flags.init]
      /\ flags' = [flags EXCEPT !.init = FALSE]
  BY DEF Initialises, IInv
<1>2. PICK initialised, uninit, run \in BOOLEAN :
        (initialised <=> thread.initialised \/ flags.init)
        /\ uninit = flags.uninit /\ run = flags.run
  <2>1. /\ (thread.initialised \/ flags.init) \in BOOLEAN
        /\ flags.uninit \in BOOLEAN /\ flags.run \in BOOLEAN
    BY <1>1, ThreadFacts
  <2> QED
    BY <2>1
<1>3. /\ uninit \in BOOLEAN /\ run \in BOOLEAN
      /\ thread' = [at |-> "draw", initialised |-> initialised]
      /\ flags' = [flags EXCEPT !.init = FALSE, !.uninit = uninit, !.run = run]
  BY <1>1, <1>2, ThreadFacts
<1>4. UseInv'
  BY <1>1, <1>2, <1>3, ThreadFacts, ThreadStep
<1>5. CASE flags.init
  <2>1. /\ cur' = [cur EXCEPT !.both = FALSE, !.ext = FALSE, !.received = {}]
        /\ frame' = Nothing
        /\ last' = [mode |-> None, ext_mode |-> None, both |-> FALSE,
                    ext |-> FALSE, size |-> Nothing]
        /\ screen' = [screen EXCEPT !.video_disabled = FALSE]
    BY <1>5 DEF Initialises
  <2>2. window = Nothing
    BY <1>1, <1>5, ThreadFacts DEF PictureInv, ClosedInv
  <2>3. cur' \in [mode : Modes \cup {None}, both : BOOLEAN, ext : BOOLEAN,
                  received : SUBSET AllKinds]
    BY <1>1, <2>1 DEF PictureInv, PicturesOK
  <2>4. PicturesOK'
    BY <1>1, <2>1, <2>3 DEF PictureInv, PicturesOK, Nothing
  <2>5. thread'.initialised
    BY <1>1, <1>5
  <2> QED
    BY <1>1, <1>4, <2>2, <2>4, <2>5, NothingFacts
    DEF IInv, PictureInv, ClosedInv, LastFrameIsRight
<1>6. CASE ~flags.init
  <2>1. UNCHANGED <<cur, frame, last, screen>>
    BY <1>6 DEF Initialises
  <2>2. thread'.initialised <=> thread.initialised
    BY <1>1, <1>6
  <2> QED
    BY <1>1, <1>4, <2>1, <2>2 DEF IInv, PictureInv, PicturesOK, ClosedInv,
       LastFrameIsRight, Nothing, ClosedSignal, Shows
<1> QED
  BY <1>5, <1>6

LEMMA UninitialisesStep ==
  ASSUME IInv, Uninitialises
  PROVE  IInv'
<1>1. /\ UseInv /\ PictureInv /\ UNCHANGED users
      /\ UNCHANGED <<info, cur, last, leaked, screen, crashed>>
      /\ flags' = [flags EXCEPT !.uninit = FALSE]
      /\ IF flags.uninit \/ flags.end THEN Closes
         ELSE UNCHANGED <<window, told, result>>
      /\ IF flags.uninit THEN frame' = Nothing ELSE UNCHANGED frame
  BY DEF Uninitialises, IInv
<1>2. PICK at \in {"ended", "wait"}, initialised, init, run \in BOOLEAN :
        /\ initialised <=> thread.initialised /\ ~flags.uninit
        /\ init = flags.init /\ run = flags.run
        /\ thread' = [at |-> at, initialised |-> initialised]
  BY <1>1, ThreadFacts DEF Uninitialises
<1>3. /\ init \in BOOLEAN /\ run \in BOOLEAN
      /\ flags' = [flags EXCEPT !.init = init, !.uninit = FALSE, !.run = run]
  BY <1>1, <1>2, ThreadFacts
<1>4. UseInv'
  BY <1>1, <1>2, <1>3, ThreadFacts, ThreadStep
<1>5. /\ window' \in {window, Nothing} /\ frame' \in {frame, Nothing}
      /\ told' \in {told, ClosedSignal} /\ result' \in {result, "hidden"}
  BY <1>1 DEF Closes
<1>6. PicturesOK'
  BY <1>1, <1>5, NothingFacts DEF PictureInv, PicturesOK
<1>7. ClosedInv'
  <2>1. thread'.initialised <=> initialised
    BY <1>2
  <2>2. CASE flags.uninit
    BY <1>1, <2>2 DEF Closes, ClosedInv, Nothing, ClosedSignal
  <2>3. CASE ~flags.uninit
    BY <1>1, <1>2, <2>1, <2>3 DEF PictureInv, Closes, ClosedInv, Nothing,
       ClosedSignal
  <2> QED
    BY <2>2, <2>3
<1>8. LastFrameIsRight'
  <2>1. CASE window' = window
    BY <1>1, <2>1 DEF PictureInv, LastFrameIsRight, Shows
  <2>2. CASE window' = Nothing
    BY <2>2, NothingFacts DEF LastFrameIsRight
  <2> QED
    BY <1>5, <2>1, <2>2
<1> QED
  BY <1>4, <1>6, <1>7, <1>8 DEF IInv, PictureInv

-----------------------------------------------------------------------------
(* redraw. *)

LEMMA LastFacts ==
  ASSUME PicturesOK, cur.mode # None
  PROVE  /\ OpenedLast \in [mode : Modes \cup {None},
               ext_mode : {"remote_ext", None}, both : BOOLEAN, ext : BOOLEAN,
               size : [AllKinds -> Sizes \cup {None}]]
         /\ \A k \in AllKinds :
              OpenedLast.size[k] = IF k \in Shows(cur.mode) THEN frame[k]
                                                            ELSE last.size[k]
         /\ OpenedLast.mode = IF cur.mode = "remote_ext" THEN last.mode
                                                         ELSE cur.mode
<1> DEFINE m == IF cur.mode = "remote_ext" THEN last.mode ELSE cur.mode
           e == IF cur.mode = "remote_ext" THEN cur.mode ELSE last.ext_mode
           z == [k \in AllKinds |->
                   IF k \in Shows(cur.mode) THEN frame[k] ELSE last.size[k]]
<1>1. /\ m \in Modes \cup {None} /\ e \in {"remote_ext", None}
      /\ z \in [AllKinds -> Sizes \cup {None}]
  BY DEF PicturesOK
<1>2. OpenedLast = [last EXCEPT !.mode = m, !.ext_mode = e, !.size = z]
  BY DEF OpenedLast
<1>3. \A k \in AllKinds : z[k] = IF k \in Shows(cur.mode) THEN frame[k]
                                                          ELSE last.size[k]
  OBVIOUS
<1> HIDE DEF m, e, z
<1>4. /\ OpenedLast \in [mode : Modes \cup {None},
            ext_mode : {"remote_ext", None}, both : BOOLEAN, ext : BOOLEAN,
            size : [AllKinds -> Sizes \cup {None}]]
      /\ OpenedLast.size = z /\ OpenedLast.mode = m
  BY <1>1, <1>2 DEF PicturesOK
<1> QED
  BY <1>3, <1>4 DEF m

LEMMA ClosedFacts ==
  ASSUME PicturesOK, NEW k \in AllKinds
  PROVE  /\ Closed[k] \in {window[k], None}
         /\ k \in {"local", "remote"} /\ cur.mode # "remote_ext"
              => Closed[k] = None
BY DEF PicturesOK, Closed

(* Windows that are open are of the sizes and the mode that were noted. *)
LEMMA SetupStep ==
  ASSUME PictureInv, setup_frame_display, UNCHANGED <<info, cur, frame>>,
         result' \in {"shown", "hidden", "failed"}
  PROVE  PicturesOK' /\ LastFrameIsRight'
<1>1. CASE UNCHANGED <<last, window, leaked, screen, told, crashed>>
  BY <1>1 DEF PictureInv, PicturesOK, LastFrameIsRight, Shows
<1>2. CASE ~UNCHANGED <<last, window, leaked, screen, told, crashed>>
  <2>1. cur.mode # None
    BY <1>2 DEF setup_frame_display
  <2>2. PICK fails \in BOOLEAN, pip \in BOOLEAN :
          /\ screen' = [pip_window_available |-> pip, video_disabled |-> fails]
          /\ window' = [k \in AllKinds |->
               IF k \notin Shows(cur.mode) THEN Closed[k]
               ELSE IF fails \/ (cur.mode \in PipModes /\ k = "local" /\ ~pip)
               THEN None ELSE frame[k]]
          /\ leaked' = (leaked \/ \E k \in Shows(cur.mode) : Closed[k] # None)
          /\ crashed' = (fails /\ cur.mode \in PipModes)
          /\ last' = IF crashed' THEN last ELSE OpenedLast
          /\ told' = IF crashed' THEN ClosedSignal
                     ELSE IF fails THEN [ClosedSignal EXCEPT !.what = "error"]
                     ELSE Opened
    BY <1>2 DEF setup_frame_display
  <2>3. \A k \in AllKinds :
          /\ k \notin Shows(cur.mode) => window'[k] \in {window[k], None}
          /\ k \in Shows(cur.mode) => window'[k] \in {frame[k], None}
          /\ k \in {"local", "remote"} /\ cur.mode # "remote_ext"
               /\ window'[k] # None => k \in Shows(cur.mode)
          /\ crashed' /\ k \in Shows(cur.mode) => window'[k] = None
    BY <2>2, ClosedFacts DEF PictureInv
  <2>4. "local" \notin Shows("remote_ext") /\ "remote" \notin Shows("remote_ext")
    BY DEF Shows, PipModes, KindOf
  <2>5. /\ OpenedLast \in [mode : Modes \cup {None},
               ext_mode : {"remote_ext", None}, both : BOOLEAN, ext : BOOLEAN,
               size : [AllKinds -> Sizes \cup {None}]]
        /\ \A k \in AllKinds :
             OpenedLast.size[k] = IF k \in Shows(cur.mode) THEN frame[k]
                                                           ELSE last.size[k]
        /\ OpenedLast.mode = IF cur.mode = "remote_ext" THEN last.mode
                                                        ELSE cur.mode
    BY <2>1, LastFacts DEF PictureInv
  <2>6. PicturesOK'
    <3>1. window' \in [AllKinds -> Sizes \cup {None}]
      <4>1. window' = [k \in AllKinds |-> window'[k]]
        BY <2>2
      <4>2. \A k \in AllKinds : window'[k] \in Sizes \cup {None}
        BY <2>3 DEF PictureInv, PicturesOK
      <4> QED
        BY <4>1, <4>2
    <3>2. last' \in [mode : Modes \cup {None}, ext_mode : {"remote_ext", None},
                     both : BOOLEAN, ext : BOOLEAN,
                     size : [AllKinds -> Sizes \cup {None}]]
      BY <2>2, <2>5 DEF PictureInv, PicturesOK
    <3>3. told' \in [what : {"closed", "error", "opened"}, ext : BOOLEAN]
      BY <2>2 DEF PictureInv, PicturesOK, ClosedSignal, Opened
    <3>4. /\ screen' \in [pip_window_available : BOOLEAN,
                          video_disabled : BOOLEAN]
          /\ leaked' \in BOOLEAN /\ crashed' \in BOOLEAN
      BY <2>2 DEF PictureInv, PicturesOK
    <3> QED
      BY <3>1, <3>2, <3>3, <3>4 DEF PictureInv, PicturesOK
  <2>7. ASSUME NEW k \in AllKinds, window'[k] # None
        PROVE  /\ window'[k] = last'.size[k]
               /\ k \in {"local", "remote"} => k \in Shows(last'.mode)
    <3>1. crashed' \in BOOLEAN
      BY <2>2
    <3>2. CASE k \in Shows(cur.mode)
      <4>1. window'[k] = frame[k] /\ last' = OpenedLast
        BY <2>2, <2>3, <2>7, <3>1, <3>2
      <4> QED
        BY <2>4, <2>5, <3>2, <4>1
    <3>3. CASE k \notin Shows(cur.mode)
      <4>1. window'[k] = window[k] /\ window[k] = last.size[k]
        BY <2>3, <2>7, <3>3 DEF PictureInv, LastFrameIsRight
      <4>2. last'.size[k] = last.size[k]
        BY <2>2, <2>5, <3>3
      <4>3. k \in {"local", "remote"} => last'.mode = last.mode
        BY <2>2, <2>3, <2>5, <2>7, <3>3
      <4> QED
        BY <2>7, <4>1, <4>2, <4>3 DEF PictureInv, LastFrameIsRight
    <3> QED
      BY <3>2, <3>3
  <2> QED
    BY <2>6, <2>7, NothingFacts DEF LastFrameIsRight, Shows
<1> QED
  BY <1>1, <1>2

LEMMA RedrawStep ==
  ASSUME PictureInv, redraw, UNCHANGED <<info, cur, frame>>,
         result' \in {"shown", "hidden", "failed"}
  PROVE  PicturesOK' /\ LastFrameIsRight'
<1>1. CASE last.both # cur.both \/ last.ext # cur.ext
  <2>1. /\ last' = [last EXCEPT !.both = cur.both, !.ext = cur.ext]
        /\ told' = Opened
        /\ UNCHANGED <<window, leaked, screen, crashed>>
    BY <1>1 DEF redraw
  <2>2. /\ last' \in [mode : Modes \cup {None}, ext_mode : {"remote_ext", None},
                      both : BOOLEAN, ext : BOOLEAN,
                      size : [AllKinds -> Sizes \cup {None}]]
        /\ last'.size = last.size /\ last'.mode = last.mode
    BY <2>1 DEF PictureInv, PicturesOK
  <2>3. told' \in [what : {"closed", "error", "opened"}, ext : BOOLEAN]
    BY <2>1 DEF PictureInv, PicturesOK, Opened
  <2>4. PicturesOK'
    BY <2>1, <2>2, <2>3 DEF PictureInv, PicturesOK
  <2> QED
    BY <2>1, <2>2, <2>4 DEF PictureInv, LastFrameIsRight, Shows
<1>2. CASE ~(last.both # cur.both \/ last.ext # cur.ext)
  <2>1. setup_frame_display
        \/ UNCHANGED <<last, window, leaked, screen, told, crashed>>
    BY <1>2 DEF redraw
  <2>2. CASE setup_frame_display
    BY <2>2, SetupStep
  <2>3. CASE UNCHANGED <<last, window, leaked, screen, told, crashed>>
    BY <2>3 DEF PictureInv, PicturesOK, LastFrameIsRight, Shows
  <2> QED
    BY <2>1, <2>2, <2>3
<1> QED
  BY <1>1, <1>2

LEMMA DrawsStep ==
  ASSUME IInv, Draws
  PROVE  IInv'
<1>1. /\ UseInv /\ PictureInv /\ UNCHANGED users /\ UNCHANGED <<info, cur, frame>>
      /\ thread' = [thread EXCEPT !.at = "uninit"] /\ UNCHANGED flags
  BY DEF Draws, IInv
<1>2. PICK initialised, init, uninit, run :
        /\ initialised = thread.initialised /\ init = flags.init
        /\ uninit = flags.uninit /\ run = flags.run
  OBVIOUS
<1>3. /\ initialised \in BOOLEAN /\ init \in BOOLEAN /\ uninit \in BOOLEAN
      /\ run \in BOOLEAN
      /\ thread' = [at |-> "uninit", initialised |-> initialised]
      /\ flags' = [flags EXCEPT !.init = init, !.uninit = uninit, !.run = run]
  BY <1>1, <1>2, ThreadFacts
<1>4. UseInv'
  BY <1>1, <1>2, <1>3, ThreadStep
<1>5. thread'.initialised = thread.initialised
  BY <1>2, <1>3
<1>6. CASE UNCHANGED <<last, window, leaked, screen, result, told, crashed>>
  <2>1. PictureInv'
    BY <1>1, <1>5, <1>6 DEF PictureInv, PicturesOK, ClosedInv, LastFrameIsRight,
       Nothing, ClosedSignal, Shows
  <2> QED
    BY <1>4, <2>1 DEF IInv
<1>7. CASE thread.initialised /\ redraw
           /\ result' \in {"shown", "hidden", "failed"}
  <2>1. PicturesOK' /\ LastFrameIsRight'
    BY <1>1, <1>7, RedrawStep
  <2>2. ClosedInv'
    BY <1>5, <1>7 DEF ClosedInv
  <2> QED
    BY <1>4, <2>1, <2>2 DEF IInv, PictureInv
<1> QED
  BY <1>6, <1>7 DEF Draws

-----------------------------------------------------------------------------
(* The user interface. *)

LEMMA InterfaceStep ==
  ASSUME IInv, (\E v \in Views : ChooseView(v)) \/ DrawCallWindow
               \/ DrawExtWindow \/ quit
  PROVE  IInv'
<1>1. /\ UseInv /\ PictureInv /\ UNCHANGED users /\ UNCHANGED drawing
      /\ UNCHANGED thread
      /\ flags' \in {flags, [flags EXCEPT !.end = TRUE, !.run = TRUE]}
  BY DEF ChooseView, DrawCallWindow, DrawExtWindow, quit, IInv
<1>2. info' \in [view : Views, widget : BOOLEAN, ext : BOOLEAN]
  BY DEF ChooseView, DrawCallWindow, DrawExtWindow, quit, IInv, PictureInv,
     PicturesOK
<1>3. /\ flags' \in [init : BOOLEAN, uninit : BOOLEAN, end : BOOLEAN,
                     run : BOOLEAN]
      /\ flags'.init = flags.init /\ flags'.uninit = flags.uninit
  BY <1>1 DEF UseInv, UsersOK
<1>4. UNCHANGED <<active, preview, started, op, pending>>
  BY <1>1 DEF users
<1>5. UseInv'
  BY <1>1, <1>3, <1>4 DEF UseInv, UsersOK, OpenInv, PendingInv, NonePending,
     Used, Users
<1>6. UNCHANGED <<cur, frame, last, window, leaked, screen, result, told,
                  crashed>>
  BY <1>1 DEF drawing
<1>7. PictureInv'
  BY <1>1, <1>2, <1>6 DEF PictureInv, PicturesOK, ClosedInv, LastFrameIsRight,
     Nothing, ClosedSignal, Shows
<1> QED
  BY <1>5, <1>7 DEF IInv

-----------------------------------------------------------------------------
(* The invariant. *)

LEMMA InitIInv == Init => IInv
<1> SUFFICES ASSUME Init PROVE IInv
  OBVIOUS
<1>1. UsersOK
  <2>1. pending \in [{"opal", "preview"} ->
          {None} \cup [of : AllKinds, mode : Modes \cup {None}]]
    <3>1. pending = [t \in {"opal", "preview"} |-> None]
      BY DEF Init
    <3> QED
      BY <3>1
  <2>2. /\ active \subseteq Kinds /\ preview \in BOOLEAN /\ op = None
        /\ started \in 0..2
    <3>1. active = {} /\ preview = FALSE /\ started = 0 /\ op = None
      BY DEF Init
    <3>2. active \subseteq Kinds
      BY <3>1
    <3>3. started \in 0..2
      BY <3>1
    <3>4. preview \in BOOLEAN
      BY <3>1
    <3> QED
      BY <3>1, <3>2, <3>3, <3>4
  <2>3. /\ thread \in [at : {"wait", "init", "draw", "uninit", "ended"},
                       initialised : BOOLEAN]
        /\ flags \in [init : BOOLEAN, uninit : BOOLEAN, end : BOOLEAN,
                      run : BOOLEAN]
    <3>1. /\ thread = [at |-> "wait", initialised |-> FALSE]
          /\ flags = [init |-> FALSE, uninit |-> FALSE, end |-> FALSE,
                      run |-> FALSE]
      BY DEF Init
    <3> QED
      BY <3>1
  <2> QED
    BY <2>1, <2>2, <2>3 DEF UsersOK
<1>2. OpenInv
  BY DEF Init, OpenInv, Used, Users
<1>3. PendingInv
  BY DEF Init, PendingInv
<1>4. PicturesOK
  BY NothingFacts DEF Init, PicturesOK
<1>5. ClosedInv /\ LastFrameIsRight
  BY NothingFacts DEF Init, ClosedInv, LastFrameIsRight
<1> QED
  BY <1>1, <1>2, <1>3, <1>4, <1>5 DEF IInv, UseInv, PictureInv

LEMMA InvariantStep == IInv /\ [Next]_vars => IInv'
<1> SUFFICES ASSUME IInv, [Next]_vars PROVE IInv'
  OBVIOUS
<1>1. CASE \/ \E k \in Kinds : SetFrameData(k) \/ DestroyDisplay(k)
           \/ StartPreview \/ PreviewFrame \/ StopPreview \/ Returns
  <2>1. UseInv'
    BY <1>1, SetFrameDataStep, DestroyDisplayStep, StartPreviewStep,
       PreviewFrameStep, StopPreviewStep, ReturnsStep DEF IInv
  <2>2. UNCHANGED <<info, drawing, thread>>
    BY <1>1 DEF SetFrameData, DestroyDisplay, StartPreview, PreviewFrame,
       StopPreview, Returns
  <2> QED
    BY <2>1, <2>2, PicturesKept DEF IInv
<1>2. CASE \E t \in {"opal", "preview"}, s \in Sizes : StoreFrame(t, s)
  BY <1>2, StoreFrameStep
<1>3. CASE Wakes
  BY <1>3, WakesStep
<1>4. CASE Initialises
  BY <1>4, InitialisesStep
<1>5. CASE Draws
  BY <1>5, DrawsStep
<1>6. CASE Uninitialises
  BY <1>6, UninitialisesStep
<1>7. CASE (\E v \in Views : ChooseView(v)) \/ DrawCallWindow
           \/ DrawExtWindow \/ quit
  BY <1>7, InterfaceStep
<1>8. CASE UNCHANGED vars
  <2>1. UNCHANGED <<users, info, drawing, thread, flags>>
    BY <1>8 DEF vars
  <2>2. UseInv'
    BY <2>1 DEF IInv, UseInv, users, UsersOK, OpenInv, PendingInv, NonePending,
       Used, Users
  <2> QED
    BY <2>1, <2>2, PicturesKept DEF IInv
<1> QED
  BY <1>1, <1>2, <1>3, <1>4, <1>5, <1>6, <1>7, <1>8 DEF Next

LEMMA InvariantHolds == Spec => []IInv
BY InitIInv, InvariantStep, PTL DEF Spec

-----------------------------------------------------------------------------
(* The variables of the core, the manager and its thread keep their types. *)
THEOREM TypeCorrect == Spec => []TypeOK
<1>1. IInv => TypeOK
  BY Typed DEF IInv, UseInv, PictureInv
<1> QED
  BY <1>1, InvariantHolds, PTL

(* The manager is open exactly while the core has a user, whoever of OPAL's *)
(* displays and the preview comes and goes in which order, and without a    *)
(* user no window, no frame and no "opened" is left.                        *)
THEOREM OpenCorrect == Spec => []OpenAsUsed
<1>1. IInv => OpenAsUsed
  <2> SUFFICES ASSUME IInv PROVE OpenAsUsed
    OBVIOUS
  <2>1. OpenWhileUsed
    <3>1. op = None => (thread.initialised <=> (active # {} \/ preview))
      BY DEF IInv, UseInv, OpenInv, Used
    <3>2. thread.initialised \in BOOLEAN
      BY DEF IInv, UseInv, UsersOK
    <3>3. ASSUME NEW t \in {"opal", "preview"}, pending[t] # None
          PROVE  thread.initialised
      BY <3>3 DEF IInv, UseInv, OpenInv, PendingInv, NonePending, Used
    <3> QED
      BY <3>1, <3>2, <3>3 DEF OpenWhileUsed
  <2>2. ClosedWhenUnused
    BY DEF IInv, UseInv, PictureInv, OpenInv, ClosedInv, Used, ClosedWhenUnused
  <2> QED
    BY <2>1, <2>2 DEF OpenAsUsed
<1> QED
  BY <1>1, InvariantHolds, PTL

(* What last_frame keeps is right about the windows that are open, so that *)
(* frame_display_change_needed finds each one of a wrong mode or size.     *)
THEOREM LastFrameCorrect == Spec => []LastFrameIsRight
<1>1. IInv => LastFrameIsRight
  BY DEF IInv, PictureInv
<1> QED
  BY <1>1, InvariantHolds, PTL
=============================================================================
