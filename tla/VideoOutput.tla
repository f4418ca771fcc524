---------------------------- MODULE VideoOutput ----------------------------
(***************************************************************************)
(* The video output: Ekiga::VideoOutputCore, its users (the displays that  *)
(* OPAL opens for the streams of a call, and the preview of the camera),   *)
(* and the X11 manager, whose thread opens and closes the windows and      *)
(* draws.  A user stores a frame, and the mode to draw it in, under        *)
(* var_mutex; the thread draws what was stored last, under the same mutex. *)
(* What the thread tells the user interface goes through the main queue in *)
(* the order it was posted: `told` is what was posted last.                *)
(***************************************************************************)
EXTENDS Naturals, FiniteSets

CONSTANTS
  Kinds,        \* the streams of a call: subset of {"local", "remote", "ext"}
  Sizes,        \* of frames
  Views,        \* modes that the user may choose
  None          \* no size, no mode, no operation

PipModes == {"pip", "pip_window", "fullscreen"}
Modes    == {"local", "remote", "remote_ext"} \cup PipModes
AllKinds == {"local", "remote", "ext"}

ASSUME VideoOutputAssumption ==
  /\ Kinds \subseteq AllKinds /\ Views \subseteq Modes
  /\ None \notin Sizes \cup Modes \cup AllKinds
  /\ None \notin [what : {"open", "close"}, by : AllKinds \cup {"preview"}]
  /\ None \notin [of : AllKinds, mode : Modes \cup {None}]

VARIABLES
  active,       \* OPAL's displays with is_active; devices_nbr counts them
  preview,      \* the preview has started the core and not stopped it
  started,      \* number_times_started
  op,           \* who is inside open or close of the manager, core_mutex held
  pending,      \* [of: kind, mode], frames of a display and of the preview
                \* between reading the display info and storing
  info,         \* view: display_info.mode; widget: widget_info_set;
                \* ext: the same of ext_display_info, with its mode
  cur,          \* current_frame, and which kinds were received
  frame,        \* of each kind: the size of what is stored
  last,         \* last_frame, and of last_ext_frame the mode and the size
  window,       \* lxWindow, rxWindow, exWindow: the size of their image
  leaked,       \* an X window is open that nothing refers to
  screen,       \* pip_window_available, video_disabled
  result,       \* of the last redraw: "shown", "hidden", or "failed" to open
  thread,       \* where it is, and whether it is initialised
  flags,        \* init_thread, uninit_thread, end_thread, run_thread
  told,         \* the last signal posted, and whether device_opened told of
                \* extended video
  crashed       \* the program is over

users   == <<active, preview, started, op, pending>>
drawing == <<cur, frame, last, window, leaked, screen, result, told, crashed>>
vars    == <<users, info, drawing, thread, flags>>

Nothing == [k \in AllKinds |-> None]
ClosedSignal == [what |-> "closed", ext |-> FALSE]
\* core_mutex is free, and the core there.
Free == op = None /\ ~crashed /\ ~flags.end

TypeOK ==
  /\ active \subseteq Kinds /\ preview \in BOOLEAN
  /\ started \in 0..2
  /\ op \in {None} \cup
        [what : {"open", "close"}, by : Kinds \cup {"preview"}]
  /\ pending \in [{"opal", "preview"} ->
        {None} \cup [of : AllKinds, mode : Modes \cup {None}]]
  /\ info \in [view : Views, widget : BOOLEAN, ext : BOOLEAN]
  /\ cur \in [mode : Modes \cup {None}, both : BOOLEAN, ext : BOOLEAN,
              received : SUBSET AllKinds]
  /\ frame \in [AllKinds -> Sizes \cup {None}]
  /\ last \in [mode : Modes \cup {None}, ext_mode : {"remote_ext", None},
               both : BOOLEAN, ext : BOOLEAN,
               size : [AllKinds -> Sizes \cup {None}]]
  /\ window \in [AllKinds -> Sizes \cup {None}]
  /\ leaked \in BOOLEAN
  /\ screen \in [pip_window_available : BOOLEAN, video_disabled : BOOLEAN]
  /\ result \in {"shown", "hidden", "failed"} /\ crashed \in BOOLEAN
  /\ thread \in [at : {"wait", "init", "draw", "uninit", "ended"},
                 initialised : BOOLEAN]
  /\ flags \in [init : BOOLEAN, uninit : BOOLEAN, end : BOOLEAN,
                run : BOOLEAN]
  /\ told \in [what : {"closed", "error", "opened"}, ext : BOOLEAN]

Init ==
  /\ active = {} /\ preview = FALSE /\ started = 0 /\ op = None
  /\ pending = [t \in {"opal", "preview"} |-> None]
  /\ info \in [view : Views, widget : {FALSE}, ext : {FALSE}]
  /\ cur = [mode |-> None, both |-> FALSE, ext |-> FALSE, received |-> {}]
  /\ frame = Nothing /\ window = Nothing /\ leaked = FALSE
  /\ last = [mode |-> None, ext_mode |-> None, both |-> FALSE, ext |-> FALSE,
             size |-> Nothing]
  /\ screen = [pip_window_available |-> TRUE, video_disabled |-> FALSE]
  /\ result = "hidden" /\ crashed = FALSE
  /\ thread = [at |-> "wait", initialised |-> FALSE]
  /\ flags = [init |-> FALSE, uninit |-> FALSE, end |-> FALSE, run |-> FALSE]
  /\ told = ClosedSignal

-----------------------------------------------------------------------------
(* The core: only its first user opens the manager, and the last closes it. *)

\* A mutation: open relies on the thread being awake.
StartUnsignalled(by, Then) ==
  /\ started' = started + 1
  /\ IF started = 0
     THEN /\ op' = [what |-> "open", by |-> by]
          /\ flags' = [flags EXCEPT !.init = TRUE]
          /\ UNCHANGED <<active, preview, pending>>
     ELSE Then /\ UNCHANGED <<op, flags>>

\* start by a user who goes on with Then when it has returned.
start(by, Then) ==
  /\ started' = started + 1
  /\ IF started = 0
     THEN /\ op' = [what |-> "open", by |-> by]
          /\ flags' = [flags EXCEPT !.init = TRUE, !.run = TRUE]
          /\ UNCHANGED <<active, preview, pending>>
     ELSE Then /\ UNCHANGED <<op, flags>>

\* A mutation: stop closes whoever else uses the display.
StopAtOnce(by) ==
  /\ started' = started - 1
  /\ op' = [what |-> "close", by |-> by]
  /\ flags' = [flags EXCEPT !.uninit = TRUE, !.run = TRUE]

stop(by) ==
  /\ started' = started - 1
  /\ IF started = 1
     THEN /\ op' = [what |-> "close", by |-> by]
          /\ flags' = [flags EXCEPT !.uninit = TRUE, !.run = TRUE]
     ELSE UNCHANGED <<op, flags>>

\* set_frame_data of the manager begins by reading the display info.
ModeRead(k) == IF k # "ext" THEN info.view
               ELSE IF info.ext THEN "remote_ext" ELSE None
Reads(t, k) == pending' = [pending EXCEPT ![t] = [of |-> k, mode |-> ModeRead(k)]]

-----------------------------------------------------------------------------
(* The displays of OPAL, one at a time because of videoDisplay_mutex.       *)

FirstFrame(k) == /\ active' = active \cup {k}
                 /\ Reads("opal", k)
                 /\ UNCHANGED preview

\* The camera gives OPAL no frames while the preview has it; extended video
\* comes with the video of the remote party.
SetFrameData(k) ==
  /\ Free /\ pending["opal"] = None
  /\ k = "local" => ~preview
  /\ k = "ext" => "remote" \in active
  /\ IF k \in active
     THEN Reads("opal", k) /\ UNCHANGED <<active, preview, started, op, flags>>
     ELSE IF active = {} THEN start(k, FirstFrame(k))
     ELSE FirstFrame(k) /\ UNCHANGED <<started, op, flags>>
  /\ UNCHANGED <<info, drawing, thread>>

DestroyDisplay(k) ==
  /\ Free /\ pending["opal"] = None /\ k \in active
  /\ k = "remote" => "ext" \notin active
  /\ active' = active \ {k}
  /\ IF active' = {} THEN stop(k) ELSE UNCHANGED <<started, op, flags>>
  /\ UNCHANGED <<preview, pending, info, drawing, thread>>

-----------------------------------------------------------------------------
(* The preview: its thread stores frames only between its start and stop.   *)

PreviewIsOn == preview' = TRUE /\ UNCHANGED <<active, pending>>

StartPreview ==
  /\ Free /\ ~preview
  /\ ~(pending["opal"] # None /\ pending["opal"].of = "local")
  /\ start("preview", PreviewIsOn)
  /\ UNCHANGED <<info, drawing, thread>>

PreviewFrame ==
  /\ Free /\ preview /\ pending["preview"] = None
  /\ Reads("preview", "local")
  /\ UNCHANGED <<active, preview, started, op, info, drawing, thread, flags>>

StopPreview ==
  /\ Free /\ preview /\ pending["preview"] = None
  /\ preview' = FALSE
  /\ stop("preview")
  /\ UNCHANGED <<active, pending, info, drawing, thread>>

\* open and close return when the thread has done what was asked.
Returns ==
  /\ op # None
  /\ \/ op.what = "open" /\ ~flags.init /\ thread.initialised
     \/ op.what = "close" /\ ~flags.uninit /\ ~thread.initialised
  /\ op' = None
  /\ IF op.what = "close" THEN UNCHANGED <<active, preview, pending>>
     ELSE IF op.by = "preview" THEN PreviewIsOn ELSE FirstFrame(op.by)
  /\ UNCHANGED <<started, info, drawing, thread, flags>>

-----------------------------------------------------------------------------
(* set_frame_data, under var_mutex.                                         *)

DevicesNbr(t) == IF t = "preview" THEN 1 ELSE Cardinality(active)

Received(t, k) ==
  LET r == cur.received \cup {k}
  IN  IF DevicesNbr(t) > 1 THEN r
      ELSE r \ {IF k = "local" THEN "remote" ELSE "local"}

ModeOf(t, k, mode) ==
  LET r == Received(t, k)
  IN  IF DevicesNbr(t) <= 1 THEN IF k = "local" THEN "local" ELSE "remote"
      ELSE IF "local" \in r /\ "remote" \notin r THEN "local"
      ELSE IF "local" \notin r /\ "remote" \in r THEN "remote"
      ELSE mode

KindOf(mode) == IF mode = "remote_ext" THEN "ext" ELSE mode

StoreFrame(t, s) ==
  LET k    == pending[t].of
      mode == ModeOf(t, k, pending[t].mode)
      many == DevicesNbr(t) > 1
  IN  /\ pending[t] # None /\ ~crashed
      /\ frame' = [frame EXCEPT ![k] = s]
      /\ cur' = [mode |-> mode, received |-> Received(t, k),
                 both |-> many /\ {"local", "remote"} \subseteq Received(t, k),
                 ext |-> many /\ "ext" \in Received(t, k)]
      /\ pending' = [pending EXCEPT ![t] = None]
      /\ flags' = [flags EXCEPT !.run = @ \/ mode \in PipModes
                                          \/ KindOf(mode) = k]
      /\ UNCHANGED <<active, preview, started, op, info, last, window, leaked,
                     screen, result, told, crashed, thread>>

-----------------------------------------------------------------------------
(* redraw, in the thread, under var_mutex.                                  *)

Shows(mode) == IF mode \in PipModes THEN {"local", "remote"}
               ELSE IF mode = None THEN {} ELSE {KindOf(mode)}
InfoIsSet   == IF cur.mode = "remote_ext" THEN info.ext ELSE info.widget

\* The windows without which the mode cannot be drawn.
WindowMissing ==
  \/ cur.mode \in PipModes /\ \/ window["remote"] = None
                              \/ /\ screen.pip_window_available
                                 /\ window["local"] = None
  \/ cur.mode \notin PipModes /\ \E k \in Shows(cur.mode) : window[k] = None

LastMode == IF cur.mode = "remote_ext" THEN last.ext_mode ELSE last.mode

frame_display_change_needed ==
  \/ WindowMissing
  \/ LastMode # cur.mode
  \/ InfoIsSet /\ \E k \in Shows(cur.mode) : last.size[k] # frame[k]

\* close_display: extended video keeps its own window beside the others, and
\* also when it is opened itself.
Closed ==
  [k \in AllKinds |->
     IF (k = "ext" /\ cur.mode # "local") \/ (k # "ext" /\ cur.mode = "remote_ext")
     THEN window[k] ELSE None]

\* A mutation: the mode that was opened is not noted.
OpenedUnnoted == [last EXCEPT !.size =
  [k \in AllKinds |-> IF k \in Shows(cur.mode) THEN frame[k] ELSE @[k]]]

\* What last_frame and last_ext_frame keep of the windows that were opened.
OpenedLast ==
  [last EXCEPT
    !.mode     = IF cur.mode = "remote_ext" THEN @ ELSE cur.mode,
    !.ext_mode = IF cur.mode = "remote_ext" THEN cur.mode ELSE @,
    !.size     = [k \in AllKinds |->
                    IF k \in Shows(cur.mode) THEN frame[k] ELSE @[k]]]

Opened == [what |-> "opened", ext |-> cur.ext]

\* setup_frame_display: create_window may fail, for the small picture also by
\* the settings, which only leaves that out.  For a failing large picture the
\* code goes on with rxWindow = NULL.
setup_frame_display ==
  IF screen.video_disabled \/ cur.mode = None \/ ~InfoIsSet
  THEN UNCHANGED <<last, window, leaked, screen, told, crashed>>
  ELSE \E fails, pip \in BOOLEAN :
    /\ pip => cur.mode \in PipModes /\ ~fails
    /\ screen' = [pip_window_available |-> pip, video_disabled |-> fails]
    /\ window' = [k \in AllKinds |->
         IF k \notin Shows(cur.mode) THEN Closed[k]
         ELSE IF fails \/ (cur.mode \in PipModes /\ k = "local" /\ ~pip)
         THEN None ELSE frame[k]]
    /\ leaked' = (leaked \/ \E k \in Shows(cur.mode) : Closed[k] # None)
    /\ crashed' = (fails /\ cur.mode \in PipModes)
    /\ last' = IF crashed' THEN last ELSE OpenedLast
    /\ told' = IF crashed' THEN ClosedSignal
               ELSE IF fails THEN [ClosedSignal EXCEPT !.what = "error"]
               ELSE Opened

\* A mutation: the user interface is told again and again.
RedrawForgets ==
  /\ IF last.both # cur.both \/ last.ext # cur.ext
     THEN told' = Opened /\ UNCHANGED <<last, window, leaked, screen, crashed>>
     ELSE IF frame_display_change_needed THEN setup_frame_display
     ELSE UNCHANGED <<last, window, leaked, screen, told, crashed>>

\* Exactly one of these, then the frames are drawn.
redraw ==
  /\ IF last.both # cur.both \/ last.ext # cur.ext
     THEN \* update_gui_device
          /\ last' = [last EXCEPT !.both = cur.both, !.ext = cur.ext]
          /\ told' = Opened
          /\ UNCHANGED <<window, leaked, screen, crashed>>
     ELSE IF frame_display_change_needed THEN setup_frame_display
     ELSE UNCHANGED <<last, window, leaked, screen, told, crashed>>

\* display_frame and display_pip_frames: PutFrame drops a frame that is not of
\* the size of its window.  A picture in picture needs both frames.
PutFrame(w) ==
  /\ Shows(cur.mode) # {}
  /\ \A k \in Shows(cur.mode) : frame[k] # None
  /\ \E k \in Shows(cur.mode) : w[k] = frame[k]

-----------------------------------------------------------------------------
(* Main of the thread.  Its wait ends after 250 ms once it is initialised.  *)

At(p) == ~crashed /\ thread.at = p

Wakes ==
  /\ At("wait")
  /\ flags.run \/ thread.initialised
  /\ thread' = [thread EXCEPT !.at = "init"]
  /\ flags' = [flags EXCEPT !.run = FALSE]
  /\ UNCHANGED <<users, info, drawing>>

\* init resets what the manager knows of frames and of windows.
Initialises ==
  /\ At("init")
  /\ thread' = [at |-> "draw", initialised |-> thread.initialised \/ flags.init]
  /\ flags' = [flags EXCEPT !.init = FALSE]
  /\ IF flags.init
     THEN /\ cur' = [cur EXCEPT !.both = FALSE, !.ext = FALSE, !.received = {}]
          /\ frame' = Nothing
          /\ last' = [mode |-> None, ext_mode |-> None, both |-> FALSE,
                      ext |-> FALSE, size |-> Nothing]
          /\ screen' = [screen EXCEPT !.video_disabled = FALSE]
     ELSE UNCHANGED <<cur, frame, last, screen>>
  /\ UNCHANGED <<users, info, window, leaked, result, told, crashed>>

Draws ==
  /\ At("draw")
  /\ thread' = [thread EXCEPT !.at = "uninit"]
  /\ IF thread.initialised /\ cur.received # {}
     THEN /\ redraw
          /\ result' = IF screen'.video_disabled /\ ~screen.video_disabled
                       THEN "failed"
                       ELSE IF PutFrame(window') THEN "shown" ELSE "hidden"
     ELSE UNCHANGED <<last, window, leaked, screen, result, told, crashed>>
  /\ UNCHANGED <<users, info, cur, frame, flags>>

\* close_frame_display
Closes == window' = Nothing /\ told' = ClosedSignal /\ result' = "hidden"

\* The request to close, and the end of the loop, which closes as well.
Uninitialises ==
  /\ At("uninit")
  /\ thread' = [at |-> IF flags.end THEN "ended" ELSE "wait",
                initialised |-> thread.initialised /\ ~flags.uninit]
  /\ flags' = [flags EXCEPT !.uninit = FALSE]
  /\ IF flags.uninit \/ flags.end THEN Closes
     ELSE UNCHANGED <<window, told, result>>
  /\ IF flags.uninit THEN frame' = Nothing ELSE UNCHANGED frame
  /\ UNCHANGED <<users, info, cur, last, leaked, screen, crashed>>

-----------------------------------------------------------------------------
(* The user interface.                                                      *)

ChooseView(v) ==
  /\ Free /\ info.view # v
  /\ info' = [info EXCEPT !.view = v]
  /\ UNCHANGED <<users, drawing, thread, flags>>

\* The call window is drawn.
DrawCallWindow ==
  /\ Free /\ ~info.widget
  /\ info' = [info EXCEPT !.widget = TRUE]
  /\ UNCHANGED <<users, drawing, thread, flags>>

\* The window for extended video is drawn: it is shown when the device was
\* opened with such a stream.
DrawExtWindow ==
  /\ Free /\ ~info.ext /\ told.ext
  /\ info' = [info EXCEPT !.ext = TRUE]
  /\ UNCHANGED <<users, drawing, thread, flags>>

\* The destructor of the core, which every user keeps alive.
quit ==
  /\ Free /\ active = {} /\ ~preview
  /\ pending = [t \in {"opal", "preview"} |-> None]
  /\ flags' = [flags EXCEPT !.end = TRUE, !.run = TRUE]
  /\ UNCHANGED <<users, info, drawing, thread>>

Next ==
  \/ \E k \in Kinds : SetFrameData(k)
  \/ \E k \in Kinds : DestroyDisplay(k)
  \/ StartPreview
  \/ PreviewFrame
  \/ StopPreview
  \/ Returns
  \/ \E t \in {"opal", "preview"}, s \in Sizes : StoreFrame(t, s)
  \/ Wakes
  \/ Initialises
  \/ Draws
  \/ Uninitialises
  \/ \E v \in Views : ChooseView(v)
  \/ DrawCallWindow
  \/ DrawExtWindow
  \/ quit

\* A thread that has begun goes on, and timers end; the preview and a display of
\* OPAL's go on showing while they are on, and the local display is destroyed
\* once the camera has gone back to the preview; a window that is shown is drawn.
Fairness ==
  /\ WF_vars(Wakes) /\ WF_vars(Initialises) /\ WF_vars(Draws)
  /\ WF_vars(Uninitialises) /\ WF_vars(Returns)
  /\ \A t \in {"opal", "preview"} :
       WF_vars(\E s \in Sizes : StoreFrame(t, s))
  /\ SF_vars(PreviewFrame)
  /\ \A k \in AllKinds : SF_vars(k \in active /\ SetFrameData(k))
  /\ SF_vars(preview /\ "local" \in Kinds /\ DestroyDisplay("local"))
  /\ WF_vars(DrawCallWindow) /\ WF_vars(DrawExtWindow)

Spec == Init /\ [][Next]_vars /\ Fairness

-----------------------------------------------------------------------------
(* Properties                                                               *)

\* The manager is open exactly while the core has a user, so that no frame is
\* stored in a closed one and a call that ends while the preview goes on
\* leaves it open (start, stop, and the counting in opal-videooutput.cpp).
OpenWhileUsed ==
  /\ op = None => thread.initialised = (active # {} \/ preview)
  /\ \A t \in {"opal", "preview"} : pending[t] # None => thread.initialised

\* Without a user nothing is left of the pictures: no window is open, the user
\* interface was told so, and the frames are gone.
ClosedWhenUnused ==
  op = None /\ active = {} /\ ~preview =>
    window = Nothing /\ told = ClosedSignal /\ frame = Nothing

\* The manager is open exactly while the core has a user, and without a user
\* nothing is left of the pictures.
OpenAsUsed == OpenWhileUsed /\ ClosedWhenUnused

\* What last_frame keeps is right about the windows that are open: otherwise
\* frame_display_change_needed would leave a window of the wrong mode or size.
LastFrameIsRight ==
  /\ \A k \in AllKinds : window[k] # None => window[k] = last.size[k]
  /\ \A k \in {"local", "remote"} : window[k] # None => k \in Shows(last.mode)

\* Whoever waits for the thread is answered, and the thread ends when asked.
OperationsReturn ==
  /\ op # None ~> op = None \/ crashed
  /\ flags.end ~> thread.at = "ended"

\* While the users, the view and the windows stay as they are, the pictures
\* are shown again and again, whatever order the frames come in: no mode or
\* size is left that the window does not follow.
FramesAreShown ==
  <>[](active # {} \/ preview) /\ <>[][FALSE]_<<active, preview, info>>
    => []<>(result = "shown" \/ screen.video_disabled)

\* Three promises of comments that the code does not keep (in README.md):

\* The signal device_opened tells that a device is open (videooutput-manager.h:105).
OpenedIsOpen == told.what = "opened" => window # Nothing

\* The manager closes a window before it forgets it, so that its end leaves none
\* (videooutput-manager-common.h:87).
NoWindowIsLeaked == ~leaked

\* When a window cannot be opened, the last thing the user interface hears of
\* that redraw is the error (videooutput-manager.h:118).
FailureIsTold == result = "failed" => told.what = "error"
=============================================================================
