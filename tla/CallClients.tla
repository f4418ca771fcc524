---------------------------- MODULE CallClients ----------------------------
(***************************************************************************)
(* The clients of Ekiga::CallCore: the main window, the call window, the   *)
(* notification with its Accept and Reject buttons, and the call history.  *)
(* Each keeps an idea of its own of which call is on, built from nothing   *)
(* but the signals; CallSignals says which signals they may see, and       *)
(* OpalCall implements it.  A signal runs the handlers of all the clients  *)
(* in the main thread, so it is one action.                                *)
(*                                                                         *)
(* What the user does to a call (answer, hang_up) comes back as signals,   *)
(* so only the effect on the clients is here.                              *)
(***************************************************************************)
EXTENDS Naturals, Sequences

CONSTANTS
  Calls,          \* the calls of a run
  None,           \* an empty current_call, or no timeout_id
  HistoryLimit,   \* how many entries the history keeps (the code has 100)
  MaxEntries      \* a bound: how often one sound is started before its stop

ASSUME ClientsAssumption ==
  /\ None \notin Calls
  /\ HistoryLimit \in Nat \ {0} /\ MaxEntries \in Nat \ {0}

VARIABLES
  told, outgoing,             \* CallSignals
  mw_call, mw_state, sounds,  \* the main window: current_call, calling_state,
                              \* and how often its sounds are still started
  cw_call, cw_state,          \* the call window: current_call, calling_state,
  timeout_id, timers,         \* the timer it knows, the timers that run
  notified,                   \* the calls with an open notification
  history,                    \* History::Book::ordered_contacts
  ended                       \* the calls that ended since it was last empty,
                              \* for the properties: no part of the code

Signals == INSTANCE CallSignals

signalVars  == <<told, outgoing>>
mainVars    == <<mw_call, mw_state, sounds>>
windowVars  == <<cw_call, cw_state, timeout_id, timers>>
historyVars == <<history, ended>>
vars == <<told, outgoing, mw_call, mw_state, sounds, cw_call, cw_state,
          timeout_id, timers, notified, history, ended>>

CallingStates == {"Standby", "Calling", "Ringing", "Connected", "Called"}
Sounds        == {"incoming_call_sound", "ring_tone_sound"}
CallTypes     == {"RECEIVED", "PLACED", "MISSED"}

TypeOK ==
  /\ told \in [Calls -> Signals!Told] /\ outgoing \in [Calls -> BOOLEAN]
  /\ mw_call \in Calls \cup {None} /\ mw_state \in CallingStates
  /\ sounds \in [Sounds -> 0 .. MaxEntries]
  /\ cw_call \in Calls \cup {None} /\ cw_state \in CallingStates
  /\ timeout_id \in Calls \cup {None} /\ timers \subseteq Calls
  /\ notified \subseteq Calls
  /\ history \in Seq([call : Calls, type : CallTypes])
  /\ Len(history) <= HistoryLimit
  /\ ended \in Seq(Calls)

Init ==
  /\ Signals!Init
  /\ mw_call = None /\ mw_state = "Standby"
  /\ sounds = [s \in Sounds |-> 0]
  /\ cw_call = None /\ cw_state = "Standby"
  /\ timeout_id = None /\ timers = {}
  /\ notified = {}
  /\ history = <<>> /\ ended = <<>>

-----------------------------------------------------------------------------
(* The main window *)

(* An incoming call the user has to answer; `auto` is get_auto_answer (). *)
AsksTheUser(c, auto) == ~outgoing'[c] /\ ~auto

(* Each start is one more entry in the list of the sound scheduler, which *)
(* repeats it 256 times...                                                 *)
start_play_event(s) == sounds' = [sounds EXCEPT ![s] = @ + 1]

(* ...and each stop, of both sounds, takes one entry of each away. *)
StopSounds ==
  sounds' = [s \in Sounds |-> IF sounds[s] > 0 THEN sounds[s] - 1 ELSE 0]

main_setup(c, auto) ==
  \/ /\ AsksTheUser(c, auto) /\ mw_call # None
     /\ UNCHANGED mainVars
  \/ /\ AsksTheUser(c, auto) /\ mw_call = None
     /\ start_play_event("incoming_call_sound")
     /\ mw_call' = c /\ mw_state' = "Called"
  \/ /\ ~AsksTheUser(c, auto)
     /\ mw_call' = c /\ mw_state' = "Calling"
     /\ UNCHANGED sounds

main_ringing(c) ==
  /\ IF outgoing[c] THEN start_play_event("ring_tone_sound")
                    ELSE UNCHANGED sounds
  /\ UNCHANGED <<mw_call, mw_state>>

(* current_call stays what it is, even if it is another call. *)
main_established ==
  /\ mw_state' = "Connected"
  /\ StopSounds
  /\ UNCHANGED mw_call

(* A mutation: the sounds go on when the call ends. *)
MainStandbyLoud == mw_call' = None /\ mw_state' = "Standby" /\ UNCHANGED sounds

MainStandby == mw_call' = None /\ mw_state' = "Standby" /\ StopSounds

main_cleared(c) ==
  IF mw_call \notin {None, c} THEN UNCHANGED mainVars ELSE MainStandby

(* A mutation: a missed call is shown, and nothing else. *)
main_missed_ignored(c) == UNCHANGED mainVars

main_missed(c) == IF mw_call = c THEN MainStandby ELSE UNCHANGED mainVars

-----------------------------------------------------------------------------
(* The call window *)

window_setup(c, auto) ==
  \/ /\ AsksTheUser(c, auto) /\ cw_call # None
     /\ UNCHANGED windowVars
  \/ /\ AsksTheUser(c, auto) => cw_call = None
     /\ cw_call' = c
     /\ cw_state' = IF AsksTheUser(c, auto) THEN "Called" ELSE "Calling"
     /\ UNCHANGED <<timeout_id, timers>>

window_ringing ==
  /\ cw_state' = "Ringing"
  /\ UNCHANGED <<cw_call, timeout_id, timers>>

(* A mutation: the window keeps its current_call, as the main window does. *)
window_established_keeps(c) ==
  /\ cw_state' = "Connected"
  /\ timeout_id' = c /\ timers' = timers \cup {c}
  /\ UNCHANGED cw_call

(* A call is established once, so the call names the timer that it starts; *)
(* a timer that runs already is forgotten.                                 *)
window_established(c) ==
  /\ cw_state' = "Connected"
  /\ cw_call' = c
  /\ timeout_id' = c /\ timers' = timers \cup {c}

window_cleared(c) ==
  \/ cw_call \notin {None, c} /\ UNCHANGED windowVars
  \/ /\ cw_call = None
     /\ cw_state' = "Standby"
     /\ UNCHANGED <<cw_call, timeout_id, timers>>
  \/ /\ cw_call = c
     /\ cw_state' = "Standby"
     /\ cw_call' = None
     /\ timers' = timers \ {timeout_id} /\ timeout_id' = None

(* Back to standby, but current_call is kept. *)
window_missed(c) ==
  /\ cw_state' = IF cw_call \in {None, c} THEN "Standby" ELSE cw_state
  /\ UNCHANGED <<cw_call, timeout_id, timers>>

-----------------------------------------------------------------------------
(* The notification and the history *)

notify(c, auto) ==
  notified' = IF AsksTheUser(c, auto) THEN notified \cup {c} ELSE notified

(* A mutation: the notification goes away when the call is answered only. *)
close_answered(c) ==
  notified' = IF told'[c] = "established" THEN notified \ {c} ELSE notified

close_notification(c) == notified' = notified \ {c}

(* A mutation: the newest entries go. *)
enforce_from_the_back(entries) ==
  IF Len(entries) > HistoryLimit THEN SubSeq(entries, 1, HistoryLimit)
    ELSE entries

(* The oldest entries go. *)
enforce_size_limit(entries) ==
  IF Len(entries) > HistoryLimit
    THEN SubSeq(entries, Len(entries) - HistoryLimit + 1, Len(entries))
    ELSE entries

(* The calls of the model have a remote URI: others are not recorded. *)
add(c, type) ==
  /\ history' = enforce_size_limit(Append(history, [call |-> c, type |-> type]))
  /\ ended' = Append(ended, c)

EndType(c, signal) ==
  IF signal = "missed" THEN "MISSED"
    ELSE IF outgoing[c] THEN "PLACED" ELSE "RECEIVED"

-----------------------------------------------------------------------------
(* The signals, and what they do to all the clients *)

on_setup_call(c) ==
  /\ Signals!Setup(c)
  /\ \E auto \in BOOLEAN :
       main_setup(c, auto) /\ window_setup(c, auto) /\ notify(c, auto)
  /\ UNCHANGED historyVars

on_ringing_call(c) ==
  /\ Signals!Ringing(c) /\ sounds["ring_tone_sound"] < MaxEntries
  /\ main_ringing(c) /\ window_ringing
  /\ UNCHANGED <<notified, historyVars>>

on_established_call(c) ==
  /\ Signals!Established(c)
  /\ main_established /\ window_established(c) /\ close_notification(c)
  /\ UNCHANGED historyVars

(* The call window shows whether the call is on hold. *)
on_held_or_retrieved_call(c) ==
  /\ Signals!Held(c) \/ Signals!Retrieved(c)
  /\ UNCHANGED <<mainVars, windowVars, notified, historyVars>>

on_cleared_call(c) ==
  /\ Signals!Cleared(c)
  /\ main_cleared(c) /\ window_cleared(c) /\ close_notification(c)
  /\ add(c, EndType(c, "cleared"))

on_missed_call(c) ==
  /\ Signals!Missed(c)
  /\ main_missed(c) /\ window_missed(c) /\ close_notification(c)
  /\ add(c, EndType(c, "missed"))

(* The user presses Accept or Reject. *)
call_notification_action(c) ==
  /\ c \in notified
  /\ close_notification(c)
  /\ UNCHANGED <<signalVars, mainVars, windowVars, historyVars>>

(* The user clears the history. *)
clear ==
  /\ history # <<>>
  /\ history' = <<>> /\ ended' = <<>>
  /\ UNCHANGED <<signalVars, mainVars, windowVars, notified>>

Next ==
  \/ clear
  \/ \E c \in Calls :
       \/ on_setup_call(c) \/ on_ringing_call(c) \/ on_established_call(c)
       \/ on_held_or_retrieved_call(c)
       \/ on_cleared_call(c) \/ on_missed_call(c)
       \/ call_notification_action(c)

Spec == Init /\ [][Next]_vars

-----------------------------------------------------------------------------
(* Properties *)

IsLive(c) == told[c] \in Signals!Live

(* The main window sends DTMF to a call that is still on: its current_call *)
(* is dropped before the call can be deleted, whatever other calls come,   *)
(* go or are missed in between.                                            *)
MainWindowCallIsLive == mw_call # None => IsLive(mw_call)

(* When no call is on, the main window is in standby and can dial again.    *)
(* At any time it has at most one entry for the sound of an incoming call   *)
(* (256 repetitions) in the scheduler's list, and none without a current    *)
(* call, so that the one stop at the end of that call ends the sound, even  *)
(* if another call became the current one since.  The ring tone of an       *)
(* outgoing call is not so: see StoppedSoundIsOver.                         *)
MainWindowRests ==
  /\ (\A c \in Calls : ~IsLive(c)) => mw_call = None /\ mw_state = "Standby"
  /\ sounds["incoming_call_sound"] <= (IF mw_call = None THEN 0 ELSE 1)

(* audiooutput-core.h:224, of stop_play_event: "Stop playing sound         *)
(* associated to the event specified by its name".  Not kept: a sound that *)
(* was started twice is stopped once.                                      *)
StoppedSoundIsOver ==
  (\A c \in Calls : ~IsLive(c)) => sounds["ring_tone_sound"] = 0

(* While the call window says Connected, its current_call is established,  *)
(* and the timer that refreshes its statistics is the one it will stop.    *)
(* The timers of calls that were established before it are not spoken of.  *)
ConnectedWindowHasItsCall ==
  cw_state = "Connected" =>
    /\ cw_call # None /\ told[cw_call] \in {"established", "held"}
    /\ timeout_id = cw_call /\ timeout_id \in timers

(* The timer that runs is the one that the window knows and will stop.  Not *)
(* kept: a second established call overwrites timeout_id (call-window.cpp:  *)
(* 1150), and the timer of the first goes on for ever.                      *)
NoTimerIsForgotten == timers \subseteq {timeout_id}

(* Accept and Reject act on an incoming call that still waits for it: the  *)
(* notification is closed before the call is over.                         *)
NotificationsAreCurrent ==
  \A c \in notified : told[c] = "setup" /\ ~outgoing[c]

(* The history records a call at most once, when it is over, and by how it *)
(* ended; and it has the latest calls that ended since it was last empty,  *)
(* in that order, as many as its limit allows.                             *)
HistoryIsRight ==
  /\ \A i \in DOMAIN history :
       LET e == history[i] IN
       /\ told[e.call] \in Signals!Over
       /\ e.type = "MISSED" <=> told[e.call] = "missed"
       /\ e.type = "PLACED" => outgoing[e.call]
       /\ e.type = "RECEIVED" => ~outgoing[e.call]
  /\ \A i, j \in DOMAIN history : i # j => history[i].call # history[j].call
  /\ Len(history) = IF Len(ended) < HistoryLimit THEN Len(ended)
                                                 ELSE HistoryLimit
  /\ \A i \in DOMAIN history :
       history[i].call = ended[Len(ended) - Len(history) + i]

(* call-window.cpp:1101: "No call setup needed if already in a call": an   *)
(* incoming call is skipped only while the window's current call is on.    *)
(* Not kept: on_missed_call_cb leaves a missed call the current one.       *)
SkipsOnlyDuringACall == cw_call # None => IsLive(cw_call)
=============================================================================
