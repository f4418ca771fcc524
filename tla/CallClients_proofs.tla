------------------------- MODULE CallClients_proofs -------------------------
(***************************************************************************)
(* Theorems about CallClients, for any set of calls and any limit of the   *)
(* history.  The main window forgets a call in favour of another one, so   *)
(* that it is at rest when no call is on needs to be told why it is not at *)
(* rest: IInv names the call that each of its states and sounds waits for. *)
(***************************************************************************)
EXTENDS CallClients, TLAPS

(* The main window is not at rest because of a call that will clear it. *)
Waits ==
  /\ mw_state # "Standby" =>
       mw_call # None \/ \E c \in Calls : told[c] \in {"established", "held"}
  /\ sounds["incoming_call_sound"] <= (IF mw_call = None THEN 0 ELSE 1)

IInv == /\ TypeOK
        /\ MainWindowCallIsLive
        /\ Waits
        /\ ConnectedWindowHasItsCall
        /\ NotificationsAreCurrent
        /\ HistoryIsRight

-----------------------------------------------------------------------------
(* What a signal does to `told`. *)
LEMMA ToldStep ==
  ASSUME TypeOK, NEW c \in Calls
  PROVE  /\ Signals!Setup(c) =>
              /\ told[c] = "nothing" /\ told' = [told EXCEPT ![c] = "setup"]
              /\ outgoing' \in [Calls -> BOOLEAN]
              /\ \A d \in Calls \ {c} : outgoing'[d] = outgoing[d]
         /\ \A before, signal :
              Signals!Tell(c, before, signal) =>
                /\ told[c] \in before /\ told' = [told EXCEPT ![c] = signal]
                /\ outgoing' = outgoing
BY DEF TypeOK, Signals!Setup, Signals!Tell

LEMMA LimitFacts ==
  ASSUME NEW S, NEW s \in Seq(S)
  PROVE  LET t == enforce_size_limit(s) IN
         /\ t \in Seq(S)
         /\ Len(t) = (IF Len(s) < HistoryLimit THEN Len(s) ELSE HistoryLimit)
         /\ \E k \in Nat : /\ k + Len(t) = Len(s)
                           /\ \A i \in DOMAIN t : t[i] = s[i + k]
<1>0. HistoryLimit \in Nat \ {0}
  BY ClientsAssumption
<1>1. CASE Len(s) > HistoryLimit
  <2> DEFINE k == Len(s) - HistoryLimit
  <2>1. enforce_size_limit(s) = SubSeq(s, k + 1, Len(s))
    BY <1>1 DEF enforce_size_limit
  <2>2. k \in Nat /\ k + 1 \in 1 .. Len(s)
    BY <1>0, <1>1
  <2>3. /\ SubSeq(s, k + 1, Len(s)) \in Seq(S)
        /\ Len(SubSeq(s, k + 1, Len(s))) = HistoryLimit
        /\ \A i \in 1 .. HistoryLimit : SubSeq(s, k + 1, Len(s))[i] = s[i + k]
    BY <1>0, <2>2
  <2> DEFINE t == enforce_size_limit(s)
  <2>4. /\ t \in Seq(S) /\ Len(t) = HistoryLimit /\ DOMAIN t = 1 .. HistoryLimit
        /\ \A i \in 1 .. HistoryLimit : t[i] = s[i + k]
    BY <2>1, <2>3
  <2>5. k + HistoryLimit = Len(s) /\ ~(Len(s) < HistoryLimit)
    BY <1>0, <1>1, <2>2
  <2> HIDE DEF k, t
  <2>6. /\ Len(t) = (IF Len(s) < HistoryLimit THEN Len(s) ELSE HistoryLimit)
        /\ k + Len(t) = Len(s)
    BY <2>4, <2>5
  <2> QED
    BY <2>2, <2>4, <2>6 DEF t
<1>2. CASE Len(s) <= HistoryLimit
  <2>1. enforce_size_limit(s) = s
    BY <1>0, <1>2 DEF enforce_size_limit
  <2>2. /\ 0 \in Nat /\ 0 + Len(s) = Len(s)
        /\ \A i \in DOMAIN s : i + 0 = i
        /\ Len(s) = (IF Len(s) < HistoryLimit THEN Len(s) ELSE HistoryLimit)
    BY <1>0, <1>2
  <2> QED
    BY <1>2, <2>1, <2>2
<1>3. Len(s) > HistoryLimit \/ Len(s) <= HistoryLimit
  BY <1>0
<1> QED
  BY <1>1, <1>2, <1>3

(* How the entry that a signal adds is typed, and what the others become. *)
LEMMA HistoryAfterAdd ==
  ASSUME TypeOK, HistoryIsRight, NEW c \in Calls,
         NEW signal \in Signals!Over,
         signal = "missed" => ~outgoing[c],
         Signals!Tell(c, Signals!Live, signal),
         add(c, EndType(c, signal))
  PROVE  /\ history' \in Seq([call : Calls, type : CallTypes])
         /\ Len(history') <= HistoryLimit
         /\ ended' \in Seq(Calls)
         /\ HistoryIsRight'
<1> DEFINE e == [call |-> c, type |-> EndType(c, signal)]
           s == Append(history, e)
           Entries == [call : Calls, type : CallTypes]
<1>1. /\ told[c] \in Signals!Live
      /\ told' = [told EXCEPT ![c] = signal] /\ outgoing' = outgoing
  BY ToldStep
<1>2. /\ e \in Entries
      /\ e.type = "MISSED" <=> signal = "missed"
      /\ e.type = "PLACED" => outgoing[c]
      /\ e.type = "RECEIVED" => ~outgoing[c]
  BY DEF EndType, CallTypes
<1>3. /\ s \in Seq(Entries) /\ Len(s) = Len(history) + 1
      /\ DOMAIN s = 1 .. Len(history) + 1 /\ Len(history) \in Nat
      /\ \A i \in 1 .. Len(history) : s[i] = history[i]
      /\ s[Len(history) + 1] = e
      /\ DOMAIN history = 1 .. Len(history)
  BY <1>2 DEF TypeOK
<1>4. history' = enforce_size_limit(s) /\ ended' = Append(ended, c)
  BY DEF add
<1> HIDE DEF s
<1>5. /\ history' \in Seq(Entries)
      /\ Len(history') = (IF Len(s) < HistoryLimit THEN Len(s) ELSE HistoryLimit)
      /\ \E k \in Nat : /\ k + Len(history') = Len(s)
                        /\ \A i \in DOMAIN history' : history'[i] = s[i + k]
  <2>1. /\ enforce_size_limit(s) \in Seq(Entries)
        /\ Len(enforce_size_limit(s)) =
             (IF Len(s) < HistoryLimit THEN Len(s) ELSE HistoryLimit)
        /\ \E k \in Nat : /\ k + Len(enforce_size_limit(s)) = Len(s)
                          /\ \A i \in DOMAIN enforce_size_limit(s) :
                               enforce_size_limit(s)[i] = s[i + k]
    <3> HIDE DEF Entries
    <3> QED
      BY <1>3, LimitFacts
  <2> QED
    BY <1>4, <2>1
<1>6. \A i \in DOMAIN history : history[i].call \in Calls \ {c}
  <2>1. \A i \in DOMAIN history : history[i].call \in Calls
    <3>1. \A i \in DOMAIN history : history[i] \in Entries
      <4> HIDE DEF Entries
      <4>1. history \in Seq(Entries)
        BY DEF TypeOK, Entries
      <4> QED
        BY <4>1
    <3> QED
      BY <3>1
  <2>2. \A i \in DOMAIN history : told[history[i].call] \in Signals!Over
    BY DEF HistoryIsRight
  <2> QED
    BY <2>1, <2>2, <1>1 DEF Signals!Over, Signals!Live
<1>7. \A i \in DOMAIN s :
        /\ told'[s[i].call] \in Signals!Over
        /\ s[i].type = "MISSED" <=> told'[s[i].call] = "missed"
        /\ s[i].type = "PLACED" => outgoing[s[i].call]
        /\ s[i].type = "RECEIVED" => ~outgoing[s[i].call]
  <2> SUFFICES ASSUME NEW i \in DOMAIN s
               PROVE  /\ told'[s[i].call] \in Signals!Over
                      /\ s[i].type = "MISSED" <=> told'[s[i].call] = "missed"
                      /\ s[i].type = "PLACED" => outgoing[s[i].call]
                      /\ s[i].type = "RECEIVED" => ~outgoing[s[i].call]
    OBVIOUS
  <2>1. CASE i = Len(history) + 1
    <3>1. s[i].call = c /\ s[i].type = e.type /\ told'[c] = signal
      BY <2>1, <1>1, <1>3 DEF TypeOK
    <3> QED
      BY <3>1, <1>2
  <2>2. CASE i \in DOMAIN history
    <3>1. s[i] = history[i] /\ told'[history[i].call] = told[history[i].call]
      BY <2>2, <1>1, <1>3, <1>6 DEF TypeOK
    <3> QED
      BY <2>2, <3>1 DEF HistoryIsRight
  <2> QED
    BY <2>1, <2>2, <1>3
<1>8. \A i, j \in DOMAIN s : i # j => s[i].call # s[j].call
  BY <1>3, <1>6 DEF HistoryIsRight
<1>9. /\ ended \in Seq(Calls) /\ ended' \in Seq(Calls)
      /\ Len(ended) \in Nat /\ Len(ended') = Len(ended) + 1
      /\ \A i \in 1 .. Len(ended) : ended'[i] = ended[i]
      /\ ended'[Len(ended) + 1] = c
  BY <1>4 DEF TypeOK
<1>10. /\ Len(history') = (IF Len(ended') < HistoryLimit THEN Len(ended')
                                                       ELSE HistoryLimit)
       /\ Len(history') <= HistoryLimit
       /\ Len(history) <= Len(ended)
  <2>1. Len(history) = (IF Len(ended) < HistoryLimit THEN Len(ended)
                                                     ELSE HistoryLimit)
    BY DEF HistoryIsRight
  <2> QED
    BY <2>1, <1>3, <1>5, <1>9, ClientsAssumption
<1>11. \A i \in DOMAIN s : s[i].call = ended'[Len(ended) - Len(history) + i]
  <2> SUFFICES ASSUME NEW i \in DOMAIN s
               PROVE  s[i].call = ended'[Len(ended) - Len(history) + i]
    OBVIOUS
  <2>1. CASE i = Len(history) + 1
    <3>1. Len(ended) - Len(history) + i = Len(ended) + 1
      BY <2>1, <1>3, <1>9
    <3> QED
      BY <2>1, <3>1, <1>3, <1>9
  <2>2. CASE i \in DOMAIN history
    <3>1. Len(ended) - Len(history) + i \in 1 .. Len(ended)
      BY <2>2, <1>3, <1>9, <1>10
    <3>2. s[i].call = ended[Len(ended) - Len(history) + i]
      BY <2>2, <1>3 DEF HistoryIsRight
    <3> QED
      BY <3>1, <3>2, <1>9
  <2> QED
    BY <2>1, <2>2, <1>3
<1>12. HistoryIsRight'
  <2>1. PICK k \in Nat : /\ k + Len(history') = Len(s)
                         /\ \A i \in DOMAIN history' : history'[i] = s[i + k]
    BY <1>5
  <2>2. DOMAIN history' = 1 .. Len(history') /\ Len(history') \in Nat
    BY <1>5
  <2>3. \A i \in DOMAIN history' : i + k \in DOMAIN s
    BY <2>1, <2>2, <1>3
  <2>4. \A i, j \in DOMAIN history' : i # j => i + k # j + k
    BY <2>2
  <2>5. \A i \in DOMAIN history' :
          history'[i].call = ended'[Len(ended') - Len(history') + i]
    <3> SUFFICES ASSUME NEW i \in DOMAIN history'
                 PROVE  history'[i].call = ended'[Len(ended') - Len(history') + i]
      OBVIOUS
    <3>1. i \in Nat /\ Len(history') \in Nat
      BY <2>2
    <3>2. Len(ended') - Len(history') + i = Len(ended) - Len(history) + (i + k)
      <4>1. k + Len(history') = Len(history) + 1 /\ Len(ended') = Len(ended) + 1
        BY <2>1, <1>3, <1>9
      <4>2. \A l, h, n \in Nat :
              k + n = h + 1 => (l + 1) - n + i = l - h + (i + k)
        BY <3>1
      <4>3. Len(ended) \in Nat /\ Len(history) \in Nat
        BY <1>3, <1>9
      <4>4. (Len(ended) + 1) - Len(history') + i = Len(ended) - Len(history) + (i + k)
        BY <4>1, <4>2, <4>3, <3>1, Zenon
      <4> QED
        BY <4>1, <4>4, Zenon
    <3>3. history'[i].call = ended'[Len(ended) - Len(history) + (i + k)]
      BY <2>1, <2>3, <1>11
    <3> QED
      BY <3>2, <3>3
  <2> QED
    BY <1>1, <1>7, <1>8, <1>10, <2>1, <2>3, <2>4, <2>5 DEF HistoryIsRight
<1> QED
  BY <1>5, <1>9, <1>10, <1>12

LEMMA HistoryKept ==
  ASSUME TypeOK, HistoryIsRight, UNCHANGED historyVars,
         \A c \in Calls : told[c] \in Signals!Over =>
                           told'[c] = told[c] /\ outgoing'[c] = outgoing[c]
  PROVE  HistoryIsRight'
<1> DEFINE Entries == [call : Calls, type : CallTypes]
<1>1. \A i \in DOMAIN history : history[i].call \in Calls
  <2>1. \A i \in DOMAIN history : history[i] \in Entries
    <3> HIDE DEF Entries
    <3>1. history \in Seq(Entries)
      BY DEF TypeOK, Entries
    <3> QED
      BY <3>1
  <2> QED
    BY <2>1
<1> QED
  BY <1>1 DEF HistoryIsRight, historyVars

(* The clients other than the history, for each signal. *)
Rest == /\ told' \in [Calls -> Signals!Told] /\ outgoing' \in [Calls -> BOOLEAN]
        /\ mw_call' \in Calls \cup {None} /\ mw_state' \in CallingStates
        /\ sounds' \in [Sounds -> 0 .. MaxEntries]
        /\ cw_call' \in Calls \cup {None} /\ cw_state' \in CallingStates
        /\ timeout_id' \in Calls \cup {None} /\ timers' \subseteq Calls
        /\ notified' \subseteq Calls
        /\ MainWindowCallIsLive' /\ Waits'
        /\ ConnectedWindowHasItsCall' /\ NotificationsAreCurrent'

LEMMA SetupStep ==
  ASSUME IInv, NEW c \in Calls, on_setup_call(c)
  PROVE  IInv'
<1>1. /\ TypeOK /\ MainWindowCallIsLive /\ Waits /\ HistoryIsRight
      /\ ConnectedWindowHasItsCall /\ NotificationsAreCurrent
  BY DEF IInv
<1>2. /\ told[c] = "nothing" /\ told' = [told EXCEPT ![c] = "setup"]
      /\ outgoing' \in [Calls -> BOOLEAN]
      /\ \A d \in Calls \ {c} : outgoing'[d] = outgoing[d]
  BY <1>1, ToldStep DEF on_setup_call
<1>3. PICK auto \in BOOLEAN :
        main_setup(c, auto) /\ window_setup(c, auto) /\ notify(c, auto)
  BY DEF on_setup_call
<1>4. HistoryIsRight'
  BY <1>1, <1>2, HistoryKept DEF on_setup_call, Signals!Over, TypeOK
<1>5. UNCHANGED <<history, ended>>
  BY DEF on_setup_call, historyVars
<1>6. Rest
  <2> USE <1>1, <1>2, <1>3, ClientsAssumption DEF TypeOK, MainWindowCallIsLive, Waits,
        ConnectedWindowHasItsCall, NotificationsAreCurrent, IsLive, CallingStates,
        Sounds, Signals!Told, Signals!Live, Signals!Over
  <2>1. /\ mw_call' \in Calls \cup {None} /\ mw_state' \in CallingStates
        /\ sounds' \in [Sounds -> 0 .. MaxEntries]
        /\ sounds'["incoming_call_sound"] <= 1
    <3>1. CASE UNCHANGED sounds
      BY <3>1 DEF main_setup, mainVars
    <3>2. CASE mw_call = None /\ start_play_event("incoming_call_sound")
               /\ mw_call' = c /\ mw_state' = "Called"
      <4>1. sounds["incoming_call_sound"] = 0
        BY <3>2
      <4>2. sounds' = [sounds EXCEPT !["incoming_call_sound"] = 1]
        BY <3>2, <4>1 DEF start_play_event
      <4> QED
        BY <3>2, <4>2
    <3> QED
      BY <3>1, <3>2 DEF main_setup, mainVars
  <2>2. mw_call' # None /\ (mw_call' = c \/ (mw_call' = mw_call /\ mw_call # c))
    BY DEF main_setup, start_play_event, mainVars
  <2>3. MainWindowCallIsLive' /\ Waits'
    BY <2>1, <2>2
  <2>4. /\ cw_call' \in Calls \cup {None} /\ cw_state' \in CallingStates
        /\ timeout_id' \in Calls \cup {None} /\ timers' \subseteq Calls
        /\ ConnectedWindowHasItsCall'
    BY DEF window_setup, windowVars
  <2>5. notified' \subseteq Calls /\ NotificationsAreCurrent'
    BY DEF notify, AsksTheUser
  <2>6. told' \in [Calls -> Signals!Told]
    OBVIOUS
  <2> QED
    BY <2>1, <2>3, <2>4, <2>5, <2>6 DEF Rest
<1> QED
  BY <1>1, <1>4, <1>5, <1>6 DEF IInv, Rest, TypeOK

LEMMA MiddleStep ==
  ASSUME IInv, NEW c \in Calls,
         \/ on_ringing_call(c) \/ on_established_call(c)
         \/ on_held_or_retrieved_call(c)
  PROVE  IInv'
<1>1. /\ TypeOK /\ MainWindowCallIsLive /\ Waits /\ HistoryIsRight
      /\ ConnectedWindowHasItsCall /\ NotificationsAreCurrent
  BY DEF IInv
<1>2. /\ \/ told[c] \in {"setup", "ringing"} /\ outgoing[c]
            /\ told' = [told EXCEPT ![c] = "ringing"]
            /\ main_ringing(c) /\ window_ringing /\ UNCHANGED notified
            /\ sounds["ring_tone_sound"] < MaxEntries
         \/ told[c] \in {"setup", "ringing"}
            /\ told' = [told EXCEPT ![c] = "established"]
            /\ main_established /\ window_established(c) /\ close_notification(c)
         \/ told[c] \in {"established", "held"}
            /\ told' \in {[told EXCEPT ![c] = "held"],
                          [told EXCEPT ![c] = "established"]}
            /\ UNCHANGED <<mainVars, windowVars, notified>>
      /\ UNCHANGED <<outgoing, history, ended>>
  BY <1>1, ToldStep DEF historyVars, on_ringing_call, on_established_call,
     on_held_or_retrieved_call, Signals!Ringing, Signals!Established,
     Signals!Held, Signals!Retrieved
<1>3. HistoryIsRight'
  <2>1. \A d \in Calls : told[d] \in Signals!Over => told'[d] = told[d]
    BY <1>1, <1>2 DEF Signals!Over, TypeOK
  <2> QED
    BY <1>1, <1>2, <2>1, HistoryKept DEF historyVars
<1>4. Rest
  <2> USE <1>1, <1>2, ClientsAssumption DEF TypeOK, MainWindowCallIsLive, Waits,
        ConnectedWindowHasItsCall, NotificationsAreCurrent, IsLive, CallingStates,
        Sounds, Signals!Told, Signals!Live, Signals!Over
  <2>1. /\ mw_call' \in Calls \cup {None} /\ mw_state' \in CallingStates
        /\ sounds' \in [Sounds -> 0 .. MaxEntries]
        /\ sounds'["incoming_call_sound"] <= sounds["incoming_call_sound"]
    <3>1. CASE main_ringing(c) /\ sounds["ring_tone_sound"] < MaxEntries
      BY <3>1 DEF main_ringing, start_play_event
    <3>2. CASE main_established
      BY <3>2 DEF main_established, StopSounds
    <3>3. CASE UNCHANGED mainVars
      BY <3>3 DEF mainVars
    <3> QED
      BY <3>1, <3>2, <3>3
  <2>2. MainWindowCallIsLive'
    BY DEF main_ringing, main_established, mainVars
  <2>3. Waits'
    <3>0. sounds'["incoming_call_sound"] <= (IF mw_call' = None THEN 0 ELSE 1)
      BY <2>1 DEF main_ringing, main_established, mainVars
    <3>1. CASE told'[c] = "ringing"
      BY <3>0, <3>1 DEF main_ringing, main_established, mainVars
    <3>2. CASE told'[c] \in {"established", "held"}
      BY <3>0, <3>2 DEF main_ringing, main_established, mainVars
    <3> QED
      BY <3>1, <3>2
  <2>4. /\ cw_call' \in Calls \cup {None} /\ cw_state' \in CallingStates
        /\ timeout_id' \in Calls \cup {None} /\ timers' \subseteq Calls
        /\ ConnectedWindowHasItsCall'
    BY DEF window_ringing, window_established, windowVars
  <2>5. notified' \subseteq Calls /\ NotificationsAreCurrent'
    BY DEF close_notification
  <2>6. told' \in [Calls -> Signals!Told] /\ outgoing' \in [Calls -> BOOLEAN]
    OBVIOUS
  <2> QED
    BY <2>1, <2>2, <2>3, <2>4, <2>5, <2>6 DEF Rest
<1> QED
  BY <1>1, <1>2, <1>3, <1>4 DEF IInv, Rest, TypeOK

LEMMA EndStep ==
  ASSUME IInv, NEW c \in Calls, on_cleared_call(c) \/ on_missed_call(c)
  PROVE  IInv'
<1>1. /\ TypeOK /\ MainWindowCallIsLive /\ Waits /\ HistoryIsRight
      /\ ConnectedWindowHasItsCall /\ NotificationsAreCurrent
  BY DEF IInv
<1>2. PICK signal \in Signals!Over :
        /\ signal = "missed" => ~outgoing[c] /\ told[c] = "setup"
        /\ Signals!Tell(c, Signals!Live, signal)
        /\ add(c, EndType(c, signal))
        /\ \/ signal = "cleared" /\ main_cleared(c) /\ window_cleared(c)
           \/ signal = "missed" /\ main_missed(c) /\ window_missed(c)
        /\ close_notification(c)
  BY DEF on_cleared_call, on_missed_call, Signals!Cleared, Signals!Missed,
     Signals!Tell, Signals!Over, Signals!Live
<1>3. /\ told[c] \in Signals!Live
      /\ told' = [told EXCEPT ![c] = signal] /\ outgoing' = outgoing
  BY <1>1, <1>2, ToldStep
<1>4. /\ history' \in Seq([call : Calls, type : CallTypes])
      /\ Len(history') <= HistoryLimit
      /\ ended' \in Seq(Calls)
      /\ HistoryIsRight'
  BY <1>1, <1>2, HistoryAfterAdd
<1>5. Rest
  <2> USE <1>1, <1>2, <1>3, ClientsAssumption DEF TypeOK, MainWindowCallIsLive, Waits,
        ConnectedWindowHasItsCall, NotificationsAreCurrent, IsLive, CallingStates,
        Sounds, Signals!Told, Signals!Live, Signals!Over
  <2>1. /\ mw_call' \in Calls \cup {None} /\ mw_state' \in CallingStates
        /\ sounds' \in [Sounds -> 0 .. MaxEntries]
        /\ MainWindowCallIsLive' /\ Waits'
    BY DEF main_cleared, main_missed, MainStandby, StopSounds, mainVars
  <2>2. /\ cw_call' \in Calls \cup {None} /\ cw_state' \in CallingStates
        /\ timeout_id' \in Calls \cup {None} /\ timers' \subseteq Calls
        /\ ConnectedWindowHasItsCall'
    BY DEF window_cleared, window_missed, windowVars
  <2>3. notified' \subseteq Calls /\ NotificationsAreCurrent'
    BY DEF close_notification
  <2>4. told' \in [Calls -> Signals!Told] /\ outgoing' \in [Calls -> BOOLEAN]
    OBVIOUS
  <2> QED
    BY <2>1, <2>2, <2>3, <2>4 DEF Rest
<1> QED
  BY <1>1, <1>4, <1>5 DEF IInv, Rest, TypeOK
-----------------------------------------------------------------------------
(* The theorems *)

LEMMA InitIInv == Init => IInv
BY ClientsAssumption
DEF Init, IInv, TypeOK, MainWindowCallIsLive, Waits, ConnectedWindowHasItsCall,
    NotificationsAreCurrent, HistoryIsRight, CallingStates, Sounds,
    Signals!Init, Signals!Told

LEMMA InvariantStep == IInv /\ [Next]_vars => IInv'
<1> SUFFICES ASSUME IInv, [Next]_vars PROVE IInv'
  OBVIOUS
<1>1. CASE clear
  BY <1>1, ClientsAssumption
  DEF clear, IInv, TypeOK, MainWindowCallIsLive, Waits, HistoryIsRight,
      ConnectedWindowHasItsCall, NotificationsAreCurrent, IsLive, signalVars,
      mainVars, windowVars
<1>2. ASSUME NEW c \in Calls, call_notification_action(c) PROVE IInv'
  BY <1>2
  DEF call_notification_action, close_notification, IInv, TypeOK,
      MainWindowCallIsLive, Waits, HistoryIsRight, ConnectedWindowHasItsCall,
      NotificationsAreCurrent, IsLive, signalVars, mainVars, windowVars,
      historyVars
<1>3. CASE UNCHANGED vars
  BY <1>3
  DEF vars, IInv, TypeOK, MainWindowCallIsLive, Waits, HistoryIsRight,
      ConnectedWindowHasItsCall, NotificationsAreCurrent, IsLive
<1> QED
  BY <1>1, <1>2, <1>3, SetupStep, MiddleStep, EndStep DEF Next

LEMMA InvariantHolds == Spec => []IInv
BY InitIInv, InvariantStep, PTL DEF Spec

(* Windows, notification and history refer to calls, the history to no more *)
(* than its limit.                                                          *)
THEOREM TypeCorrect == Spec => []TypeOK
<1>1. IInv => TypeOK
  BY DEF IInv
<1> QED
  BY <1>1, InvariantHolds, PTL

(* The main window never keeps a call that is over as its current one. *)
THEOREM MainWindowCallCorrect == Spec => []MainWindowCallIsLive
<1>1. IInv => MainWindowCallIsLive
  BY DEF IInv
<1> QED
  BY <1>1, InvariantHolds, PTL

(* Whatever the calls and their order, the main window is in standby when   *)
(* no call is on, and the sound of an incoming call is started only once,   *)
(* for the current call.                                                    *)
THEOREM MainWindowComesToRest == Spec => []MainWindowRests
<1>1. IInv => MainWindowRests
  <2> SUFFICES ASSUME IInv PROVE MainWindowRests
    OBVIOUS
  <2>1. (\A c \in Calls : ~IsLive(c)) => mw_call = None
    BY DEF IInv, MainWindowCallIsLive, TypeOK
  <2>2. (\A c \in Calls : ~IsLive(c)) => mw_state = "Standby"
    BY <2>1 DEF IInv, Waits, IsLive, Signals!Live
  <2> QED
    BY <2>1, <2>2 DEF IInv, Waits, MainWindowRests
<1> QED
  BY <1>1, InvariantHolds, PTL

(* A call window that says Connected has an established call, and knows the *)
(* timer that it will have to stop.                                         *)
THEOREM ConnectedWindowCorrect == Spec => []ConnectedWindowHasItsCall
<1>1. IInv => ConnectedWindowHasItsCall
  BY DEF IInv
<1> QED
  BY <1>1, InvariantHolds, PTL

(* Accept and Reject are offered for incoming calls that wait for them. *)
THEOREM NotificationsCorrect == Spec => []NotificationsAreCurrent
<1>1. IInv => NotificationsAreCurrent
  BY DEF IInv
<1> QED
  BY <1>1, InvariantHolds, PTL

(* A call is recorded at most once, when it is over, and by how it ended;   *)
(* and the history has the latest calls that ended, in order, as many as    *)
(* its limit allows.                                                        *)
THEOREM HistoryCorrect == Spec => []HistoryIsRight
<1>1. IInv => HistoryIsRight
  BY DEF IInv
<1> QED
  BY <1>1, InvariantHolds, PTL
=============================================================================
