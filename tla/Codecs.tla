------------------------------- MODULE Codecs -------------------------------
(***************************************************************************)
(* The codecs: the lists of the settings, which may name what this OPAL    *)
(* does not support and miss what it does; Opal::ConfBridge, which passes  *)
(* them to Opal::CallManager::set_codecs and writes back what comes out;   *)
(* and the boxes of the preferences, in which the user orders and ticks.   *)
(***************************************************************************)
EXTENDS SequencesExt

CONSTANTS
  Audio, Video,   \* the names of codecs, supported or not
  all_codecs,     \* what OPAL supports, in its order
  Stored          \* the lists that the settings may hold at the start

Types == {"audio", "video"}
Names == [audio |-> Audio, video |-> Video]

Descriptions == [name : Audio \cup Video, active : BOOLEAN]

CodecsAssumption ==
  /\ Audio \cap Video = {}
  /\ all_codecs \in Seq(Audio \cup Video) /\ IsInjective(all_codecs)
  /\ Stored \subseteq [Types -> Seq(Descriptions)]
  /\ \A lists \in Stored, t \in Types :
       \A i \in DOMAIN lists[t] : lists[t][i].name \in Names[t]

VARIABLES
  media_list,     \* the two lists of the settings
  notified,       \* external: the keys whose change GConf has yet to notify
  codecs,         \* Opal::CallManager::codecs
  box             \* what the two boxes show

vars == <<media_list, notified, codecs, box>>

NamesIn(list) == {list[i].name : i \in DOMAIN list}

(* What a loop leaves of a list that goes on at some positions only.  (As   *)
(* SelectSeq, but without an operator for a parameter.)                     *)
Picked(list, at) ==
  LET left[i \in 0 .. Len(list)] ==
        IF i = 0 THEN <<>>
          ELSE IF i \in at THEN Append(left[i - 1], list[i]) ELSE left[i - 1]
  IN  left[Len(list)]

Only(list, names) == Picked(list, {i \in DOMAIN list : list[i].name \in names})

TypeOK ==
  /\ media_list \in [Types -> Seq(Descriptions)]
  /\ box \in [Types -> Seq(Descriptions)]
  /\ codecs \in Seq(Descriptions)
  /\ \A t \in Types : NamesIn(media_list[t]) \subseteq Names[t]
  /\ notified \subseteq Types

-----------------------------------------------------------------------------
(* Opal::CallManager::set_codecs *)

Supported == ToSet(all_codecs)

(* What Opal::CodecList makes of all_codecs: active, as every description. *)
Described(names) == [i \in DOMAIN names |-> [name |-> names[i], active |-> TRUE]]

Missing(list) ==
  Picked(all_codecs, {i \in DOMAIN all_codecs : all_codecs[i] \notin NamesIn(list)})

(* A mutation: what is missing goes to the top. *)
MissingFirst(list) == Described(Missing(list)) \o list

WithMissing(list) == list \o Described(Missing(list))

(* After each removal the loop begins again, and steps on at once: when the *)
(* first is removed, the second comes to its place and is never looked at.  *)
RemoveUnsupported == [list \in Seq(Descriptions) |->
  Picked(list, {i \in DOMAIN list :
                  list[i].name \notin Supported
                    => i = 2 /\ list[1].name \notin Supported})]

set_codecs(list) == RemoveUnsupported[WithMissing(list)]

get_list(list, t) == Only(list, Names[t])

-----------------------------------------------------------------------------
(* The settings and the preferences *)

(* A mutation: what comes out is not written back. *)
KeepsTheSettings(t) ==
  /\ t \in notified
  /\ codecs' = set_codecs(media_list["audio"] \o media_list["video"])
  /\ box' = [box EXCEPT ![t] = media_list[t]]
  /\ notified' = notified \ {t}
  /\ UNCHANGED media_list

(* GConf notifies the bridge and the box. *)
on_property_changed(t) ==
  /\ t \in notified
  /\ codecs' = set_codecs(media_list["audio"] \o media_list["video"])
  /\ box' = [box EXCEPT ![t] = media_list[t]]
  /\ media_list' = [u \in Types |-> get_list(codecs', u)]
  /\ notified' = (notified \ {t})
                   \cup {u \in Types : media_list'[u] # media_list[u]}

Chooses(t, list) ==
  /\ box' = [box EXCEPT ![t] = list]
  /\ media_list' = [media_list EXCEPT ![t] = list]
  /\ notified' = notified \cup {t}
  /\ UNCHANGED codecs

codec_toggled_cb(t) ==
  \E i \in DOMAIN box[t] : Chooses(t, [box[t] EXCEPT ![i].active = ~@])

codec_moved_cb(t) ==
  \E i \in 1..Len(box[t]) - 1 :
    Chooses(t, [box[t] EXCEPT ![i] = box[t][i + 1], ![i + 1] = box[t][i]])

Init ==
  /\ media_list \in Stored
  /\ notified = Types
  /\ codecs = <<>>
  /\ box = media_list

User == \E t \in Types : codec_toggled_cb(t) \/ codec_moved_cb(t)

Next ==
  \/ \E t \in Types : on_property_changed(t)
  \/ \E t \in Types : codec_toggled_cb(t) \/ codec_moved_cb(t)

Spec == Init /\ [][Next]_vars

FairSpec == Spec /\ \A t \in Types : WF_vars(on_property_changed(t))

-----------------------------------------------------------------------------
(* Properties *)

(* Whenever every change of the settings was notified, the settings, the    *)
(* boxes and the manager agree, on each supported codec once and on nothing *)
(* else (ConfBridge::on_property_changed, CallManager::set_codecs).         *)
SettledIsRight ==
  notified = {} =>
    /\ NamesIn(codecs) = Supported /\ Len(codecs) = Len(all_codecs)
    /\ \A t \in Types :
         media_list[t] = get_list(codecs, t) /\ box[t] = media_list[t]

(* The bridge answers its own writes: that comes to an end, unless the user *)
(* goes on for ever.                                                        *)
BridgeSettles == []<>(notified = {}) \/ []<><<User>>_vars

(* Cleaning keeps what the user said of the codecs that are supported:      *)
(* their order and their ticks.                                             *)
ChoicesAreKept ==
  [][(\E t \in Types : on_property_changed(t)) => \A t \in Types :
       IsPrefix(Only(media_list[t], Supported),
                Only(media_list'[t], Supported))]_vars

(* call-manager.h:139, of set_codecs: "Unsupported codecs have been        *)
(* removed."  Not kept for the first codec of the list, which the loop     *)
(* skips once it has removed another.                                      *)
UnsupportedAreRemoved == NamesIn(codecs) \subseteq Supported

(* call-manager.h:138, of set_codecs: "when the function returns, the list *)
(* also contains disabled codecs supported by the CallManager".  So what   *)
(* it adds to the lists of the settings is disabled.  Not kept: a new      *)
(* description is active.                                                  *)
MissingAreDisabled ==
  [][\A i \in DOMAIN codecs' : codecs'[i].active =>
       \E t \in Types : codecs'[i].name \in NamesIn(media_list[t])]_codecs
=============================================================================
