------------------------------ MODULE Services ------------------------------
(***************************************************************************)
(* Four parts of the engine that share no variable: an address book in a   *)
(* directory; the start of the services; what Opal::CallManager finds out  *)
(* about NAT; and its list of codecs.  What is said of them here is        *)
(* checked in MCServices, and proved, but for liveness, in Services_proofs.*)
(***************************************************************************)
EXTENDS LdapBook

CONSTANTS
  Patience, MaxReports,
  Audio, Video, all_codecs, Stored,
  Sparks, Stages, Cores, GuiNeeds, Gui

VARIABLES
  stun_enabled, stun_thread, detector, queue, patience, polls, reports, program,
  awaited, untold,
  media_list, notified, codecs, box,
  done, gui, disabled, step, phase, blanks, partials, temp, went_on

D == INSTANCE Stun
C == INSTANCE Codecs
K == INSTANCE KickStart

ASSUME ServicesAssumption ==
  /\ D!StunAssumption /\ C!CodecsAssumption
  /\ K!KickStartAssumption /\ LdapBookAssumption

(* Whenever every change of the settings was notified, the settings, the    *)
(* boxes and the manager agree, and the manager has each supported codec    *)
(* once (CallManager::set_codecs, ConfBridge::on_property_changed).         *)
SettledIsRight == C!SettledIsRight

(* Cleaning the list keeps what the user said of the codecs that are        *)
(* supported: their order and their ticks (CallManager::set_codecs).        *)
ChoicesAreKept == C!ChoicesAreKept

(* In whatever order the sparks were added, each of them does whatever the  *)
(* others make possible (KickStart::kick); what rests has all disabled.     *)
StartupImplemented == K!StartupImplemented

(* A detection is answered, and a failure is shown, even if the server of   *)
(* STUN never answers (CallManager::HandleSTUNResult, ReportSTUNError).     *)
DetectionIsAnswered == D!DetectionIsAnswered
=============================================================================
