----------------------------- MODULE KickStart ------------------------------
(***************************************************************************)
(* Ekiga::KickStart: the lists of the sparks that have done nothing yet,   *)
(* and of those that have done something, which `kick` goes through as     *)
(* long as something happens.  engine_init kicks before the user interface *)
(* comes, and once more when it is there.                                  *)
(***************************************************************************)
EXTENDS Startup, FiniteSets, Functions

KickStartAssumption == StartupAssumption /\ IsFiniteSet(Sparks)

VARIABLES
  step,           \* of engine_init: "kick", "gui", "kick again", "end"
  phase,          \* of kick: "idle", or the list that it goes through
  blanks, partials,
  temp,           \* what is left of that list
  went_on

vars == <<startup, step, phase, blanks, partials, temp, went_on>>

States == {"BLANK", "PARTIAL", "FULL"}

(* Spark::get_state, of a spark that has done so many stages. *)
get_state(s, stages) ==
  CASE stages = 0              -> "BLANK"
    [] stages = Len(Stages[s]) -> "FULL"
    [] OTHER                   -> "PARTIAL"

Steps == {"kick", "gui", "kick again", "end"}

TypeOK ==
  /\ done \in [Sparks -> Nat] /\ \A s \in Sparks : done[s] <= Len(Stages[s])
  /\ gui \in BOOLEAN /\ disabled \subseteq Sparks
  /\ step \in Steps /\ phase \in {"idle", "blanks", "partials"}
  /\ {blanks, partials, temp} \subseteq Seq(Sparks)
  /\ went_on \in BOOLEAN

After == [x \in {"kick", "gui", "kick again"} |->
  CASE x = "kick" -> "gui" [] x = "gui" -> "kick again" [] OTHER -> "end"]

-----------------------------------------------------------------------------
(* kick *)

GoThroughBlanks ==
  /\ phase' = "blanks" /\ temp' = blanks /\ blanks' = <<>>
  /\ went_on' = FALSE

kick ==
  /\ step \in {"kick", "kick again"} /\ phase = "idle"
  /\ IF blanks = <<>> /\ partials = <<>>
       THEN /\ step' = After[step]
            /\ UNCHANGED <<phase, blanks, temp, went_on>>
       ELSE GoThroughBlanks /\ UNCHANGED step
  /\ UNCHANGED <<startup, partials>>

(* try_initialize_more has something to do. *)
Promoted(s) ==
  /\ Advance(s)
  /\ went_on' = TRUE
  /\ partials' = IF get_state(s, done[s] + 1) = "PARTIAL"
                   THEN Append(partials, s) ELSE partials

TryBlank ==
  /\ phase = "blanks" /\ temp # <<>>
  /\ temp' = Tail(temp)
  /\ LET s == Head(temp)
     IN  \/ s \notin disabled /\ CanDoMore(s)
              /\ Promoted(s) /\ UNCHANGED blanks
         \/ (s \in disabled \/ ~CanDoMore(s))
              /\ blanks' = Append(blanks, s)
              /\ UNCHANGED <<startup, partials, went_on>>
  /\ UNCHANGED <<step, phase>>

GoThroughPartials ==
  /\ phase = "blanks" /\ temp = <<>>
  /\ phase' = "partials" /\ temp' = partials /\ partials' = <<>>
  /\ UNCHANGED <<startup, step, blanks, went_on>>

TryPartial ==
  /\ phase = "partials" /\ temp # <<>>
  /\ temp' = Tail(temp)
  /\ LET s == Head(temp)
     IN  \/ CanDoMore(s) /\ Promoted(s)
         \/ ~CanDoMore(s)
              /\ partials' = Append(partials, s)
              /\ UNCHANGED <<startup, went_on>>
  /\ UNCHANGED <<step, phase, blanks>>

(* A mutation: each list is gone through once. *)
LoopNoMore ==
  /\ phase = "partials" /\ temp = <<>>
  /\ phase' = "idle" /\ step' = After[step]
  /\ UNCHANGED <<startup, blanks, partials, temp, went_on>>

Loop ==
  /\ phase = "partials" /\ temp = <<>>
  /\ \/ went_on /\ GoThroughBlanks /\ UNCHANGED step
     \/ /\ ~went_on
        /\ phase' = "idle" /\ step' = After[step]
        /\ UNCHANGED <<blanks, temp, went_on>>
  /\ UNCHANGED <<startup, partials>>

(* gtk_frontend_init; where it fails, engine_init returns. *)
gtk_frontend_init ==
  /\ step = "gui"
  /\ \/ GuiComes /\ step' = After[step]
     \/ /\ ~(GuiNeeds \subseteq services)
        /\ step' = "end" /\ UNCHANGED startup
  /\ UNCHANGED <<phase, blanks, partials, temp, went_on>>

-----------------------------------------------------------------------------
(* The sparks were added in any order: the plug-ins come as their directory *)
(* has them.                                                                *)
Init ==
  /\ StartupInit
  /\ step = "kick" /\ phase = "idle"
  /\ blanks \in Injection(1..Cardinality(Sparks), Sparks)
  /\ partials = <<>> /\ temp = <<>> /\ went_on = FALSE

Next ==
  \/ kick \/ TryBlank \/ GoThroughPartials \/ TryPartial \/ Loop
  \/ gtk_frontend_init

Spec == Init /\ [][Next]_vars

(* One thread, that goes on. *)
FairSpec == Spec /\ WF_vars(Next)

-----------------------------------------------------------------------------
(* Properties *)

Times(s, q) == Cardinality({i \in DOMAIN q : q[i] = s})

(* A spark that is not full is in one list, once, and in the one that its   *)
(* state calls for; a full one is in none, so that it is not run again.     *)
EachIsInItsList ==
  \A s \in Sparks :
    LET left == IF phase = "partials" THEN <<0, Times(s, temp)>>
                                      ELSE <<Times(s, temp), 0>>
        state == get_state(s, done[s])
    IN  /\ Times(s, blanks)   + left[1] = IF state = "BLANK"   THEN 1 ELSE 0
        /\ Times(s, partials) + left[2] = IF state = "PARTIAL" THEN 1 ELSE 0

(* When engine_init is through, no spark could go on, and the user          *)
(* interface is there unless something that it needs is missing.            *)
NothingIsLeft ==
  step = "end" =>
    /\ \A s \in Sparks \ disabled : ~CanDoMore(s)
    /\ gui \/ ~(GuiNeeds \subseteq services)

(* kickstart.h: "it should handle dependancies as transparently as possible *)
(* so external plugins work correctly", and it goes on until "all sparks    *)
(* have done as much as they could".  In whatever order they were added,    *)
(* each spark does whatever the others make possible, also those that need  *)
(* the user interface.                                                      *)
StartupImplemented == StartupSpec

(* engine_init does not kick for ever: a loop in which no spark went on is  *)
(* the last one.                                                            *)
KickEnds == <>(step = "end")
=============================================================================
