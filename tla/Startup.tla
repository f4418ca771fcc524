------------------------------ MODULE Startup -------------------------------
(***************************************************************************)
(* What the start of the engine promises, as kickstart.h has it: each      *)
(* spark initializes as much as it can, whatever the order in which the    *)
(* sparks were added.  A spark has stages, each with the services that it  *)
(* needs and those that it adds; the user interface comes when what it     *)
(* needs is there.                                                         *)
(***************************************************************************)
EXTENDS Naturals, Sequences

CONSTANTS
  Sparks,
  Stages,         \* the stages of each spark
  Cores,          \* the services that engine_init adds by hand
  GuiNeeds,       \* those that the user interface needs
  Gui             \* and the one that it adds

StartupAssumption == \A s \in Sparks : Len(Stages[s]) \in Nat \ {0}

VARIABLES
  done,           \* how many stages each spark has done
  gui,            \* is the user interface there?
  disabled        \* the sparks of --kickstart-disabled

startup == <<done, gui, disabled>>

services ==
  Cores \cup (IF gui THEN {Gui} ELSE {})
        \cup UNION {UNION {Stages[s][i].adds : i \in 1..done[s]} : s \in Sparks}

IsFull(s) == done[s] = Len(Stages[s])

CanDoMore(s) == ~IsFull(s) /\ Stages[s][done[s] + 1].needs \subseteq services

Advance(s) ==
  /\ s \notin disabled /\ CanDoMore(s)
  /\ done' = [done EXCEPT ![s] = @ + 1]
  /\ UNCHANGED <<gui, disabled>>

GuiComes ==
  /\ ~gui /\ GuiNeeds \subseteq services
  /\ gui' = TRUE
  /\ UNCHANGED <<done, disabled>>

StartupInit ==
  /\ done = [s \in Sparks |-> 0]
  /\ gui = FALSE
  /\ disabled \in SUBSET Sparks

StartupNext == GuiComes \/ \E s \in Sparks : Advance(s)

(* Whatever can be done is done in the end. *)
StartupSpec ==
  /\ StartupInit /\ [][StartupNext]_startup
  /\ WF_startup(GuiComes)
  /\ \A s \in Sparks : WF_startup(Advance(s))
=============================================================================
