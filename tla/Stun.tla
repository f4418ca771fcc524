-------------------------------- MODULE Stun --------------------------------
(***************************************************************************)
(* Opal::CallManager finds out what NAT it is behind: a StunDetector       *)
(* thread asks the server and leaves its result in a queue, at which       *)
(* HandleSTUNResult looks every second until its patience is at its end.   *)
(* When that is over the manager is ready, and the accounts register.      *)
(***************************************************************************)
EXTENDS Naturals, Sequences

CONSTANTS
  Patience,       \* the seconds that HandleSTUNResult waits: 20
  MaxReports      \* bound: errors that wait for somebody to show them

StunAssumption == Patience \in Nat /\ MaxReports \in Nat \ {0}

VARIABLES
  stun_enabled,
  stun_thread,    \* is the pointer set?
  detector,       \* does the thread run?
  queue,          \* the results that nobody has looked at
  patience,
  polls,          \* timers of HandleSTUNResult
  reports,        \* timers of ReportSTUNError
  program,        \* "starts", "runs" (with its main window) or "quits"
  awaited,        \* a detection was started, and `ready` not emitted since
  untold          \* a detection failed, and no error was shown since

vars == <<stun_enabled, stun_thread, detector, queue, patience, polls, reports,
          program, awaited, untold>>

(* PSTUNClient::NatTypes: what it can live with, and what not. *)
NatTypes == {"Cone", "Symmetric"}

TypeOK ==
  /\ {stun_enabled, stun_thread, detector, awaited, untold} \subseteq BOOLEAN
  /\ queue \in Seq(NatTypes)
  /\ patience \in 0..Patience
  /\ polls \in Nat /\ reports \in 0..MaxReports
  /\ program \in {"starts", "runs", "quits"}

Runs == program # "quits"

-----------------------------------------------------------------------------
Ready == awaited' = FALSE

StartsDetector ==
  /\ stun_thread' = TRUE /\ detector' = TRUE
  /\ patience' = Patience /\ polls' = polls + 1
  /\ awaited' = TRUE

set_stun_enabled(enabled) ==
  /\ Runs
  /\ stun_enabled' = enabled
  /\ \/ enabled /\ ~stun_thread /\ StartsDetector
     \/ /\ ~enabled \/ stun_thread
        /\ Ready
        /\ UNCHANGED <<stun_thread, detector, patience, polls>>
  /\ UNCHANGED <<queue, reports, program, untold>>

(* StunDetector::Main; the thread deletes itself.  The server may be slow. *)
Detects ==
  /\ detector
  /\ detector' = FALSE
  /\ \E result \in NatTypes : queue' = Append(queue, result)
  /\ UNCHANGED <<stun_enabled, stun_thread, patience, polls, reports, program,
                 awaited, untold>>

(* ReportSTUNError: shown if the main window is there, or tried again. *)
Reports ==
  /\ untold' = (program # "runs")
  /\ reports' = IF program = "runs" THEN reports ELSE reports + 1
  /\ reports' <= MaxReports

(* A mutation: the patience is not counted. *)
WaitsPatiently ==
  /\ polls > 0 /\ queue = <<>> /\ patience > 0
  /\ UNCHANGED <<patience, stun_thread, queue, polls, reports, awaited, untold>>

Waits ==
  /\ polls > 0 /\ queue = <<>> /\ patience > 0
  /\ patience' = patience - 1
  /\ UNCHANGED <<stun_thread, queue, polls, reports, awaited, untold>>

LosesPatience ==
  /\ polls > 0 /\ queue = <<>> /\ patience = 0
  /\ polls' = polls - 1
  /\ Reports /\ Ready
  /\ UNCHANGED <<stun_thread, queue, patience>>

UsesTheResult ==
  /\ polls > 0 /\ queue # <<>>
  /\ queue' = Tail(queue)
  /\ stun_thread' = FALSE
  /\ polls' = polls - 1
  /\ IF Head(queue) = "Symmetric" THEN Reports ELSE UNCHANGED <<reports, untold>>
  /\ Ready
  /\ UNCHANGED patience

HandleSTUNResult ==
  /\ Runs
  /\ Waits \/ LosesPatience \/ UsesTheResult
  /\ UNCHANGED <<stun_enabled, detector, program>>

ReportSTUNError ==
  /\ program = "runs" /\ reports > 0
  /\ reports' = reports - 1 /\ untold' = FALSE
  /\ UNCHANGED <<stun_enabled, stun_thread, detector, queue, patience, polls,
                 program, awaited>>

(* The main window connects to CallCore::errors. *)
MainWindow ==
  /\ program = "starts" /\ program' = "runs"
  /\ UNCHANGED <<stun_enabled, stun_thread, detector, queue, patience, polls,
                 reports, awaited, untold>>

Quit ==
  /\ program = "runs" /\ program' = "quits"
  /\ UNCHANGED <<stun_enabled, stun_thread, detector, queue, patience, polls,
                 reports, awaited, untold>>

Init ==
  /\ stun_enabled = FALSE /\ stun_thread = FALSE /\ detector = FALSE
  /\ queue = <<>> /\ patience = 0 /\ polls = 0 /\ reports = 0
  /\ program = "starts" /\ awaited = FALSE /\ untold = FALSE

Next ==
  \/ \E enabled \in BOOLEAN : set_stun_enabled(enabled)
  \/ Detects \/ HandleSTUNResult \/ ReportSTUNError \/ MainWindow \/ Quit

Spec == Init /\ [][Next]_vars

(* The main loop runs its timers and the program comes up.  The server need *)
(* not answer.                                                              *)
FairSpec ==
  /\ Spec
  /\ WF_vars(HandleSTUNResult) /\ WF_vars(ReportSTUNError) /\ WF_vars(MainWindow)

-----------------------------------------------------------------------------
(* Properties *)

(* The pointer to the detector is set exactly while one runs or its result  *)
(* waits to be looked at, there is never a second one, and what it found is *)
(* asked for by one timer at most.                                          *)
OneDetector ==
  /\ stun_thread <=> (detector \/ queue # <<>>)
  /\ ~(detector /\ queue # <<>>) /\ Len(queue) <= 1
  /\ polls <= 1 /\ (polls = 1 => stun_thread)

(* What is still awaited, or has yet to be told, has the timer that will    *)
(* bring it.                                                                *)
NothingIsForgotten == (awaited => polls = 1) /\ (untold => reports > 0)

(* A detection that was started is answered, even if the server never is:   *)
(* the manager becomes ready, so that the accounts register, and a failure  *)
(* is shown, also one that was found before there was a window.             *)
DetectionIsAnswered ==
  /\ awaited ~> (~awaited \/ ~Runs)
  /\ untold ~> (~untold \/ ~Runs)

(* NEWS:5, "Fix crash when quitting ekiga right after starting it (before  *)
(* STUN ending)": the destructor waits for the thread, which is there. Not *)
(* kept: the thread deletes itself before its pointer is reset.            *)
QuitWaitsForAThread == ~Runs /\ stun_thread => detector

(* ekiga.schemas.in.in:551, of enable_stun: "Enable the automatic network  *)
(* setup resulting from the STUN test".  So what the test found is used.   *)
(* Not kept: nobody looks at a result that comes after the patience.       *)
ResultIsUsed == (queue # <<>>) ~> (queue = <<>> \/ ~Runs)
=============================================================================
