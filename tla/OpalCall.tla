------------------------------ MODULE OpalCall ------------------------------
(***************************************************************************)
(* The life of a call: Opal::Call and Opal::CallManager, whose callbacks   *)
(* OPAL runs in threads of its own; Ekiga::Runtime, whose queue carries    *)
(* closures from those threads to the main loop; and Ekiga::CallCore,      *)
(* which forwards the signals of the calls it is connected to.             *)
(*                                                                         *)
(* A callback that OPAL may interleave with another one of the same call   *)
(* (OnSetUp, OnCleared, OnNoAnswerTimeout) is cut where the other can see  *)
(* its effects; every other callback is one action.  OPAL itself is not in *)
(* the repository: what it may do is the guards marked (OPAL).             *)
(***************************************************************************)
EXTENDS Naturals, Sequences

CONSTANTS
  Calls,          \* the calls of a run
  MaxQueue        \* bound: no repeatable callback while the queue is longer

ASSUME MaxQueueAssumption == MaxQueue \in Nat

VARIABLES
  origin,             \* "none" until created; IsNetworkOriginated afterwards
  outgoing,           \* Opal::Call::outgoing
  setup_pc,           \* how far the set up of the call is
  call_setup,         \* Opal::Call::call_setup
  progress,           \* how far the call is: "established" is IsEstablished
  timer,              \* NoAnswerTimer
  forward_uri,        \* is Opal::Call::forward_uri set?
  end_reason,         \* GetCallEndReason, "none" while the call is on
  clear_pc,           \* how far the end of the call is
  queue,              \* Ekiga::Runtime's queue
  call_connections,   \* CallCore::call_connections
  told                \* the last signal CallCore's clients got for the call
                      \* ("established" again when it was retrieved)

callVars == <<origin, outgoing, setup_pc, call_setup, progress, timer,
              forward_uri, end_reason, clear_pc>>
coreVars == <<queue, call_connections, told>>
vars     == <<origin, outgoing, setup_pc, call_setup, progress, timer,
              forward_uri, end_reason, clear_pc, queue, call_connections, told>>

(* The clients learn the direction of a call when it is announced. *)
Announced == [c \in Calls |-> told[c] # "nothing" /\ outgoing[c]]

Abstract == INSTANCE CallSignals WITH outgoing <- Announced

(* The end reasons the code tells apart; "Other" stands for all the rest. *)
Reasons == {"LocalUser", "AnswerDenied", "NoAnswer", "LocalBusy",
            "CallForwarded", "Other"}

(* The closures that are posted to the main loop for a call. *)
Emits   == {"create", "setup", "ringing", "established", "held", "retrieved",
            "cleared", "missed"}
Closure == [call : Calls, emit : Emits]

TypeOK ==
  /\ origin \in [Calls -> {"none", "network", "local"}]
  /\ outgoing \in [Calls -> BOOLEAN]
  /\ setup_pc \in [Calls -> {"idle", "accepted", "refused", "posted", "started",
                          "done"}]
  /\ call_setup \in [Calls -> BOOLEAN]
  /\ progress \in [Calls -> {"idle", "alerting", "answered", "established"}]
  /\ timer \in [Calls -> {"off", "armed", "firing"}]
  /\ forward_uri \in [Calls -> BOOLEAN]
  /\ end_reason \in [Calls -> {"none"} \cup Reasons]
  /\ clear_pc \in [Calls -> {"idle", "waiting", "returned", "destroyed"}]
  /\ queue \in Seq(Closure)
  /\ call_connections \subseteq Calls
  /\ told \in [Calls -> Abstract!Told]

Init ==
  /\ origin = [c \in Calls |-> "none"]
  /\ outgoing = [c \in Calls |-> FALSE]
  /\ setup_pc = [c \in Calls |-> "idle"]
  /\ call_setup = [c \in Calls |-> FALSE]
  /\ progress = [c \in Calls |-> "idle"]
  /\ timer = [c \in Calls |-> "off"]
  /\ forward_uri = [c \in Calls |-> FALSE]
  /\ end_reason = [c \in Calls |-> "none"]
  /\ clear_pc = [c \in Calls |-> "idle"]
  /\ queue = <<>>
  /\ call_connections = {}
  /\ told = [c \in Calls |-> "nothing"]

-----------------------------------------------------------------------------
(* Helpers *)

run_in_main(c, e) == queue' = Append(queue, [call |-> c, emit |-> e])

IsEstablished(c) == progress[c] = "established"

(* OpalCall::Clear: the first reason is the one that counts (OPAL). *)
Clear(c, reason) ==
  end_reason' = [end_reason EXCEPT ![c] = IF @ = "none" THEN reason ELSE @]

(* NoAnswerTimer.Stop (false): a notifier that already runs is not waited for. *)
StopTimer(c) ==
  timer' = [timer EXCEPT ![c] = IF @ = "armed" THEN "off" ELSE @]

(* connectionsActive holds a SIP connection of another call. *)
Busy(c) == \E d \in Calls \ {c} :
             /\ origin[d] = "network" \/ setup_pc[d] = "done"
             /\ end_reason[d] = "none"

(* The call is up as far as OPAL is concerned. *)
On(c) == origin[c] # "none" /\ end_reason[c] = "none"

-----------------------------------------------------------------------------
(* OPAL's threads *)

(* A mutation: the call is never announced to the main loop. *)
CreateCallUnannounced(c) ==
  /\ origin[c] = "none"
  /\ \E from \in {"network", "local"} : origin' = [origin EXCEPT ![c] = from]
  /\ UNCHANGED <<outgoing, setup_pc, call_setup, progress, timer, forward_uri,
                 end_reason, clear_pc, coreVars>>

CreateCall(c) ==
  /\ origin[c] = "none"
  /\ \E from \in {"network", "local"} : origin' = [origin EXCEPT ![c] = from]
  /\ run_in_main(c, "create")
  /\ UNCHANGED <<outgoing, setup_pc, call_setup, progress, timer, forward_uri,
                 end_reason, clear_pc, call_connections, told>>

(* The SIP end point looks at an incoming call before OPAL sets it up: it  *)
(* forwards it, refuses it because another call is on, or lets it ring for *)
(* the time the user chose.  `has_uri`, `always`, `when_busy` and          *)
(* `unanswered` are the settings of that moment.                           *)
OnIncomingConnection(c) ==
  /\ origin[c] = "network" /\ setup_pc[c] = "idle"
  /\ setup_pc' = [setup_pc EXCEPT ![c] = "accepted"]
  /\ \E has_uri, always, when_busy, unanswered \in BOOLEAN :
       \/ /\ has_uri /\ (always \/ (Busy(c) /\ when_busy))
          /\ Clear(c, "CallForwarded")
          /\ UNCHANGED <<timer, forward_uri>>
       \/ /\ Busy(c) /\ ~(has_uri /\ (always \/ when_busy))
          /\ Clear(c, "LocalBusy")
          /\ UNCHANGED <<timer, forward_uri>>
       \/ /\ ~Busy(c) /\ ~(has_uri /\ always)
          /\ timer' = [timer EXCEPT ![c] = "armed"]
          /\ forward_uri' = [forward_uri EXCEPT ![c] = has_uri /\ unanswered]
          /\ UNCHANGED end_reason
  /\ UNCHANGED <<origin, outgoing, call_setup, progress, clear_pc, coreVars>>

(* OPAL itself refuses the call: it releases it and never sets it up (OPAL). *)
RefuseIncoming(c) ==
  /\ origin[c] = "network" /\ setup_pc[c] = "idle"
  /\ setup_pc' = [setup_pc EXCEPT ![c] = "refused"]
  /\ Clear(c, "Other")
  /\ UNCHANGED <<origin, outgoing, call_setup, progress, timer, forward_uri,
                 clear_pc, coreVars>>

OnSetUp(c) ==
  /\ \/ origin[c] = "local" /\ setup_pc[c] = "idle"
     \/ origin[c] = "network" /\ setup_pc[c] = "accepted"
  /\ outgoing' = [outgoing EXCEPT ![c] = origin[c] # "network"]
  /\ run_in_main(c, "setup")
  /\ setup_pc' = [setup_pc EXCEPT ![c] = "posted"]
  /\ UNCHANGED <<origin, call_setup, progress, timer, forward_uri, end_reason,
                 clear_pc, call_connections, told>>

(* A mutation: call_setup is never set. *)
OnSetUpForgets(c) ==
  /\ setup_pc[c] = "posted"
  /\ setup_pc' = [setup_pc EXCEPT ![c] = "started"]
  /\ UNCHANGED <<origin, outgoing, call_setup, progress, timer, forward_uri,
                 end_reason, clear_pc, coreVars>>

(* The rest of OnSetUp: from here on OnCleared no longer waits. *)
OnSetUpDone(c) ==
  /\ setup_pc[c] = "posted"
  /\ call_setup' = [call_setup EXCEPT ![c] = TRUE]
  /\ setup_pc' = [setup_pc EXCEPT ![c] = "started"]
  /\ UNCHANGED <<origin, outgoing, progress, timer, forward_uri, end_reason,
                 clear_pc, coreVars>>

(* The CallSetup thread. *)
DoSetUp(c) ==
  /\ setup_pc[c] = "started"
  /\ setup_pc' = [setup_pc EXCEPT ![c] = "done"]
  /\ UNCHANGED <<origin, outgoing, call_setup, progress, timer, forward_uri,
                 end_reason, clear_pc, coreVars>>

(* The remote party rings, perhaps more than once, before it answers (OPAL). *)
OnAlerting(c) ==
  /\ On(c) /\ origin[c] = "local" /\ setup_pc[c] = "done"
  /\ progress[c] \in {"idle", "alerting"}
  /\ Len(queue) < MaxQueue
  /\ progress' = [progress EXCEPT ![c] = "alerting"]
  /\ run_in_main(c, "ringing")
  /\ UNCHANGED <<origin, outgoing, setup_pc, call_setup, timer, forward_uri,
                 end_reason, clear_pc, call_connections, told>>

(* Auto answer: the incoming call is accepted without the user. *)
OnAnswerCall(c) ==
  /\ On(c) /\ origin[c] = "network" /\ setup_pc[c] = "done"
  /\ progress[c] = "idle"
  /\ progress' = [progress EXCEPT ![c] = "answered"]
  /\ UNCHANGED <<origin, outgoing, setup_pc, call_setup, timer, forward_uri,
                 end_reason, clear_pc, coreVars>>

(* Both connections are up.  It posts the signal and OPAL then marks the    *)
(* call established; nothing ends the call in between (OPAL).               *)
OnEstablished(c) ==
  /\ On(c) /\ setup_pc[c] = "done"
  /\ \/ origin[c] = "local" /\ progress[c] \in {"idle", "alerting"}
     \/ origin[c] = "network" /\ progress[c] = "answered"
  /\ StopTimer(c)
  /\ run_in_main(c, "established")
  /\ progress' = [progress EXCEPT ![c] = "established"]
  /\ UNCHANGED <<origin, outgoing, setup_pc, call_setup, forward_uri,
                 end_reason, clear_pc, call_connections, told>>

OnHold(c) ==
  /\ On(c) /\ IsEstablished(c)
  /\ Len(queue) < MaxQueue
  /\ \E e \in {"held", "retrieved"} : run_in_main(c, e)
  /\ UNCHANGED <<callVars, call_connections, told>>

(* The remote party hangs up or refuses, or the call fails (OPAL). *)
RemoteRelease(c) ==
  /\ On(c)
  /\ Clear(c, "Other")
  /\ UNCHANGED <<origin, outgoing, setup_pc, call_setup, progress, timer,
                 forward_uri, clear_pc, coreVars>>

(* The timer expires: its notifier starts in the timer thread. *)
TimerExpires(c) ==
  /\ timer[c] = "armed"
  /\ timer' = [timer EXCEPT ![c] = "firing"]
  /\ UNCHANGED <<origin, outgoing, setup_pc, call_setup, progress, forward_uri,
                 end_reason, clear_pc, coreVars>>

OnNoAnswerTimeout(c) ==
  /\ timer[c] = "firing"
  /\ timer' = [timer EXCEPT ![c] = "off"]
  /\ IF outgoing[c]
       THEN UNCHANGED end_reason
       ELSE Clear(c, IF forward_uri[c] THEN "CallForwarded" ELSE "NoAnswer")
  /\ UNCHANGED <<origin, outgoing, setup_pc, call_setup, progress, forward_uri,
                 clear_pc, coreVars>>

(* All connections are released: OnCleared stops the timer... *)
OnCleared(c) ==
  /\ end_reason[c] # "none" /\ clear_pc[c] = "idle"
  /\ StopTimer(c)
  /\ clear_pc' = [clear_pc EXCEPT ![c] = "waiting"]
  /\ UNCHANGED <<origin, outgoing, setup_pc, call_setup, progress, forward_uri,
                 end_reason, coreVars>>

(* A mutation: an outgoing call that is not answered counts as missed. *)
EndingOfAnyCall(c) ==
  IF ~IsEstablished(c) /\ end_reason[c] # "AnswerDenied"
    THEN "missed" ELSE "cleared"

(* ...waits for OnSetUp, and posts how the call ended. *)
Ending(c) ==
  IF ~IsEstablished(c) /\ ~outgoing[c] /\ end_reason[c] # "AnswerDenied"
    THEN "missed" ELSE "cleared"

(* A mutation: OnCleared without its wait. *)
OnClearedHasty(c) ==
  /\ clear_pc[c] = "waiting"
  /\ run_in_main(c, Ending(c))
  /\ clear_pc' = [clear_pc EXCEPT ![c] = "returned"]
  /\ UNCHANGED <<origin, outgoing, setup_pc, call_setup, progress, timer,
                 forward_uri, end_reason, call_connections, told>>

OnClearedDone(c) ==
  /\ clear_pc[c] = "waiting"
  /\ call_setup[c]
  /\ run_in_main(c, Ending(c))
  /\ clear_pc' = [clear_pc EXCEPT ![c] = "returned"]
  /\ UNCHANGED <<origin, outgoing, setup_pc, call_setup, progress, timer,
                 forward_uri, end_reason, call_connections, told>>

(* OPAL's collector deletes a call that has ended, whatever is queued for   *)
(* it.  A notifier that runs is waited for by the timer's destructor.       *)
DestroyCall(c) ==
  /\ clear_pc[c] = "returned" /\ timer[c] = "off"
  /\ clear_pc' = [clear_pc EXCEPT ![c] = "destroyed"]
  /\ UNCHANGED <<origin, outgoing, setup_pc, call_setup, progress, timer,
                 forward_uri, end_reason, coreVars>>

-----------------------------------------------------------------------------
(* The main thread: what the user does to a call the interface knows *)

answer(c) ==
  /\ told[c] \in Abstract!Live
  /\ On(c) /\ ~outgoing[c] /\ progress[c] = "idle" /\ setup_pc[c] = "done"
  /\ progress' = [progress EXCEPT ![c] = "answered"]
  /\ UNCHANGED <<origin, outgoing, setup_pc, call_setup, timer, forward_uri,
                 end_reason, clear_pc, coreVars>>

hang_up(c) ==
  /\ told[c] \in Abstract!Live
  /\ On(c)
  /\ Clear(c, IF ~outgoing[c] /\ ~IsEstablished(c)
                THEN "AnswerDenied" ELSE "LocalUser")
  /\ UNCHANGED <<origin, outgoing, setup_pc, call_setup, progress, timer,
                 forward_uri, clear_pc, coreVars>>

-----------------------------------------------------------------------------
(* The main thread: the loop takes the first closure of the queue *)

(* CallCore::add_call *)
create_call_in_main(c) ==
  /\ call_connections' = call_connections \cup {c}
  /\ UNCHANGED told

(* A signal of the call reaches CallCore's clients if CallCore is connected. *)
Forward(c, signal) ==
  told' = IF c \in call_connections THEN [told EXCEPT ![c] = signal] ELSE told

emit_in_main(c, signal) ==
  /\ Forward(c, signal)
  /\ UNCHANGED call_connections

(* cleared () and then removed (), on which CallCore drops its connections. *)
emit_cleared_in_main(c) ==
  /\ Forward(c, "cleared")
  /\ call_connections' = call_connections \ {c}

(* Only missed (): CallCore keeps its connections.  (Its early return is    *)
(* for a CallCore that is gone, at the exit of the program.)                *)
emit_missed_in_main(c) ==
  /\ Forward(c, "missed")
  /\ UNCHANGED call_connections

(* A call that is retrieved is to its clients as it was before it was held. *)
Signal(e) == IF e = "retrieved" THEN "established" ELSE e

run(c, e) ==
  \/ e = "create"  /\ create_call_in_main(c)
  \/ e = "cleared" /\ emit_cleared_in_main(c)
  \/ e = "missed"  /\ emit_missed_in_main(c)
  \/ /\ e \in {"setup", "ringing", "established", "held", "retrieved"}
     /\ emit_in_main(c, Signal(e))

(* The closures hold plain pointers: one of a call that was deleted uses    *)
(* freed memory.  Either that memory is still as it was, and the closure    *)
(* runs like any other, or the program ends there: Fairness below promises  *)
(* nothing of it.                                                           *)
IsDangling(closure) == clear_pc[closure.call] = "destroyed"

dispatch ==
  /\ queue # <<>>
  /\ run(Head(queue).call, Head(queue).emit)
  /\ queue' = Tail(queue)
  /\ UNCHANGED callVars

dispatchLive == dispatch /\ ~IsDangling(Head(queue))

-----------------------------------------------------------------------------
OpalStep(c) ==
  \/ CreateCall(c) \/ OnIncomingConnection(c) \/ RefuseIncoming(c)
  \/ OnSetUp(c) \/ OnSetUpDone(c) \/ DoSetUp(c)
  \/ OnAlerting(c) \/ OnAnswerCall(c) \/ OnEstablished(c) \/ OnHold(c)
  \/ RemoteRelease(c) \/ TimerExpires(c) \/ OnNoAnswerTimeout(c)
  \/ OnCleared(c) \/ OnClearedDone(c) \/ DestroyCall(c)

UserStep(c) == answer(c) \/ hang_up(c)

Next == dispatch \/ \E c \in Calls : OpalStep(c) \/ UserStep(c)

(* The main loop keeps running as long as it does not use freed memory, and *)
(* OPAL runs the callbacks it started: an incoming call is looked at, and   *)
(* set up unless it is refused, OnSetUp returns, and a released call is     *)
(* cleared.                                                                 *)
Fairness ==
  /\ WF_vars(dispatchLive)
  /\ \A c \in Calls : /\ WF_vars(OnIncomingConnection(c))
                      /\ WF_vars(OnSetUp(c))
                      /\ WF_vars(OnSetUpDone(c))
                      /\ WF_vars(OnCleared(c))
                      /\ WF_vars(OnClearedDone(c))

Spec     == Init /\ [][Next]_vars
FairSpec == Spec /\ Fairness

-----------------------------------------------------------------------------
(* Properties *)

(* CallCore's clients see the signals of every call in the promised order,  *)
(* whatever the order in which OPAL's threads and the main loop run.        *)
SignalsInOrder == Abstract!Spec

(* No signal is lost: a closure that emits a signal of a call is queued     *)
(* behind the one that connects CallCore to that call, or CallCore is       *)
(* connected already (CreateCall posts add_call before OPAL sets the call   *)
(* up, and nothing is posted after emit_cleared_in_main).                   *)
CreatesBefore(i) == \E j \in 1 .. (i - 1) :
                      /\ queue[j].call = queue[i].call
                      /\ queue[j].emit = "create"

SignalsReachClients ==
  \A i \in DOMAIN queue :
    queue[i].emit # "create" =>
      CreatesBefore(i) \/ queue[i].call \in call_connections

(* The clients are told "missed" of exactly the incoming calls that ended   *)
(* unanswered and that the user did not reject (the wait in OnCleared makes *)
(* sure that `outgoing` is set when it is read).                            *)
VerdictIsRight ==
  \A c \in Calls : told[c] \in Abstract!Over =>
    (told[c] = "missed" <=> /\ origin[c] = "network"
                            /\ ~IsEstablished(c)
                            /\ end_reason[c] # "AnswerDenied")

(* Every call that ends is reported to the clients as over: OnCleared's     *)
(* wait loop ends, and the main loop gets to the closure.  Two cases are    *)
(* left out, in which the code does not see to it: a call that OPAL refuses *)
(* is never set up, so that its OnCleared waits for ever, and one that was  *)
(* deleted with a closure still queued may bring the program down.          *)
EndIsReported ==
  \A c \in Calls :
    end_reason[c] # "none" ~> \/ told[c] \in Abstract!Over
                             \/ setup_pc[c] = "refused"
                             \/ \E i \in DOMAIN queue : IsDangling(queue[i])

(* The comment at opal-call-manager.cpp:753 leaves the deletion of a call to *)
(* OPAL, "we must not delete them ourselves"; nothing makes it come after    *)
(* the closures that name the call.                                          *)
NoClosureDangles == \A i \in DOMAIN queue : ~IsDangling(queue[i])

(* call.h:203 says "Signal emitted when an established call is cleared".   *)
(* The code does not keep that: OnCleared emits it for an unanswered        *)
(* outgoing call and for an incoming one that the user rejects.             *)
ClearedWasEstablished ==
  \A c \in Calls : told[c] = "cleared" => IsEstablished(c)
=============================================================================
