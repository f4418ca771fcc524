--------------------------- MODULE OpalCall_proofs ---------------------------
(***************************************************************************)
(* Theorems about OpalCall, for any set of calls.  The invariants of the   *)
(* specification say what the clients of CallCore were told; none of them  *)
(* is inductive, because what they will be told is still in the queue.     *)
(* IInv says, for every call, how what was told, what is queued and where  *)
(* the callbacks are fit together.                                         *)
(***************************************************************************)
EXTENDS OpalCall, TLAPS

(* The closure at place i of the queue emits the signal e of the call c. *)
At(i, c, e) == queue[i].call = c /\ queue[i].emit = e

Posted(c, e) == \E i \in DOMAIN queue : At(i, c, e)

Ends == {"cleared", "missed"}

(* The signals that may come after each one, and after what was told.  *)
MayFollow(e) ==
  CASE e \in {"create", "nothing"} ->
           {"setup", "ringing", "established", "held", "retrieved"} \cup Ends
    [] e = "setup"   -> {"ringing", "established", "held", "retrieved"} \cup Ends
    [] e = "ringing" -> {"ringing", "established", "held", "retrieved", "cleared"}
    [] e \in {"established", "held", "retrieved"} ->
           {"held", "retrieved", "cleared"}
    [] OTHER -> {}

-----------------------------------------------------------------------------
(* The order of a call's closures in the queue, and after what was told. *)
QueueInOrder ==
  \A i, j \in DOMAIN queue :
    i < j /\ queue[i].call = queue[j].call
      => queue[j].emit \in MayFollow(queue[i].emit)

QueueAfterTold ==
  \A i \in DOMAIN queue :
    queue[i].emit # "create" =>
      queue[i].emit \in MayFollow(told[queue[i].call])

(* A signal is queued behind the ones it presupposes, or they were told. *)
SetupFirst ==
  \A i \in DOMAIN queue :
    queue[i].emit \notin {"create", "setup"} =>
      \/ told[queue[i].call] # "nothing"
      \/ \E j \in 1 .. (i - 1) : At(j, queue[i].call, "setup")

EstablishedFirst ==
  \A i \in DOMAIN queue :
    queue[i].emit \in {"held", "retrieved"} =>
      \/ told[queue[i].call] \in {"established", "held"}
      \/ \E j \in 1 .. (i - 1) : At(j, queue[i].call, "established")

(* What the callbacks have posted so far, for one call. *)
NotCreated(c) ==
  origin[c] = "none" =>
    /\ setup_pc[c] = "idle" /\ end_reason[c] = "none" /\ clear_pc[c] = "idle"
    /\ timer[c] = "off"
    /\ told[c] = "nothing" /\ c \notin call_connections
    /\ \A e \in Emits : ~Posted(c, e)

Created(c) ==
  origin[c] # "none" =>
    c \in call_connections \/ Posted(c, "create") \/ told[c] = "cleared"

NotSetUp(c) ==
  setup_pc[c] \in {"idle", "accepted", "refused"} =>
    /\ ~call_setup[c] /\ told[c] = "nothing" /\ progress[c] = "idle"
    /\ \A e \in Emits \ {"create"} : ~Posted(c, e)

SetUp(c) ==
  setup_pc[c] \notin {"idle", "accepted", "refused"} =>
    /\ outgoing[c] <=> origin[c] = "local"
    /\ told[c] # "nothing" \/ Posted(c, "setup")

NotRinging(c) ==
  origin[c] = "network" =>
    progress[c] # "alerting" /\ told[c] # "ringing" /\ ~Posted(c, "ringing")

NotEstablished(c) ==
  ~IsEstablished(c) =>
    /\ told[c] \notin {"established", "held"}
    /\ \A e \in {"established", "held", "retrieved"} : ~Posted(c, e)

EstablishedPosted(c) ==
  IsEstablished(c) =>
    \/ told[c] \in {"established", "held"} \cup Ends
    \/ Posted(c, "established")

NotEnded(c) ==
  clear_pc[c] \in {"idle", "waiting"} =>
    /\ told[c] \notin Ends
    /\ \A e \in Ends : ~Posted(c, e)

Ended(c) ==
  /\ clear_pc[c] # "idle" => end_reason[c] # "none"
  /\ clear_pc[c] \in {"returned", "destroyed"} => call_setup[c]
  /\ clear_pc[c] \in {"returned", "destroyed"} =>
       told[c] \in Ends \/ Posted(c, "cleared") \/ Posted(c, "missed")

CallConsistent(c) ==
  /\ NotCreated(c) /\ Created(c)
  /\ NotSetUp(c) /\ SetUp(c)
  /\ NotRinging(c)
  /\ NotEstablished(c) /\ EstablishedPosted(c)
  /\ NotEnded(c) /\ Ended(c)

(* The verdict that is told or about to be told. *)
MissedIs(c) == /\ origin[c] = "network"
               /\ ~IsEstablished(c)
               /\ end_reason[c] # "AnswerDenied"

QueuedVerdict ==
  \A c \in Calls : /\ Posted(c, "missed") => MissedIs(c)
                   /\ Posted(c, "cleared") => ~MissedIs(c)

QueueInv == /\ QueueInOrder /\ QueueAfterTold
            /\ SetupFirst /\ EstablishedFirst
            /\ SignalsReachClients

IInv == /\ TypeOK
        /\ QueueInv
        /\ \A c \in Calls : CallConsistent(c)
        /\ QueuedVerdict
        /\ VerdictIsRight
-----------------------------------------------------------------------------
(* Posting a closure, and taking the first one. *)

LEMMA AppendFacts ==
  ASSUME TypeOK, NEW c \in Calls, NEW e \in Emits, run_in_main(c, e)
  PROVE  /\ queue' \in Seq(Closure)
         /\ Len(queue') = Len(queue) + 1
         /\ DOMAIN queue = 1 .. Len(queue)
         /\ DOMAIN queue' = 1 .. Len(queue) + 1
         /\ \A i \in 1 .. Len(queue) : queue'[i] = queue[i]
         /\ queue'[Len(queue) + 1].call = c
         /\ queue'[Len(queue) + 1].emit = e
         /\ Len(queue) \in Nat
BY DEF TypeOK, run_in_main, Closure

LEMMA TailFacts ==
  ASSUME TypeOK, queue # <<>>, queue' = Tail(queue)
  PROVE  /\ queue' \in Seq(Closure)
         /\ Len(queue) \in Nat \ {0}
         /\ DOMAIN queue = 1 .. Len(queue)
         /\ DOMAIN queue' = 1 .. Len(queue) - 1
         /\ \A i \in 1 .. Len(queue) - 1 : queue'[i] = queue[i + 1]
         /\ Head(queue) = queue[1]
         /\ queue[1] \in Closure
BY DEF TypeOK

LEMMA TypeStep == TypeOK /\ [Next]_vars => TypeOK'
<1> SUFFICES ASSUME TypeOK, [Next]_vars PROVE TypeOK'
  OBVIOUS
<1>1. CASE dispatch
  <2>1. Head(queue) \in Closure
    BY <1>1, TailFacts DEF dispatch
  <2>2. run(Head(queue).call, Head(queue).emit)
    BY <1>1 DEF dispatch
  <2>3. PICK c \in Calls, e \in Emits : run(c, e)
    BY <2>1, <2>2 DEF Closure
  <2>4. /\ told' \in [Calls -> Abstract!Told]
        /\ call_connections' \subseteq Calls
    <3> USE DEF TypeOK, Forward, Abstract!Told, Abstract!Live, Abstract!Over
    <3>1. CASE create_call_in_main(c)
      BY <3>1 DEF create_call_in_main
    <3>2. CASE emit_cleared_in_main(c)
      BY <3>2 DEF emit_cleared_in_main
    <3>3. CASE emit_missed_in_main(c)
      BY <3>3 DEF emit_missed_in_main
    <3>4. CASE e \in {"setup", "ringing", "established", "held", "retrieved"}
               /\ emit_in_main(c, Signal(e))
      <4>1. Signal(e) \in Abstract!Told
        BY <3>4 DEF Signal
      <4> QED
        BY <3>4, <4>1 DEF emit_in_main
    <3> QED
      BY <2>3, <3>1, <3>2, <3>3, <3>4 DEF run
  <2> QED
    BY <1>1, <2>4, TailFacts DEF dispatch, callVars, TypeOK
<1>2. ASSUME NEW c \in Calls, OpalStep(c) PROVE TypeOK'
  <2> USE DEF TypeOK
  <2>1. CASE CreateCall(c)
    BY <2>1, AppendFacts DEF CreateCall, Emits
  <2>2. CASE OnIncomingConnection(c)
    BY <2>2 DEF OnIncomingConnection, Clear, coreVars, Reasons
  <2>3. CASE OnSetUp(c)
    BY <2>3, AppendFacts DEF OnSetUp, Emits
  <2>4. CASE OnSetUpDone(c)
    BY <2>4 DEF OnSetUpDone, coreVars
  <2>5. CASE DoSetUp(c)
    BY <2>5 DEF DoSetUp, coreVars
  <2>6. CASE OnAlerting(c)
    BY <2>6, AppendFacts DEF OnAlerting, Emits
  <2>7. CASE OnAnswerCall(c)
    BY <2>7 DEF OnAnswerCall, coreVars
  <2>8. CASE OnEstablished(c)
    BY <2>8, AppendFacts DEF OnEstablished, StopTimer, Emits
  <2>9. CASE OnHold(c)
    BY <2>9, AppendFacts DEF OnHold, callVars, Emits
  <2>10. CASE RemoteRelease(c)
    BY <2>10 DEF RemoteRelease, Clear, coreVars, Reasons
  <2>11. CASE TimerExpires(c)
    BY <2>11 DEF TimerExpires, coreVars
  <2>12. CASE OnNoAnswerTimeout(c)
    BY <2>12 DEF OnNoAnswerTimeout, Clear, coreVars, Reasons
  <2>13. CASE OnCleared(c)
    BY <2>13 DEF OnCleared, StopTimer, coreVars
  <2>14. CASE OnClearedDone(c)
    BY <2>14, AppendFacts DEF OnClearedDone, Ending, Emits
  <2>15. CASE DestroyCall(c)
    BY <2>15 DEF DestroyCall, coreVars
  <2>16. CASE RefuseIncoming(c)
    BY <2>16 DEF RefuseIncoming, Clear, coreVars, Reasons
  <2> QED
    BY <1>2, <2>1, <2>2, <2>3, <2>4, <2>5, <2>6, <2>7, <2>8, <2>9, <2>10,
       <2>11, <2>12, <2>13, <2>14, <2>15, <2>16 DEF OpalStep
<1>3. ASSUME NEW c \in Calls, UserStep(c) PROVE TypeOK'
  BY <1>3 DEF UserStep, answer, hang_up, Clear, coreVars, Reasons, TypeOK
<1>4. CASE UNCHANGED vars
  BY <1>4 DEF vars, TypeOK
<1> QED
  BY <1>1, <1>2, <1>3, <1>4 DEF Next

(* Every variable keeps its type. *)
THEOREM TypeCorrect == Spec => []TypeOK
<1>1. Init => TypeOK
  BY DEF Init, TypeOK, Abstract!Told
<1> QED
  BY <1>1, TypeStep, PTL DEF Spec
-----------------------------------------------------------------------------
(* The queue's invariant, for the two things that happen to a queue. *)

(* What a callback must know before it posts the closure e of call c. *)
MayPost(c, e) ==
  /\ \A f \in Emits : Posted(c, f) => e \in MayFollow(f)
  /\ e # "create" => /\ e \in MayFollow(told[c])
                     /\ c \in call_connections \/ Posted(c, "create")
  /\ e \notin {"create", "setup"} => told[c] # "nothing" \/ Posted(c, "setup")
  /\ e \in {"held", "retrieved"} =>
       told[c] \in {"established", "held"} \/ Posted(c, "established")

LEMMA PostKeepsQueueInv ==
  ASSUME TypeOK, QueueInv, NEW c \in Calls, NEW e \in Emits,
         run_in_main(c, e), UNCHANGED <<told, call_connections>>, MayPost(c, e)
  PROVE  QueueInv'
<1> DEFINE n == Len(queue)
<1>0. /\ n \in Nat
      /\ DOMAIN queue = 1 .. n /\ DOMAIN queue' = 1 .. n + 1
      /\ \A i \in 1 .. n : queue'[i] = queue[i]
      /\ queue'[n + 1].call = c /\ queue'[n + 1].emit = e
  BY AppendFacts
<1> HIDE DEF n
<1>1. QueueInOrder'
  <2>1. \A i \in 1 .. n : queue[i].emit \in Emits
    <3>1. \A i \in 1 .. n : queue[i] \in Closure
      BY <1>0 DEF TypeOK
    <3> QED
      BY <3>1 DEF Closure
  <2>2. \A i \in 1 .. n : queue[i].call = c => e \in MayFollow(queue[i].emit)
    BY <2>1, <1>0 DEF MayPost, Posted, At
  <2> QED
    BY <1>0, <2>2 DEF QueueInOrder, QueueInv, MayFollow
<1>2. QueueAfterTold'
  BY <1>0 DEF QueueAfterTold, QueueInv, MayPost, MayFollow
<1>3. SetupFirst'
  <2> SUFFICES ASSUME NEW i \in 1 .. n + 1,
                      queue'[i].emit \notin {"create", "setup"},
                      told[queue'[i].call] = "nothing"
               PROVE  \E j \in 1 .. (i - 1) : /\ queue'[j].call = queue'[i].call
                                              /\ queue'[j].emit = "setup"
    BY <1>0 DEF SetupFirst, At
  <2>1. CASE i = n + 1
    BY <2>1, <1>0 DEF MayPost, Posted, At
  <2>2. CASE i \in 1 .. n
    <3>1. PICK j \in 1 .. (i - 1) : At(j, queue[i].call, "setup")
      BY <2>2, <1>0 DEF QueueInv, SetupFirst
    <3> QED
      BY <3>1, <2>2, <1>0 DEF At
  <2> QED
    BY <2>1, <2>2, <1>0
<1>4. EstablishedFirst'
  <2> SUFFICES ASSUME NEW i \in 1 .. n + 1,
                      queue'[i].emit \in {"held", "retrieved"},
                      told[queue'[i].call] \notin {"established", "held"}
               PROVE  \E j \in 1 .. (i - 1) : /\ queue'[j].call = queue'[i].call
                                              /\ queue'[j].emit = "established"
    BY <1>0 DEF EstablishedFirst, At
  <2>1. CASE i = n + 1
    BY <2>1, <1>0 DEF MayPost, Posted, At
  <2>2. CASE i \in 1 .. n
    <3>1. PICK j \in 1 .. (i - 1) : At(j, queue[i].call, "established")
      BY <2>2, <1>0 DEF QueueInv, EstablishedFirst
    <3> QED
      BY <3>1, <2>2, <1>0 DEF At
  <2> QED
    BY <2>1, <2>2, <1>0
<1>5. SignalsReachClients'
  <2> SUFFICES ASSUME NEW i \in 1 .. n + 1, queue'[i].emit # "create",
                      queue'[i].call \notin call_connections
               PROVE  CreatesBefore(i)'
    BY <1>0 DEF SignalsReachClients
  <2>1. CASE i = n + 1
    BY <2>1, <1>0 DEF MayPost, Posted, At, CreatesBefore
  <2>2. CASE i \in 1 .. n
    <3>1. CreatesBefore(i)
      BY <2>2, <1>0 DEF QueueInv, SignalsReachClients
    <3> QED
      BY <3>1, <2>2, <1>0 DEF CreatesBefore
  <2> QED
    BY <2>1, <2>2, <1>0
<1> QED
  BY <1>1, <1>2, <1>3, <1>4, <1>5 DEF QueueInv

(* What the clients are told when the main loop takes the first closure. *)
Tells(c, before, signal) == told[c] \in before /\ told' = [told EXCEPT ![c] = signal]

Hears(c, e) ==
  \/ e = "create" /\ UNCHANGED told
  \/ e = "setup" /\ Tells(c, {"nothing"}, "setup")
  \/ e = "ringing" /\ Tells(c, {"setup", "ringing"}, "ringing")
  \/ e = "established" /\ Tells(c, {"setup", "ringing"}, "established")
  \/ e = "held" /\ Tells(c, {"established", "held"}, "held")
  \/ e = "retrieved" /\ Tells(c, {"established", "held"}, "established")
  \/ e = "cleared" /\ Tells(c, Abstract!Live, "cleared")
  \/ e = "missed" /\ Tells(c, {"setup"}, "missed")

LEMMA DispatchIsHeard ==
  ASSUME TypeOK, QueueInv, dispatch
  PROVE  /\ queue[1] \in Closure
         /\ Hears(queue[1].call, queue[1].emit)
         /\ queue[1].emit = "create" =>
              call_connections' = call_connections \cup {queue[1].call}
         /\ queue[1].emit = "cleared" =>
              call_connections' = call_connections \ {queue[1].call}
         /\ queue[1].emit \notin {"create", "cleared"} =>
              UNCHANGED call_connections
<1>0. /\ queue[1] \in Closure /\ Head(queue) = queue[1]
      /\ 1 \in DOMAIN queue /\ 1 .. (1 - 1) = {}
  BY TailFacts DEF dispatch
<1> DEFINE c == queue[1].call
           e == queue[1].emit
<1>1. run(c, e)
  BY <1>0 DEF dispatch
<1>2. e # "create" => c \in call_connections
  BY <1>0 DEF QueueInv, SignalsReachClients, CreatesBefore
<1>3. e # "create" => e \in MayFollow(told[c])
  BY <1>0 DEF QueueInv, QueueAfterTold
<1>4. e \notin {"create", "setup"} => told[c] # "nothing"
  BY <1>0 DEF QueueInv, SetupFirst
<1>5. e \in {"held", "retrieved"} => told[c] \in {"established", "held"}
  BY <1>0 DEF QueueInv, EstablishedFirst
<1>6. told[c] \in Abstract!Told /\ c \in Calls /\ e \in Emits
  BY <1>0 DEF TypeOK, Closure
<1> HIDE DEF c, e
<1>7. Hears(c, e)
  BY <1>1, <1>2, <1>3, <1>4, <1>5, <1>6
  DEF Hears, run, Signal, create_call_in_main, emit_in_main,
      emit_cleared_in_main, emit_missed_in_main, Forward, MayFollow, Ends, Emits, Abstract!Told,
      Abstract!Live, Abstract!Over, Tells
<1>8. /\ e = "create" => call_connections' = call_connections \cup {c}
      /\ e = "cleared" => call_connections' = call_connections \ {c}
      /\ e \notin {"create", "cleared"} => UNCHANGED call_connections
  BY <1>1, <1>6 DEF run, create_call_in_main, emit_in_main,
     emit_cleared_in_main, emit_missed_in_main, Emits
<1> QED
  BY <1>0, <1>7, <1>8 DEF c, e

LEMMA DispatchKeepsQueueInv ==
  ASSUME TypeOK, QueueInv, dispatch
  PROVE  QueueInv'
<1> DEFINE n == Len(queue)
           c == queue[1].call
           e == queue[1].emit
<1>0. /\ n \in Nat \ {0}
      /\ DOMAIN queue = 1 .. n /\ DOMAIN queue' = 1 .. n - 1
      /\ \A i \in 1 .. n - 1 : queue'[i] = queue[i + 1]
      /\ 1 \in DOMAIN queue
      /\ \A i \in 1 .. n - 1 : i + 1 \in 1 .. n /\ 1 < i + 1
  BY TailFacts DEF dispatch
<1>1. /\ c \in Calls /\ e \in Emits
      /\ Hears(c, e)
      /\ e = "create" => call_connections' = call_connections \cup {c}
      /\ e = "cleared" => call_connections' = call_connections \ {c}
      /\ e \notin {"create", "cleared"} => UNCHANGED call_connections
  BY DispatchIsHeard DEF Closure
<1>2. \A i \in 1 .. n - 1 :
        queue[i + 1].call = c => queue[i + 1].emit \in MayFollow(e)
  BY <1>0 DEF QueueInv, QueueInOrder
<1>3. \A d \in Calls \ {c} : told'[d] = told[d]
  BY <1>1 DEF Hears, Tells, TypeOK
<1>4. /\ e = "create" => told' = told
      /\ e \notin {"create", "retrieved"} => told'[c] = e
      /\ e = "retrieved" => told'[c] = "established"
  BY <1>1 DEF Hears, Tells, TypeOK, Emits
<1>5. \A i \in 1 .. n : queue[i].call \in Calls /\ queue[i].emit \in Emits
  <2>1. \A i \in 1 .. n : queue[i] \in Closure
    BY <1>0 DEF TypeOK
  <2> QED
    BY <2>1 DEF Closure
<1> HIDE DEF n
<1>5a. \A i \in 1 .. n - 1 : \A j \in 1 .. (i - 1) : queue'[j] = queue[j + 1]
  BY <1>0
<1>6. QueueInOrder'
  <2> SUFFICES ASSUME NEW i \in 1 .. n - 1, NEW j \in 1 .. n - 1, i < j,
                      queue[i + 1].call = queue[j + 1].call
               PROVE  queue[j + 1].emit \in MayFollow(queue[i + 1].emit)
    BY <1>0 DEF QueueInOrder, MayFollow
  <2>1. i + 1 \in 1 .. n /\ j + 1 \in 1 .. n /\ i + 1 < j + 1
    BY <1>0
  <2> QED
    BY <2>1, <1>0 DEF QueueInOrder, QueueInv
<1>7. QueueAfterTold'
  <2> SUFFICES ASSUME NEW i \in 1 .. n - 1, queue[i + 1].emit # "create"
               PROVE  queue[i + 1].emit \in MayFollow(told'[queue[i + 1].call])
    BY <1>0 DEF QueueAfterTold, MayFollow
  <2>1. CASE queue[i + 1].call = c
    <3>1. queue[i + 1].emit \in MayFollow(e)
      BY <2>1, <1>2
    <3>2. queue[i + 1].emit \in MayFollow(told[c])
      BY <2>1, <1>0 DEF QueueInv, QueueAfterTold
    <3>3. e = "create" \/ MayFollow(told'[c]) = MayFollow(e)
      BY <1>4 DEF MayFollow
    <3> QED
      BY <2>1, <3>1, <3>2, <3>3, <1>4
  <2>2. CASE queue[i + 1].call # c
    BY <2>2, <1>0, <1>3, <1>5 DEF QueueInv, QueueAfterTold
  <2> QED
    BY <2>1, <2>2
<1>8. SetupFirst'
  <2> SUFFICES ASSUME NEW i \in 1 .. n - 1,
                      queue'[i].emit \notin {"create", "setup"},
                      told'[queue'[i].call] = "nothing"
               PROVE  \E j \in 1 .. (i - 1) : /\ queue'[j].call = queue'[i].call
                                              /\ queue'[j].emit = "setup"
    BY <1>0 DEF SetupFirst, At
  <2>0. queue'[i] = queue[i + 1]
    BY <1>0
  <2>1. told[queue[i + 1].call] = "nothing"
    BY <2>0, <1>3, <1>4, <1>5, <1>0, <1>1 DEF Emits
  <2>2. PICK j \in 1 .. i : At(j, queue[i + 1].call, "setup")
    BY <2>0, <2>1, <1>0 DEF QueueInv, SetupFirst
  <2>3. j # 1
    BY <2>2, <2>0, <1>4, <1>1 DEF At
  <2>4. j - 1 \in 1 .. (i - 1) /\ (j - 1) + 1 = j
    BY <2>3, <1>0
  <2>5. queue'[j - 1] = queue[j]
    BY <2>4, <1>5a
  <2> QED
    BY <2>0, <2>2, <2>4, <2>5 DEF At
<1>9. EstablishedFirst'
  <2> SUFFICES ASSUME NEW i \in 1 .. n - 1,
                      queue'[i].emit \in {"held", "retrieved"},
                      told'[queue'[i].call] \notin {"established", "held"}
               PROVE  \E j \in 1 .. (i - 1) : /\ queue'[j].call = queue'[i].call
                                              /\ queue'[j].emit = "established"
    BY <1>0 DEF EstablishedFirst, At
  <2>0. queue'[i] = queue[i + 1]
    BY <1>0
  <2>1. told[queue[i + 1].call] \notin {"established", "held"}
    <3>1. CASE queue[i + 1].call # c
      BY <3>1, <2>0, <1>3, <1>5, <1>0
    <3>2. CASE queue[i + 1].call = c
      <4>1. queue[i + 1].emit \in MayFollow(e)
        BY <3>2, <1>2
      <4>2. e = "create" \/ e \in {"setup", "ringing"}
        BY <4>1, <3>2, <2>0, <1>4, <1>1 DEF MayFollow, Emits, Ends
      <4> QED
        BY <4>2, <3>2, <2>0, <1>1, <1>4 DEF Hears, Tells
    <3> QED
      BY <3>1, <3>2
  <2>2. PICK j \in 1 .. i : At(j, queue[i + 1].call, "established")
    BY <2>0, <2>1, <1>0 DEF QueueInv, EstablishedFirst
  <2>3. j # 1
    BY <2>2, <2>0, <1>4 DEF At
  <2>4. j - 1 \in 1 .. (i - 1) /\ (j - 1) + 1 = j
    BY <2>3, <1>0
  <2>5. queue'[j - 1] = queue[j]
    BY <2>4, <1>5a
  <2> QED
    BY <2>0, <2>2, <2>4, <2>5 DEF At
<1>10. SignalsReachClients'
  <2> SUFFICES ASSUME NEW i \in 1 .. n - 1, queue[i + 1].emit # "create",
                      queue[i + 1].call \notin call_connections'
               PROVE  \E j \in 1 .. (i - 1) :
                         At(j + 1, queue[i + 1].call, "create")
    <3>1. DOMAIN queue' = 1 .. n - 1 /\ \A i \in 1 .. n - 1 : queue'[i] = queue[i + 1]
      BY <1>0
    <3> QED
      BY <3>1, <1>5a, ZenonT(60) DEF SignalsReachClients, CreatesBefore, At
  <2>1. queue[i + 1].call \notin call_connections
    <3>1. queue[i + 1].call # c \/ e # "cleared"
      BY <1>2 DEF MayFollow
    <3> QED
      BY <3>1, <1>1
  <2>2. PICK j \in 1 .. i : At(j, queue[i + 1].call, "create")
    BY <2>1, <1>0 DEF QueueInv, SignalsReachClients, CreatesBefore, At
  <2>3. j # 1
    BY <2>2, <1>1 DEF At
  <2>4. j - 1 \in 1 .. (i - 1) /\ (j - 1) + 1 = j
    BY <2>3, <1>0
  <2> QED
    BY <2>2, <2>4
<1> QED
  BY <1>6, <1>7, <1>8, <1>9, <1>10 DEF QueueInv
-----------------------------------------------------------------------------
(* The inductive invariant *)

LEMMA PostedAfterPost ==
  ASSUME TypeOK, NEW c \in Calls, NEW e \in Emits, run_in_main(c, e),
         NEW d \in Calls, NEW f \in Emits
  PROVE  Posted(d, f)' <=> Posted(d, f) \/ (d = c /\ f = e)
BY AppendFacts DEF Posted, At

LEMMA PostedAfterDispatch ==
  ASSUME TypeOK, dispatch, NEW d \in Calls, NEW f \in Emits
  PROVE  /\ Posted(d, f)' => Posted(d, f)
         /\ Posted(d, f) => Posted(d, f)' \/ At(1, d, f)
         /\ At(1, d, f) => Posted(d, f)
<1>0. /\ Len(queue) \in Nat \ {0}
      /\ DOMAIN queue = 1 .. Len(queue) /\ DOMAIN queue' = 1 .. Len(queue) - 1
      /\ \A i \in 1 .. Len(queue) - 1 : queue'[i] = queue[i + 1]
  BY TailFacts DEF dispatch
<1> DEFINE n == Len(queue)
<1> HIDE DEF n
<1>1. \A i \in 1 .. n - 1 : i + 1 \in 1 .. n
  BY <1>0 DEF n
<1>2. \A i \in 1 .. n : i = 1 \/ (i - 1 \in 1 .. n - 1 /\ (i - 1) + 1 = i)
  BY <1>0 DEF n
<1>3. Posted(d, f)' => Posted(d, f)
  BY <1>0, <1>1 DEF Posted, At, n
<1>4. ASSUME NEW i \in 1 .. n, At(i, d, f), i # 1
      PROVE  Posted(d, f)'
  <2>1. i - 1 \in DOMAIN queue' /\ queue'[i - 1] = queue[i]
    BY <1>0, <1>2, <1>4 DEF n
  <2> QED
    BY <2>1, <1>4 DEF Posted, At
<1>5. Posted(d, f) => Posted(d, f)' \/ At(1, d, f)
  BY <1>0, <1>4 DEF Posted, n
<1> QED
  BY <1>0, <1>3, <1>5 DEF Posted, n

LEMMA InitIInv == Init => IInv
<1> SUFFICES ASSUME Init PROVE IInv
  OBVIOUS
<1>1. DOMAIN queue = {}
  BY DEF Init
<1>2. TypeOK
  BY DEF Init, TypeOK, Abstract!Told
<1>3. QueueInv
  BY <1>1 DEF QueueInv, QueueInOrder, QueueAfterTold, SetupFirst,
     EstablishedFirst, SignalsReachClients
<1>4. \A c \in Calls, e \in Emits : ~Posted(c, e)
  BY <1>1 DEF Posted
<1>5. \A c \in Calls : CallConsistent(c)
  BY <1>4 DEF Init, CallConsistent, NotCreated, Created, NotSetUp, SetUp,
     NotRinging, NotEstablished, EstablishedPosted, NotEnded, Ended,
     IsEstablished, Ends, Emits
<1>6. QueuedVerdict /\ VerdictIsRight
  BY <1>4 DEF QueuedVerdict, VerdictIsRight, Init, Emits, Abstract!Over
<1> QED
  BY <1>2, <1>3, <1>5, <1>6 DEF IInv

(* A callback that posts nothing. *)
LEMMA SilentStep ==
  ASSUME IInv, NEW c \in Calls,
         \/ OnIncomingConnection(c) \/ RefuseIncoming(c)
         \/ OnSetUpDone(c) \/ DoSetUp(c)
         \/ OnAnswerCall(c) \/ RemoteRelease(c) \/ TimerExpires(c)
         \/ OnNoAnswerTimeout(c) \/ OnCleared(c) \/ DestroyCall(c)
         \/ answer(c) \/ hang_up(c)
  PROVE  /\ UNCHANGED coreVars
         /\ \A d \in Calls : CallConsistent(d)'
         /\ QueuedVerdict' /\ VerdictIsRight'
<1>1. UNCHANGED coreVars
  BY DEF OnIncomingConnection, RefuseIncoming, OnSetUpDone, DoSetUp,
     OnAnswerCall, RemoteRelease, TimerExpires, OnNoAnswerTimeout, OnCleared, DestroyCall,
     answer, hang_up, coreVars
<1>2. /\ told' = told /\ call_connections' = call_connections
      /\ \A d \in Calls, e \in Emits : Posted(d, e)' = Posted(d, e)
  BY <1>1 DEF coreVars, Posted, At
<1>3. /\ TypeOK
      /\ \A d \in Calls : CallConsistent(d)
      /\ QueuedVerdict /\ VerdictIsRight
  BY DEF IInv
<1> USE <1>1, <1>2, <1>3
    DEF CallConsistent, NotCreated, Created, NotSetUp, SetUp, NotRinging,
        NotEstablished, EstablishedPosted, NotEnded, Ended, QueuedVerdict,
        VerdictIsRight, MissedIs, IsEstablished, On, Ends, Emits, TypeOK,
        Abstract!Over
<1> DEFINE Kept == /\ \A d \in Calls : CallConsistent(d)'
                   /\ QueuedVerdict' /\ VerdictIsRight'
<1>4. CASE OnIncomingConnection(c)
  <2>1. /\ origin[c] = "network" /\ setup_pc[c] = "idle"
        /\ setup_pc' = [setup_pc EXCEPT ![c] = "accepted"]
        /\ UNCHANGED <<origin, outgoing, call_setup, progress, clear_pc>>
        /\ \A d \in Calls \ {c} : timer'[d] = timer[d]
    BY <1>4 DEF OnIncomingConnection
  <2>2. \/ UNCHANGED end_reason
        \/ Clear(c, "CallForwarded")
        \/ Clear(c, "LocalBusy")
    BY <1>4 DEF OnIncomingConnection
  <2>3. /\ \A d \in Calls \ {c} : end_reason'[d] = end_reason[d]
        /\ end_reason[c] # "none" => end_reason'[c] = end_reason[c]
    BY <2>2 DEF Clear
  <2> QED
    BY <2>1, <2>3
<1>5. CASE OnSetUpDone(c)
  BY <1>5 DEF OnSetUpDone
<1>6. CASE DoSetUp(c)
  BY <1>6 DEF DoSetUp
<1>7. CASE OnAnswerCall(c)
  BY <1>7 DEF OnAnswerCall
<1>8. CASE RemoteRelease(c)
  BY <1>8 DEF RemoteRelease, Clear
<1>9. CASE TimerExpires(c)
  BY <1>9 DEF TimerExpires
<1>10. CASE OnNoAnswerTimeout(c)
  <2>1. /\ origin[c] # "none"
        /\ timer' = [timer EXCEPT ![c] = "off"]
        /\ UNCHANGED <<origin, outgoing, setup_pc, call_setup, progress, clear_pc>>
    BY <1>10 DEF OnNoAnswerTimeout
  <2>2. UNCHANGED end_reason \/ Clear(c, "CallForwarded") \/ Clear(c, "NoAnswer")
    BY <1>10 DEF OnNoAnswerTimeout
  <2>3. /\ \A d \in Calls \ {c} : end_reason'[d] = end_reason[d]
        /\ end_reason[c] # "none" => end_reason'[c] = end_reason[c]
    BY <2>2 DEF Clear
  <2>4. \A d \in Calls : CallConsistent(d)'
    BY <2>1, <2>3
  <2>5. \A d \in Calls : end_reason[d] = "none" =>
          told[d] \notin Ends /\ \A e \in Ends : ~Posted(d, e)
    OBVIOUS
  <2>6. QueuedVerdict'
    BY <2>1, <2>3, <2>5
  <2>7. VerdictIsRight'
    BY <2>1, <2>3, <2>5
  <2> QED
    BY <2>4, <2>6, <2>7
<1>11. CASE OnCleared(c)
  BY <1>11 DEF OnCleared, StopTimer
<1>12. CASE DestroyCall(c)
  BY <1>12 DEF DestroyCall
<1>13. CASE answer(c)
  BY <1>13 DEF answer
<1>14. CASE hang_up(c)
  BY <1>14 DEF hang_up, Clear
<1>15. CASE RefuseIncoming(c)
  BY <1>15 DEF RefuseIncoming, Clear
<1> QED
  BY <1>4, <1>5, <1>6, <1>7, <1>8, <1>9, <1>10, <1>11, <1>12, <1>13, <1>14,
     <1>15

(* A callback that posts a closure may post it. *)
LEMMA PostingStep ==
  ASSUME IInv, NEW c \in Calls,
         \/ CreateCall(c) \/ OnSetUp(c) \/ OnAlerting(c)
         \/ OnEstablished(c) \/ OnHold(c) \/ OnClearedDone(c)
  PROVE  \E e \in Emits : /\ run_in_main(c, e)
                          /\ UNCHANGED <<told, call_connections>>
                          /\ MayPost(c, e)
<1>1. /\ TypeOK
      /\ CallConsistent(c)
  BY DEF IInv
<1> USE <1>1
    DEF CallConsistent, NotCreated, Created, NotSetUp, SetUp, NotRinging,
        NotEstablished, EstablishedPosted, NotEnded, Ended, MissedIs,
        IsEstablished, On, Ends, Emits, TypeOK, MayPost, MayFollow,
        Abstract!Told, Abstract!Live, Abstract!Over
<1>2. CASE CreateCall(c)
  <2>1. MayPost(c, "create")
    BY <1>2 DEF CreateCall
  <2> QED
    BY <1>2, <2>1 DEF CreateCall
<1>3. CASE OnSetUp(c)
  <2>1. MayPost(c, "setup")
    BY <1>3 DEF OnSetUp
  <2> QED
    BY <1>3, <2>1 DEF OnSetUp
<1>4. CASE OnAlerting(c)
  <2>1. MayPost(c, "ringing")
    BY <1>4 DEF OnAlerting
  <2> QED
    BY <1>4, <2>1 DEF OnAlerting
<1>5. CASE OnEstablished(c)
  <2>1. MayPost(c, "established")
    BY <1>5 DEF OnEstablished
  <2> QED
    BY <1>5, <2>1 DEF OnEstablished
<1>6. CASE OnHold(c)
  <2>1. MayPost(c, "held") /\ MayPost(c, "retrieved")
    BY <1>6 DEF OnHold
  <2> QED
    BY <1>6, <2>1 DEF OnHold
<1>7. CASE OnClearedDone(c)
  <2>1. MayPost(c, Ending(c))
    BY <1>7 DEF OnClearedDone, Ending
  <2> QED
    BY <1>7, <2>1 DEF OnClearedDone, Ending
<1> QED
  BY <1>2, <1>3, <1>4, <1>5, <1>6, <1>7

(* ...and what the callbacks have done and what is posted still fit. *)
LEMMA PostingKeepsCalls ==
  ASSUME IInv, NEW c \in Calls,
         \/ CreateCall(c) \/ OnSetUp(c) \/ OnAlerting(c)
         \/ OnEstablished(c) \/ OnHold(c) \/ OnClearedDone(c)
  PROVE  /\ \A d \in Calls : CallConsistent(d)'
         /\ QueuedVerdict' /\ VerdictIsRight'
<1> DEFINE Posts(e) == \A d \in Calls, f \in Emits :
                         Posted(d, f)' <=> Posted(d, f) \/ (d = c /\ f = e)
<1>1. /\ TypeOK
      /\ \A d \in Calls : CallConsistent(d)
      /\ QueuedVerdict /\ VerdictIsRight
  BY DEF IInv
<1>2. \A e \in Emits : run_in_main(c, e) => Posts(e)
  BY <1>1, PostedAfterPost
<1> USE <1>1
    DEF CallConsistent, NotCreated, Created, NotSetUp, SetUp, NotRinging,
        NotEstablished, EstablishedPosted, NotEnded, Ended, QueuedVerdict,
        VerdictIsRight, MissedIs, IsEstablished, On, Ends, Emits, TypeOK,
        Abstract!Over
<1>3. CASE CreateCall(c)
  <2>1. Posts("create")
    BY <1>2, <1>3 DEF CreateCall
  <2> QED
    BY <1>3, <2>1 DEF CreateCall
<1>4. CASE OnSetUp(c)
  <2>1. Posts("setup")
    BY <1>2, <1>4 DEF OnSetUp
  <2>2. /\ origin[c] \in {"network", "local"}
        /\ setup_pc[c] \in {"idle", "accepted"}
        /\ setup_pc' = [setup_pc EXCEPT ![c] = "posted"]
        /\ UNCHANGED <<origin, call_setup, progress, timer, end_reason,
                       clear_pc, call_connections, told>>
    BY <1>4 DEF OnSetUp
  <2>3. outgoing'[c] = (origin[c] # "network")
    BY <1>4 DEF OnSetUp
  <2>4. \A d \in Calls \ {c} : outgoing'[d] = outgoing[d]
    BY <1>4 DEF OnSetUp
  <2>5. outgoing'[c] <=> origin[c] = "local"
    BY <2>2, <2>3, Zenon
  <2>6. \A d \in Calls : CallConsistent(d)'
    BY <2>1, <2>2, <2>4, <2>5
  <2>7. QueuedVerdict' /\ VerdictIsRight'
    BY <2>1, <2>2
  <2> QED
    BY <2>6, <2>7
<1>5. CASE OnAlerting(c)
  <2>1. Posts("ringing")
    BY <1>2, <1>5 DEF OnAlerting
  <2> QED
    BY <1>5, <2>1 DEF OnAlerting
<1>6. CASE OnEstablished(c)
  <2>1. Posts("established")
    BY <1>2, <1>6 DEF OnEstablished
  <2> QED
    BY <1>6, <2>1 DEF OnEstablished, StopTimer
<1>7. CASE OnHold(c)
  <2>1. Posts("held") \/ Posts("retrieved")
    BY <1>2, <1>7 DEF OnHold
  <2> QED
    BY <1>7, <2>1 DEF OnHold, callVars
<1>8. CASE OnClearedDone(c)
  <2>1. Ending(c) \in Ends /\ Posts(Ending(c))
    BY <1>2, <1>8 DEF OnClearedDone, Ending
  <2>2. Ending(c) = "missed" <=> MissedIs(c)
    BY <1>8 DEF OnClearedDone, Ending
  <2>3. /\ clear_pc[c] = "waiting" /\ call_setup[c]
        /\ clear_pc' = [clear_pc EXCEPT ![c] = "returned"]
        /\ UNCHANGED <<origin, outgoing, setup_pc, call_setup, progress, timer,
                       end_reason, call_connections, told>>
    BY <1>8 DEF OnClearedDone
  <2>4. \A d \in Calls : CallConsistent(d)'
    BY <2>1, <2>3
  <2>5. told[c] \notin Ends /\ \A e \in Ends : ~Posted(c, e)
    BY <2>3
  <2>6. QueuedVerdict'
    BY <2>1, <2>2, <2>3, <2>5
  <2>7. VerdictIsRight'
    BY <2>3
  <2> QED
    BY <2>4, <2>6, <2>7
<1> QED
  BY <1>3, <1>4, <1>5, <1>6, <1>7, <1>8

(* The main loop tells a signal: it was posted, now it is told. *)
LEMMA DispatchKeepsCalls ==
  ASSUME IInv, dispatch
  PROVE  /\ \A d \in Calls : CallConsistent(d)'
         /\ QueuedVerdict' /\ VerdictIsRight'
<1>0. PICK c \in Calls, e \in Emits : c = queue[1].call /\ e = queue[1].emit
  BY DispatchIsHeard DEF IInv, Closure
<1>1. /\ TypeOK
      /\ \A d \in Calls : CallConsistent(d)
      /\ QueuedVerdict /\ VerdictIsRight
  BY DEF IInv
<1>2. /\ Hears(c, e)
      /\ e = "create" => call_connections' = call_connections \cup {c}
      /\ e = "cleared" => call_connections' = call_connections \ {c}
      /\ e \notin {"create", "cleared"} => UNCHANGED call_connections
  BY <1>0, DispatchIsHeard DEF IInv
<1>3. \A d \in Calls, f \in Emits : At(1, d, f) <=> d = c /\ f = e
  BY <1>0 DEF At
<1>4. /\ Posted(c, e)
      /\ \A d \in Calls, f \in Emits :
           /\ Posted(d, f)' => Posted(d, f)
           /\ Posted(d, f) => Posted(d, f)' \/ (d = c /\ f = e)
  BY <1>1, <1>3, PostedAfterDispatch
<1>5. UNCHANGED callVars
  BY DEF dispatch
<1> USE DEF Emits, Ends, callVars
<1>6. /\ \A d \in Calls \ {c} : told'[d] = told[d]
      /\ e = "create" => told'[c] = told[c]
      /\ e \in Emits \ {"create", "retrieved"} => told'[c] = e
      /\ e = "retrieved" => told'[c] = "established"
      /\ e # "create" => told[c] \notin Ends
      /\ e = "setup" => told[c] = "nothing"
      /\ e \in {"held", "retrieved"} => told[c] \in {"established", "held"}
  BY <1>1, <1>2 DEF Hears, Tells, TypeOK, Abstract!Live
<1>7. e = "ringing" \/ e = "missed" => told[c] \in {"setup", "ringing"}
  BY <1>2 DEF Hears, Tells
<1>8. ASSUME NEW d \in Calls \ {c} PROVE CallConsistent(d)'
  <2>1. /\ told'[d] = told[d]
        /\ d \in call_connections' <=> d \in call_connections
        /\ \A f \in Emits : Posted(d, f)' <=> Posted(d, f)
    BY <1>2, <1>4, <1>6
  <2> QED
    BY <1>1, <1>5, <2>1 DEF CallConsistent, NotCreated, Created, NotSetUp,
       SetUp, NotRinging, NotEstablished, EstablishedPosted, NotEnded, Ended,
       IsEstablished
<1>9. CallConsistent(c)'
  <2>1. CallConsistent(c)
    BY <1>1, <1>2
  <2>2. NotCreated(c)'
    BY <1>2, <1>4, <1>5, <2>1 DEF CallConsistent, NotCreated
  <2>3. Created(c)'
    BY <1>2, <1>4, <1>5, <1>6, <2>1 DEF CallConsistent, Created
  <2>4. NotSetUp(c)' /\ NotRinging(c)'
    BY <1>2, <1>4, <1>5, <1>6, <2>1 DEF CallConsistent, NotSetUp, NotRinging
  <2>5. SetUp(c)'
    BY <1>2, <1>4, <1>5, <1>6, <2>1 DEF CallConsistent, SetUp
  <2>6. NotEstablished(c)' /\ EstablishedPosted(c)'
    BY <1>2, <1>4, <1>5, <1>6, <1>7, <2>1
    DEF CallConsistent, NotEstablished, EstablishedPosted, IsEstablished
  <2>7. NotEnded(c)' /\ Ended(c)'
    BY <1>2, <1>4, <1>5, <1>6, <2>1 DEF CallConsistent, NotEnded, Ended
  <2> QED
    BY <2>2, <2>3, <2>4, <2>5, <2>6, <2>7 DEF CallConsistent
<1>10. QueuedVerdict'
  BY <1>1, <1>4, <1>5 DEF QueuedVerdict, MissedIs, IsEstablished
<1>11. VerdictIsRight'
  <2>1. /\ e = "missed" => MissedIs(c)
        /\ e = "cleared" => ~MissedIs(c)
    BY <1>1, <1>4 DEF QueuedVerdict
  <2>2. told[c] \in Ends /\ e = "create" => (told[c] = "missed" <=> MissedIs(c))
    BY <1>1 DEF VerdictIsRight, MissedIs, Abstract!Over
  <2>3. told'[c] \in Ends => (told'[c] = "missed" <=> MissedIs(c))
    BY <1>6, <2>1, <2>2
  <2> QED
    BY <1>1, <1>5, <1>6, <2>3
    DEF VerdictIsRight, MissedIs, IsEstablished, Abstract!Over
<1> QED
  BY <1>8, <1>9, <1>10, <1>11
-----------------------------------------------------------------------------
(* The theorems *)

LEMMA InvariantStep == IInv /\ [Next]_vars => IInv'
<1> SUFFICES ASSUME IInv, [Next]_vars PROVE IInv'
  OBVIOUS
<1>1. TypeOK /\ QueueInv
  BY DEF IInv
<1>2. TypeOK'
  BY <1>1, TypeStep
<1>3. CASE dispatch
  BY <1>1, <1>2, <1>3, DispatchKeepsQueueInv, DispatchKeepsCalls DEF IInv
<1>4. ASSUME NEW c \in Calls, OpalStep(c) \/ UserStep(c) PROVE IInv'
  <2>1. CASE \/ CreateCall(c) \/ OnSetUp(c) \/ OnAlerting(c)
             \/ OnEstablished(c) \/ OnHold(c) \/ OnClearedDone(c)
    <3>1. QueueInv'
      BY <1>1, <2>1, PostingStep, PostKeepsQueueInv
    <3> QED
      BY <1>2, <2>1, <3>1, PostingKeepsCalls DEF IInv
  <2>2. CASE \/ OnIncomingConnection(c) \/ RefuseIncoming(c)
             \/ OnSetUpDone(c) \/ DoSetUp(c)
             \/ OnAnswerCall(c) \/ RemoteRelease(c) \/ TimerExpires(c)
             \/ OnNoAnswerTimeout(c) \/ OnCleared(c) \/ DestroyCall(c)
             \/ answer(c) \/ hang_up(c)
    <3>1. UNCHANGED coreVars
      BY <2>2, SilentStep
    <3>2. QueueInv'
      BY <1>1, <3>1 DEF coreVars, QueueInv, QueueInOrder, QueueAfterTold,
         SetupFirst, EstablishedFirst, SignalsReachClients, CreatesBefore, At
    <3> QED
      BY <1>2, <2>2, <3>2, SilentStep DEF IInv
  <2> QED
    BY <1>4, <2>1, <2>2 DEF OpalStep, UserStep
<1>5. CASE UNCHANGED vars
  BY <1>1, <1>2, <1>5 DEF vars, IInv, QueueInv, QueueInOrder, QueueAfterTold,
     SetupFirst, EstablishedFirst, SignalsReachClients, CreatesBefore, At,
     Posted, CallConsistent, NotCreated, Created, NotSetUp, SetUp, NotRinging,
     NotEstablished, EstablishedPosted, NotEnded, Ended, QueuedVerdict,
     VerdictIsRight, MissedIs, IsEstablished
<1> QED
  BY <1>3, <1>4, <1>5 DEF Next

LEMMA InvariantHolds == Spec => []IInv
BY InitIInv, InvariantStep, PTL DEF Spec

(* No signal of a call is emitted before CallCore is connected to the call *)
(* or after it dropped its connections.                                    *)
THEOREM NoSignalIsLost == Spec => []SignalsReachClients
<1>1. IInv => SignalsReachClients
  BY DEF IInv, QueueInv
<1> QED
  BY <1>1, InvariantHolds, PTL

(* The clients are told "missed" of exactly the incoming calls that ended *)
(* unanswered and not rejected by the user.                               *)
THEOREM VerdictCorrect == Spec => []VerdictIsRight
<1>1. IInv => VerdictIsRight
  BY DEF IInv
<1> QED
  BY <1>1, InvariantHolds, PTL

(* OpalCall implements CallSignals: each step of OPAL's threads, the user   *)
(* and the main loop is a step of the abstract specification or a stutter. *)
THEOREM SignalsImplemented == Spec => SignalsInOrder
<1>1. Init => Abstract!Init
  BY ZenonT(60) DEF Init, Abstract!Init, Announced
<1>2. IInv /\ [Next]_vars => [Abstract!Next]_(Abstract!vars)
  <2> SUFFICES ASSUME IInv, [Next]_vars PROVE [Abstract!Next]_(Abstract!vars)
    OBVIOUS
  <2>1. CASE dispatch
    <3>1. PICK c \in Calls, e \in Emits : /\ Hears(c, e) /\ Posted(c, e)
      <4>1. queue[1] \in Closure /\ Hears(queue[1].call, queue[1].emit)
        BY <2>1, DispatchIsHeard DEF IInv
      <4>2. 1 \in DOMAIN queue
        BY <2>1, TailFacts DEF IInv, dispatch
      <4> QED
        BY <4>1, <4>2 DEF Closure, Posted, At
    <3>2. TypeOK /\ CallConsistent(c) /\ QueuedVerdict
      BY DEF IInv
    <3>3. /\ UNCHANGED outgoing
          /\ told \in [Calls -> Abstract!Told]
          /\ outgoing \in [Calls -> BOOLEAN]
      BY <2>1, <3>2 DEF dispatch, callVars, TypeOK
    <3>4. /\ e = "ringing" => outgoing[c]
          /\ e = "missed" => ~outgoing[c]
      BY <3>1, <3>2 DEF CallConsistent, NotCreated, NotSetUp, NotRinging,
         SetUp, QueuedVerdict, MissedIs, TypeOK, Emits
    <3>5. \A before \in SUBSET (Abstract!Told \ {"nothing"}),
            signal \in Abstract!Told \ {"nothing"} :
            Tells(c, before, signal) => Abstract!Tell(c, before, signal)
      <4> SUFFICES ASSUME NEW before \in SUBSET (Abstract!Told \ {"nothing"}),
                          NEW signal \in Abstract!Told \ {"nothing"},
                          Tells(c, before, signal)
                   PROVE  Abstract!Tell(c, before, signal)
        OBVIOUS
      <4>1. \A d \in Calls : told'[d] # "nothing" <=> told[d] # "nothing"
        BY <3>3 DEF Tells
      <4>2. UNCHANGED Announced
        BY <3>3, <4>1 DEF Announced
      <4> QED
        BY <4>2 DEF Tells, Abstract!Tell
    <3>6. Tells(c, {"nothing"}, "setup") => Abstract!Setup(c)
      <4> SUFFICES ASSUME Tells(c, {"nothing"}, "setup") PROVE Abstract!Setup(c)
        OBVIOUS
      <4>1. Announced' = [Announced EXCEPT ![c] = outgoing[c]]
        BY <3>3 DEF Announced, Tells
      <4> QED
        BY <3>3, <4>1 DEF Tells, Abstract!Setup
    <3>7. Tells(c, {"setup", "ringing"}, "ringing") \/ Tells(c, {"setup"}, "missed")
            => (Announced[c] <=> outgoing[c])
      BY DEF Announced, Tells
    <3>8. CASE e = "create"
      BY <3>1, <3>3, <3>8 DEF Hears, Announced, Abstract!vars
    <3>9. CASE e # "create"
      BY <3>1, <3>4, <3>5, <3>6, <3>7, <3>9
      DEF Hears, Abstract!Next, Abstract!Ringing, Abstract!Established,
          Abstract!Held, Abstract!Retrieved, Abstract!Cleared, Abstract!Missed,
          Abstract!Told, Abstract!Live, Abstract!Over
    <3> QED
      BY <3>8, <3>9
  <2>2. ASSUME NEW c \in Calls, OpalStep(c) \/ UserStep(c)
        PROVE  UNCHANGED Abstract!vars
    <3>1. UNCHANGED told
      BY <2>2 DEF OpalStep, UserStep, CreateCall, OnIncomingConnection,
         RefuseIncoming,
         OnSetUp, OnSetUpDone, DoSetUp, OnAlerting, OnAnswerCall,
         OnEstablished, OnHold, RemoteRelease, TimerExpires,
         OnNoAnswerTimeout, OnCleared, OnClearedDone, DestroyCall, answer,
         hang_up, coreVars
    <3>2. CASE OnSetUp(c)
      <4>1. told[c] = "nothing"
        BY <3>2 DEF IInv, CallConsistent, NotSetUp, OnSetUp
      <4>2. \A d \in Calls \ {c} : outgoing'[d] = outgoing[d]
        BY <3>2 DEF OnSetUp, IInv, TypeOK
      <4>3. UNCHANGED Announced
        BY <3>1, <4>1, <4>2 DEF Announced
      <4> QED
        BY <3>1, <4>3 DEF Abstract!vars
    <3>3. CASE ~OnSetUp(c)
      <4>1. UNCHANGED outgoing
        BY <2>2, <3>3 DEF OpalStep, UserStep, CreateCall, OnIncomingConnection,
           RefuseIncoming, OnSetUpDone, DoSetUp, OnAlerting, OnAnswerCall, OnEstablished,
           OnHold, callVars, RemoteRelease, TimerExpires, OnNoAnswerTimeout,
           OnCleared, OnClearedDone, DestroyCall, answer, hang_up
      <4> QED
        BY <3>1, <4>1 DEF Abstract!vars, Announced
    <3> QED
      BY <3>2, <3>3
  <2>3. CASE UNCHANGED vars
    BY <2>3 DEF vars, Abstract!vars, Announced
  <2> QED
    BY <2>1, <2>2, <2>3 DEF Next
<1> QED
  BY <1>1, <1>2, InvariantHolds, PTL DEF Spec, SignalsInOrder, Abstract!Spec
=============================================================================
