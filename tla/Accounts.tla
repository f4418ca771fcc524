------------------------------ MODULE Accounts ------------------------------
(***************************************************************************)
(* Opal::Bank and its SIP accounts (Opal::Account), and the registrations  *)
(* that Opal::Sip::EndPoint makes for them.  The accounts live in the main *)
(* loop.  Each request to the registrar runs in a thread of its own, in no *)
(* order; OPAL answers later, through Ekiga::Runtime::run_in_main.  The    *)
(* program may stop at any moment, and starts again from the settings.     *)
(***************************************************************************)
EXTENDS Bags, FiniteSets, Naturals, Sequences

CONSTANTS
  Accounts,
  Aors,           \* addresses of record
  AorsOf,         \* those that the user gives to each account
  RegisteredAs,   \* what Register makes of each: the port of a host is left out
  Initial,        \* the accounts of the settings; the others may be added
  Limited,        \* the accounts with "%limit" in their name
  MaxThreads,     \* bound: subscriber threads at a time
  MaxQueue,       \* bound: functions posted to the main loop at a time
  None,           \* no account in the settings
  New,            \* an account to be added later
  Gone            \* an account that was removed

ASSUME AccountsAssumption ==
  /\ AorsOf \in [Accounts -> (SUBSET Aors) \ {{}}]
  /\ RegisteredAs \in [Aors -> Aors]
  /\ Initial \subseteq Accounts /\ Limited \subseteq Accounts
  /\ MaxThreads \in Nat \ {0} /\ MaxQueue \in Nat \ {0}
  /\ {None, New, Gone} \cap [enabled : BOOLEAN, aor : Aors] = {}
  /\ New # Gone /\ "present" \notin {New, Gone}

VARIABLES
  account,        \* what the bank keeps of each account
  saved,          \* accounts_list in the settings
  threads,        \* the bag of subscriber threads that have yet to run
  handler,        \* external: what OPAL is doing about each aor
  queue           \* the registration events posted to the main loop

vars == <<account, saved, threads, handler, queue>>

Modes == {"FullyCompliant", "CannotRegisterMultipleContacts",
          "CannotRegisterPrivateContacts", "HasApplicationLayerGateway",
          "uninitialised"}

RegistrationStates == {"Processing", "Registered", "Unregistered",
                       "RegistrationFailed", "UnregistrationFailed"}

Statuses == {"", "Processing...", "Registered", "Unregistered",
             "Could not unregister", "Could not register"}

Account ==
  [presence   : {"present", New, Gone},
   enabled    : BOOLEAN,             state    : RegistrationStates,
   status     : Statuses,            compat   : Modes,
   notified   : BOOLEAN,             \* failed_registration_already_notified
   dead       : BOOLEAN,             aor      : Aors,
   watched    : BOOLEAN,             \* a presentity is in watched_uris
   subscribed : BOOLEAN]             \* and the presentity was asked for it

Entries  == [enabled : BOOLEAN, aor : Aors]

Kinds    == {"register", "expire", "unregister"}

Requests == [account : Accounts, aor : Aors, kind : Kinds]

Events   == RegistrationStates \ {"Processing"}

Busy     == {"registering", "expiring", "unregistering"}

TypeOK ==
  /\ account \in [Accounts -> Account]
  /\ saved \in [Accounts -> Entries \cup {None}]
  /\ IsABag(threads) /\ BagToSet(threads) \subseteq Requests
  /\ handler \in [Aors -> Busy \cup {"none", "registered", "failed"}]
  /\ queue \in Seq([aor : Aors, event : Events]) /\ Len(queue) <= MaxQueue

-----------------------------------------------------------------------------
(* Accounts, saved and loaded *)

Present(a) == account[a].presence = "present"

Loaded(a, e) ==
  [presence |-> "present", enabled |-> e.enabled, state |-> "Unregistered",
   status |-> "Unregistered",
   compat |-> IF a \in Limited THEN "CannotRegisterMultipleContacts"
                               ELSE "FullyCompliant",
   notified |-> FALSE, dead |-> FALSE, aor |-> e.aor,
   watched |-> FALSE, subscribed |-> FALSE]

(* No account: the fields mean nothing. *)
Absent(a, presence) ==
  [Loaded(a, [enabled |-> FALSE, aor |-> CHOOSE x \in AorsOf[a] : TRUE])
     EXCEPT !.presence = presence]

as_string(c) ==
  IF c.presence # "present" \/ c.dead THEN None
    ELSE [enabled |-> c.enabled, aor |-> c.aor]

save(accounts) == saved' = [a \in Accounts |-> as_string(accounts[a])]

-----------------------------------------------------------------------------
(* Requests to the registrar *)

Request(a, c, kind) == {[account |-> a, aor |-> c.aor, kind |-> kind]}

(* What the thread will do is decided when it is created. *)
subscribe(a, c) ==
  Request(a, c, IF c.enabled THEN "register" ELSE "expire")

unsubscribe(a, c) == Request(a, c, "unregister")

Starts(requests) ==
  /\ threads' = threads (+) SetToBag(requests)
  /\ BagCardinality(threads') <= MaxThreads

(* A mutation: the state of the last registration is kept. *)
EnabledButNotProcessing(c) ==
  [c EXCEPT !.enabled = TRUE, !.status = "Processing..."]

Enabled(c) ==
  [c EXCEPT !.enabled = TRUE, !.state = "Processing",
            !.status = "Processing..."]

(* The state is left for the answer of the registrar. *)
Disabled(c) ==
  [c EXCEPT !.enabled = FALSE, !.subscribed = FALSE,
            !.status = "Unregistered"]

Becomes(a, c) ==
  /\ account' = [account EXCEPT ![a] = c]
  /\ save(account')

-----------------------------------------------------------------------------
(* The user: the accounts window, the forms, the roster *)

enable(a) ==
  /\ Present(a)
  /\ Becomes(a, Enabled(account[a]))
  /\ Starts(subscribe(a, Enabled(account[a])))
  /\ UNCHANGED <<handler, queue>>

(* A mutation: the change is not saved. *)
DisableWithoutSaving(a) ==
  /\ Present(a)
  /\ account' = [account EXCEPT ![a] = Disabled(@)]
  /\ Starts(unsubscribe(a, account[a]))
  /\ UNCHANGED <<handler, queue, saved>>

disable(a) ==
  /\ Present(a) /\ account[a].enabled
  /\ Becomes(a, Disabled(account[a]))
  /\ Starts(unsubscribe(a, account[a]))
  /\ UNCHANGED <<handler, queue>>

remove(a) ==
  /\ Present(a)
  /\ IF account[a].state \in {"Registered", "Processing"}
       THEN /\ Becomes(a, [Disabled(account[a]) EXCEPT !.dead = TRUE])
            /\ Starts(unsubscribe(a, account[a]))
       ELSE /\ Becomes(a, Absent(a, Gone))
            /\ UNCHANGED threads
  /\ UNCHANGED <<handler, queue>>

(* The fields are set before enable or disable sends its request.  `other`: *)
(* the password or the time-out changes.                                    *)
on_edit_form_submitted(a, x, new_enabled, other) ==
  /\ Present(a)
  /\ LET old == account[a]
         new == [old EXCEPT !.enabled = new_enabled, !.aor = x]
         critical == x # old.aor \/ other \/ new_enabled # old.enabled
     IN  \/ /\ old.enabled /\ ~new_enabled
            /\ Becomes(a, Disabled(new))
            /\ Starts(unsubscribe(a, new))
         \/ /\ new_enabled /\ critical
            /\ Becomes(a, Enabled(new))
            /\ Starts(subscribe(a, new))
         \/ /\ new_enabled = old.enabled /\ (new_enabled => ~critical)
            /\ Becomes(a, new)
            /\ UNCHANGED threads
  /\ UNCHANGED <<handler, queue>>

(* The constructor of a new account leaves compat_mode uninitialised, and *)
(* enables the account itself.                                            *)
add(a, x, enabled) ==
  /\ account[a].presence = New
  /\ \E mode \in Modes :
       LET c == [Loaded(a, [enabled |-> enabled, aor |-> x])
                   EXCEPT !.compat = mode, !.status = ""]
       IN  /\ Becomes(a, IF enabled THEN Enabled(c) ELSE c)
           /\ IF enabled THEN Starts(subscribe(a, c)) ELSE UNCHANGED threads
  /\ UNCHANGED <<handler, queue>>

(* Someone of the domain of the account is watched (is_myself); of anybody *)
(* else an account takes no notice.                                        *)
fetch(a) ==
  /\ Present(a) /\ ~account[a].watched
  /\ account' = [account EXCEPT ![a].watched = TRUE,
       ![a].subscribed = account[a].enabled /\ account[a].state = "Registered"]
  /\ UNCHANGED <<saved, threads, handler, queue>>

unfetch(a) ==
  /\ Present(a) /\ account[a].watched
  /\ account' = [account EXCEPT ![a].watched = FALSE, ![a].subscribed = FALSE]
  /\ UNCHANGED <<saved, threads, handler, queue>>

-----------------------------------------------------------------------------
(* The program *)

(* The call manager is ready: at the start, and each time the detection of *)
(* STUN has come to its end.                                               *)
call_manager_ready ==
  LET enabled == {a \in Accounts : Present(a) /\ account[a].enabled}
  IN  /\ enabled # {}
      /\ account' = [a \in Accounts |->
           IF a \in enabled THEN Enabled(account[a]) ELSE account[a]]
      /\ save(account')
      /\ Starts(UNION {subscribe(a, account[a]) : a \in enabled})
      /\ UNCHANGED <<handler, queue>>

(* The end of the program, in any way, and a new start. *)
Restart ==
  /\ account' = [a \in Accounts |->
       IF saved[a] # None THEN Loaded(a, saved[a])
       ELSE Absent(a, IF account[a].presence = New THEN New ELSE Gone)]
  /\ threads' = EmptyBag /\ queue' = <<>>
  /\ handler' = [x \in Aors |-> "none"]
  /\ UNCHANGED saved

-----------------------------------------------------------------------------
(* The threads and OPAL *)

Post(x, event) ==
  /\ Len(queue) < MaxQueue
  /\ queue' = Append(queue, [aor |-> x, event |-> event])

RegistrationEvent(was_registering, ok) ==
  CASE was_registering /\ ok  -> "Registered"
    [] was_registering /\ ~ok -> "RegistrationFailed"
    [] ~was_registering /\ ok -> "Unregistered"
    [] OTHER                  -> "UnregistrationFailed"

Reasons == {"Successful_OK", "Information_Trying", "Failure_RequestTerminated",
            "Failure"}

(* A RequestTerminated is not shown, as OPAL adds it to a status that has *)
(* already been scheduled to be shown.                                    *)
Silent == {"Information_Trying", "Failure_RequestTerminated"}

OnRegistrationStatus(x, was_registering, reason) ==
  IF reason \in Silent THEN UNCHANGED queue
    ELSE Post(x, RegistrationEvent(was_registering, reason = "Successful_OK"))

Becoming(x, h) == handler' = [handler EXCEPT ![x] = h]

(* Register leaves the port out of the address of record.  OPAL may refuse  *)
(* at once, with a transport error.                                         *)
Register(x, expire) ==
  \/ Becoming(x, IF expire THEN "expiring" ELSE "registering") /\ UNCHANGED queue
  \/ Becoming(x, "none") /\ OnRegistrationStatus(x, TRUE, "Failure")

(* OPAL has nothing to unregister where it knows of no registration.        *)
Unregister(x) ==
  /\ Becoming(x, IF handler[x] = "none" THEN "none" ELSE "unregistering")
  /\ UNCHANGED queue

(* A subscriber thread runs.  It unregisters the address as it is in the    *)
(* account; whether OPAL looks at a port then is left open.                 *)
Runs(r) ==
  /\ BagIn(r, threads)
  /\ threads' = threads (-) SetToBag({r})
  /\ \/ /\ r.kind # "unregister"
        /\ Register(RegisteredAs[r.aor], r.kind = "expire")
     \/ /\ r.kind = "unregister"
        /\ \E x \in {r.aor, RegisteredAs[r.aor]} : Unregister(x)
  /\ UNCHANGED <<account, saved>>

(* The answer of the registrar, or none in time; what is silent comes beside *)
(* the answer, never in its place.                                           *)
Answers(x) ==
  /\ handler[x] \in Busy
  /\ \E reason \in Reasons, was_registering \in BOOLEAN :
       /\ handler[x] = "registering"   => was_registering
       /\ handler[x] = "unregistering" => ~was_registering
       /\ OnRegistrationStatus(x, was_registering, reason)
       /\ Becoming(x, IF reason \in Silent THEN handler[x]
                        ELSE IF handler[x] # "registering" THEN "none"
                        ELSE IF reason = "Successful_OK" THEN "registered"
                        ELSE "failed")
  /\ UNCHANGED <<account, saved, threads>>

(* OPAL refreshes a registration, or tries again, on its own. *)
Refreshes(x) ==
  /\ handler[x] \in {"registered", "failed"}
  /\ \E reason \in {"Successful_OK", "Failure"} :
       /\ handler[x] = "failed" => reason = "Successful_OK"
       /\ OnRegistrationStatus(x, TRUE, reason)
       /\ Becoming(x, IF reason = "Failure" THEN "failed" ELSE "registered")
  /\ UNCHANGED <<account, saved, threads>>

-----------------------------------------------------------------------------
(* The answer, in the main loop *)

(* The account with this very address; an event never names a host alone.   *)
(* Nobody is found where the port was left out of the address.              *)
find_account(x) == {a \in Accounts : Present(a) /\ account[a].aor = x}

Registered(c) ==
  IF c.state = "Registered" THEN c
    ELSE [c EXCEPT !.state = "Registered", !.status = "Registered",
                   !.subscribed = c.watched, !.notified = FALSE]

Unregistered(a, c) ==
  IF c.dead THEN Absent(a, Gone)
    ELSE [c EXCEPT !.state = "Unregistered", !.status = "Unregistered",
                   !.notified = FALSE]

UnregistrationFailed(c) ==
  [c EXCEPT !.state = "UnregistrationFailed", !.notified = FALSE,
            !.status = "Could not unregister"]

(* The modes in the order in which they are tried. *)
NextMode ==
  [FullyCompliant                 |-> "CannotRegisterMultipleContacts",
   CannotRegisterMultipleContacts |-> "CannotRegisterPrivateContacts",
   CannotRegisterPrivateContacts  |-> "HasApplicationLayerGateway"]

(* A mutation: the last mode is not tried. *)
RetriesTwice(c) ==
  c.compat \in {"FullyCompliant", "CannotRegisterMultipleContacts"}

Retries(c) == c.compat \in DOMAIN NextMode

(* A mutation: the state is not set. *)
FailedKeepsState(c) ==
  CASE c.compat \in DOMAIN NextMode -> [c EXCEPT !.compat = NextMode[c.compat]]
    [] c.compat = "HasApplicationLayerGateway" ->
         [c EXCEPT !.compat = "FullyCompliant", !.notified = TRUE,
                   !.status = "Could not register"]
    [] OTHER -> c

RegistrationFailed(c) ==
  LET failed == [c EXCEPT !.state = "RegistrationFailed"]
  IN  CASE c.compat \in DOMAIN NextMode ->
             [failed EXCEPT !.compat = NextMode[c.compat]]
        [] c.compat = "HasApplicationLayerGateway" ->
             [failed EXCEPT !.compat = "FullyCompliant",
                !.status = "Could not register", !.notified = TRUE]
        [] OTHER -> failed

handle_registration_event(a, event) ==
  LET c == account[a]
      after == CASE event = "Registered"           -> Registered(c)
                 [] event = "Unregistered"         -> Unregistered(a, c)
                 [] event = "UnregistrationFailed" -> UnregistrationFailed(c)
                 [] event = "RegistrationFailed"   -> RegistrationFailed(c)
  IN  /\ account' = [account EXCEPT ![a] = after]
      /\ IF event = "RegistrationFailed" /\ Retries(c)
           THEN Starts(subscribe(a, c)) ELSE UNCHANGED threads

on_registration_event ==
  /\ queue # <<>> /\ queue' = Tail(queue)
  /\ LET found == find_account(Head(queue).aor)
     IN  IF found = {} THEN UNCHANGED <<account, threads>>
         ELSE \E a \in found : handle_registration_event(a, Head(queue).event)
  /\ UNCHANGED <<saved, handler>>

-----------------------------------------------------------------------------
Init ==
  /\ saved \in [Accounts -> Entries \cup {None}]
  /\ \A a \in Accounts :
       IF a \in Initial THEN saved[a] \in Entries /\ saved[a].aor \in AorsOf[a]
                        ELSE saved[a] = None
  /\ account = [a \in Accounts |->
       IF a \in Initial THEN Loaded(a, saved[a]) ELSE Absent(a, New)]
  /\ threads = EmptyBag
  /\ handler = [x \in Aors |-> "none"]
  /\ queue = <<>>

User(a) ==
  \/ enable(a) \/ disable(a) \/ remove(a) \/ fetch(a) \/ unfetch(a)
  \/ \E x \in AorsOf[a], enabled \in BOOLEAN :
       \/ add(a, x, enabled)
       \/ \E other \in BOOLEAN : on_edit_form_submitted(a, x, enabled, other)

Next ==
  \/ call_manager_ready \/ Restart \/ on_registration_event
  \/ \E a \in Accounts : User(a)
  \/ \E r \in BagToSet(threads) : Runs(r)
  \/ \E x \in Aors : Answers(x) \/ Refreshes(x)

Spec == Init /\ [][Next]_vars

(* The threads, OPAL, the registrars and the main loop go on; strongly, as  *)
(* the bounds of the model close their way now and then.                    *)
FairSpec ==
  /\ Spec
  /\ \A r \in Requests : WF_vars(Runs(r))
  /\ \A x \in Aors : SF_vars(Answers(x))
  /\ SF_vars(on_registration_event)

-----------------------------------------------------------------------------
(* Properties *)

Quiet ==
  /\ threads = EmptyBag /\ queue = <<>>
  /\ \A x \in Aors : handler[x] \notin Busy

(* The events of the registrations of such an account name its address: *)
(* its host has no port.                                                *)
IsNamed(x) == RegisteredAs[x] = x

(* Once nothing is under way, no enabled account waits for an answer:       *)
(* however enabling, disabling, editing and failing follow each other, the  *)
(* last outcome is heard, and "Processing..." is shown no more.  Not so an  *)
(* account whose host has a port, as nobody is found for its events; and a  *)
(* new account whose mode is none of them may go on to show it.             *)
EnabledIsAnswered ==
  Quiet => \A a \in Accounts :
    LET c == account[a]
    IN  Present(a) /\ c.enabled /\ IsNamed(c.aor) =>
          /\ c.state # "Processing"
          /\ c.compat # "uninitialised" => c.status # "Processing..."

(* And the answer comes, unless the user disables, edits or removes the     *)
(* account meanwhile.                                                       *)
RegistrationIsAnswered ==
  \A a \in Accounts : \A x \in AorsOf[a] :
    LET Asks == /\ Present(a) /\ account[a].enabled /\ account[a].aor = x
                /\ IsNamed(x) /\ account[a].state = "Processing"
    IN  Asks ~> ~Asks

(* Once nothing is under way, an enabled account whose registration failed  *)
(* has been through every compatibility mode, and the user was told; not so *)
(* an account whose host has a port, nor a new one whose mode may be none   *)
(* of them.                                                                 *)
FailureIsNotified ==
  Quiet => \A a \in Accounts :
    LET c == account[a]
    IN  Present(a) /\ c.enabled /\ IsNamed(c.aor) /\ c.compat # "uninitialised"
          /\ c.state = "RegistrationFailed" => c.notified

(* Once nothing is under way, each account whose host has no port shows how *)
(* its last request ended.                                                  *)
OutcomeIsShown == EnabledIsAnswered /\ FailureIsNotified

(* The presence of whoever is watched was asked for by every account that   *)
(* is registered and enabled, whichever of the two came first.              *)
WatchedAreSubscribed ==
  \A a \in Accounts :
    LET c == account[a]
    IN  Present(a) /\ c.enabled /\ c.state = "Registered" /\ c.watched =>
          c.subscribed

(* What the user sees, but for the accounts that wait to go. *)
Shown(a) ==
  IF ~Present(a) THEN account[a].presence
    ELSE IF account[a].dead THEN Gone
    ELSE [enabled |-> account[a].enabled, aor |-> account[a].aor]

Kept(a) ==
  IF saved[a] # None THEN saved[a]
    ELSE IF account[a].presence = New THEN New ELSE Gone

Store == INSTANCE AccountStore WITH shown <- [a \in Accounts |-> Shown(a)],
                                    kept <- [a \in Accounts |-> Kept(a)]

(* An account is as the user last left it, through every answer of the      *)
(* registrars and every restart, and one that was removed never comes back. *)
StoreImplemented == Store!Spec

(* opal-account.cpp:716: "delay destruction of this account until the       *)
(* unsubscriber thread has called back".  So a removed account goes away    *)
(* once nothing is under way any more.                                      *)
RemovedGoesAway ==
  Quiet => \A a \in Accounts : Present(a) => ~account[a].dead

(* The three below are what one would expect, and not kept by the code:     *)
(* find_account compares addresses with and without a port; remove looks at *)
(* the state only, not at the threads; and an edit that disables an account *)
(* unregisters its new address of record, not the old one.                  *)

(* EnabledIsAnswered, of every account, also where the host has a port.     *)
PortsAreAnswered ==
  Quiet => \A a \in Accounts :
    Present(a) /\ account[a].enabled => account[a].state # "Processing"

(* opal-account.cpp:716 again: the thread uses the presentity of the        *)
(* account.                                                                 *)
DestructionIsDelayed ==
  \A r \in BagToSet(threads) : Present(r.account)

(* opal-account.cpp:344: the status "Unregistered" is "a state, not an      *)
(* action, i.e. it should be read as "(you are) unregistered"".             *)
StatusIsTrue ==
  Quiet => \A a \in Accounts :
    Present(a) /\ account[a].status = "Unregistered" =>
      \A x \in AorsOf[a] : handler[x] # "registered"
=============================================================================
