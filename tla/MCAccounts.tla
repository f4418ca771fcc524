----------------------------- MODULE MCAccounts -----------------------------
(***************************************************************************)
(* Model checking Accounts.  `part` chooses between three instances: an    *)
(* account of the settings with one address of record, whose subscriber    *)
(* threads overtake each other; and, with one thread and one event at a    *)
(* time, one that the user adds and edits between two addresses, and one   *)
(* that is edited between an address and the same with a port.             *)
(***************************************************************************)
EXTENDS Accounts

CONSTANTS a1, x1, x2

VARIABLE part

all == <<part, vars>>

FirstAor == [a \in Accounts |-> {x1}]

(* x2 is x1, with a port; the properties leave it out in every part. *)
WithoutPort == [x \in Aors |-> x1]

E == INSTANCE Accounts WITH
       AorsOf <- [a \in Accounts |-> Aors],
       RegisteredAs <- [x \in Aors |-> x],
       Initial <- {}, Limited <- {a1}, MaxThreads <- 1, MaxQueue <- 1

P == INSTANCE Accounts WITH
       AorsOf <- [a \in Accounts |-> Aors],
       Limited <- {a1}, MaxThreads <- 1, MaxQueue <- 1

MCInit == \/ part = "settings" /\ Init
          \/ part = "edited" /\ E!Init
          \/ part = "ported" /\ P!Init

Part(name, A) == part = name /\ A /\ UNCHANGED part
Settings(A)   == Part("settings", A)

MCNext ==
  Settings(Next) \/ Part("edited", E!Next) \/ Part("ported", P!Next)

MCSpec == MCInit /\ [][MCNext]_all

(* The fairness of Accounts, for the account of the settings and its aor. *)
FairMCSpec ==
  /\ MCSpec
  /\ \A r \in [account : {a1}, aor : {x1}, kind : Kinds] : WF_all(Settings(Runs(r)))
  /\ SF_all(Settings(Answers(x1)))
  /\ SF_all(Settings(on_registration_event))

(* The account of the settings alone. *)
SettingsSpec == part = "settings" /\ Init /\ [][Settings(Next)]_all

(* The answer to the request of an enabled account comes, unless the user   *)
(* disables, edits or removes the account meanwhile.                        *)
SettingsAreAnswered == part = "settings" => RegistrationIsAnswered
=============================================================================
