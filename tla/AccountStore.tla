---------------------------- MODULE AccountStore ----------------------------
(***************************************************************************)
(* What the list of accounts promises to its user: what is shown is what   *)
(* was kept, an account is as it was last left, and one that was removed   *)
(* never comes back, whatever the registrars answer and whenever the       *)
(* program is started again.                                               *)
(***************************************************************************)
CONSTANTS
  Accounts, Aors,
  New,            \* not there yet
  Gone            \* removed

VARIABLES
  shown,          \* each account, as the user sees it
  kept            \* each account, as the next start will find it

vars == <<shown, kept>>

Entries == [enabled : BOOLEAN, aor : Aors]

Init ==
  /\ shown \in [Accounts -> Entries \cup {New}]
  /\ kept = shown

Becomes(a, e) ==
  /\ shown' = [shown EXCEPT ![a] = e]
  /\ kept' = shown'

Add(a) == shown[a] = New /\ \E e \in Entries : Becomes(a, e)

Change(a) == shown[a] \in Entries /\ \E e \in Entries : Becomes(a, e)

Remove(a) == shown[a] \in Entries /\ Becomes(a, Gone)

Next == \E a \in Accounts : Add(a) \/ Change(a) \/ Remove(a)

Spec == Init /\ [][Next]_vars
=============================================================================
