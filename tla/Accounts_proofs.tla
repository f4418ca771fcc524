--------------------------- MODULE Accounts_proofs ---------------------------
(***************************************************************************)
(* Theorems about Accounts, for any accounts, addresses and bounds.  What  *)
(* each account shows of its last request needs OneAccountPerAor: the      *)
(* answers of OPAL are for an address of record, and find_account takes    *)
(* one account of that address, whichever had asked.                       *)
(***************************************************************************)
EXTENDS Accounts, SequenceTheorems, TLAPS

OneAccountPerAor ==
  \A a, b \in Accounts : AorsOf[a] \cap AorsOf[b] # {} => a = b

SavedInv == saved = [a \in Accounts |-> as_string(account[a])]

AorInv == \A a \in Accounts : account[a].aor \in AorsOf[a]

(* What WatchedAreSubscribed says of one account. *)
Asked(c) ==
  c.presence = "present" /\ c.enabled /\ c.state = "Registered" /\ c.watched
    => c.subscribed

(* The account, whose host has no port, waits for an outcome or shows that *)
(* it does.                                                                *)
Waits(c) ==
  /\ c.presence = "present" /\ c.enabled /\ IsNamed(c.aor)
  /\ \/ c.state = "Processing"
     \/ /\ c.compat # "uninitialised"
        /\ \/ c.status = "Processing..."
           \/ c.state = "RegistrationFailed" /\ ~c.notified

(* What comes once an account is registered changes nothing of it: by then *)
(* its status must be right.                                               *)
Settled(c) == c.state = "Registered" => c.status # "Processing..."

SettledInv == \A a \in Accounts : Settled(account[a])

(* An event for the address will come: a thread, OPAL or the queue has it. *)
Pending(x) ==
  \/ \E r \in BagToSet(threads) : r.aor = x /\ r.kind # "unregister"
  \/ handler[x] \in Busy
  \/ \E i \in DOMAIN queue : queue[i].aor = x

(* Whoever waits for the events of the address still does. *)
Keeps(x) == IsNamed(x) /\ Pending(x) => Pending(x)'

WaitInv ==
  \A a \in Accounts : Waits(account[a]) => Pending(account[a].aor)

(* Inductive without any assumption on who shares an address. *)
IInv == TypeOK /\ SavedInv /\ AorInv /\ SettledInv /\ WatchedAreSubscribed

-----------------------------------------------------------------------------
(* Bags of threads. *)

LEMMA Added ==
  ASSUME NEW T, IsABag(T), NEW R
  PROVE  /\ IsABag(T (+) SetToBag(R))
         /\ BagToSet(T (+) SetToBag(R)) = BagToSet(T) \cup R
BY DEF IsABag, BagToSet, SetToBag, \oplus

LEMMA Dropped ==
  ASSUME NEW T, IsABag(T), NEW r \in BagToSet(T)
  PROVE  /\ IsABag(T (-) SetToBag({r}))
         /\ BagToSet(T (-) SetToBag({r})) \subseteq BagToSet(T)
         /\ BagToSet(T) \ {r} \subseteq BagToSet(T (-) SetToBag({r}))
BY DEF IsABag, BagToSet, SetToBag, \ominus

LEMMA NoThread == IsABag(EmptyBag) /\ BagToSet(EmptyBag) = {}
BY DEF IsABag, BagToSet, EmptyBag, SetToBag

-----------------------------------------------------------------------------
(* What the operators make of an account. *)

(* All that the invariants ask of one account by itself. *)
Sound(a, c) ==
  c \in Account /\ c.aor \in AorsOf[a] /\ Settled(c) /\ Asked(c)

LEMMA SoundFacts ==
  ASSUME IInv, NEW a \in Accounts
  PROVE  Sound(a, account[a])
BY DEF IInv, TypeOK, AorInv, SettledInv, WatchedAreSubscribed, Sound, Settled, Asked,
       Present

LEMMA LoadedFacts ==
  ASSUME AccountsAssumption, NEW a \in Accounts, NEW e \in Entries,
         e.aor \in AorsOf[a]
  PROVE  Sound(a, Loaded(a, e)) /\ ~Waits(Loaded(a, e))
BY DEF Sound, Loaded, Account, Settled, Asked, Entries, Waits, Modes, Statuses,
       RegistrationStates, AccountsAssumption

LEMMA AbsentFacts ==
  ASSUME AccountsAssumption, NEW a \in Accounts, NEW p \in {New, Gone}
  PROVE  /\ Sound(a, Absent(a, p)) /\ ~Waits(Absent(a, p))
         /\ Absent(a, p).presence = p /\ as_string(Absent(a, p)) = None
<1> DEFINE x == CHOOSE x \in AorsOf[a] : TRUE
<1>1. x \in AorsOf[a] /\ AorsOf[a] \subseteq Aors
  <2>1. AorsOf[a] \in (SUBSET Aors) \ {{}}
    BY DEF AccountsAssumption
  <2>2. \E y : y \in AorsOf[a]
    BY <2>1
  <2> QED
    BY <2>1, <2>2
<1> HIDE DEF x
<1> DEFINE e == [enabled |-> FALSE, aor |-> x]
<1>2. e \in Entries /\ e.aor \in AorsOf[a]
  BY <1>1 DEF Entries
<1>3. Sound(a, Loaded(a, e)) /\ ~Waits(Loaded(a, e))
  BY <1>2, LoadedFacts
<1>4. Absent(a, p) = [Loaded(a, e) EXCEPT !.presence = p]
  BY DEF Absent, x
<1>5. Loaded(a, e) = [presence |-> "present", enabled |-> FALSE,
         state |-> "Unregistered", status |-> "Unregistered",
         compat |-> IF a \in Limited THEN "CannotRegisterMultipleContacts"
                                     ELSE "FullyCompliant",
         notified |-> FALSE, dead |-> FALSE, aor |-> x,
         watched |-> FALSE, subscribed |-> FALSE]
  BY DEF Loaded
<1> HIDE DEF e
<1>6. p # "present"
  BY DEF AccountsAssumption
<1> QED
  BY <1>3, <1>4, <1>5, <1>6 DEF Sound, Account, Settled, Asked, Waits, as_string

LEMMA EnabledFacts ==
  ASSUME NEW a, NEW c \in Account, c.aor \in AorsOf[a]
  PROVE  Sound(a, Enabled(c)) /\ Enabled(c).aor = c.aor
         /\ Enabled(c).enabled /\ Enabled(c).presence = c.presence
         /\ Enabled(c).dead = c.dead
BY DEF Sound, Enabled, Account, Settled, Asked, RegistrationStates, Statuses

LEMMA DisabledFacts ==
  ASSUME NEW a, NEW c, Sound(a, c)
  PROVE  Sound(a, Disabled(c)) /\ ~Waits(Disabled(c))
         /\ Disabled(c).aor = c.aor /\ ~Disabled(c).enabled
         /\ Disabled(c).presence = c.presence /\ Disabled(c).dead = c.dead
BY DEF Sound, Disabled, Account, Settled, Asked, Waits, Statuses

LEMMA RequestFacts ==
  ASSUME NEW a \in Accounts, NEW c, c.aor \in Aors, c.enabled \in BOOLEAN
  PROVE  /\ subscribe(a, c) \subseteq Requests
         /\ unsubscribe(a, c) \subseteq Requests
         /\ c.enabled => \E r \in subscribe(a, c) :
              r.aor = c.aor /\ r.kind # "unregister"
BY DEF subscribe, unsubscribe, Request, Requests, Kinds

-----------------------------------------------------------------------------
(* Steps that change one account and add requests. *)

LEMMA StartsFacts ==
  ASSUME IInv, NEW R, R \subseteq Requests, Starts(R)
  PROVE  /\ IsABag(threads') /\ BagToSet(threads') = BagToSet(threads) \cup R
         /\ BagToSet(threads') \subseteq Requests
BY Added DEF IInv, TypeOK, Starts

(* The threads after a step that starts at most some. *)
Grows ==
  /\ IsABag(threads') /\ BagToSet(threads') \subseteq Requests
  /\ BagToSet(threads) \subseteq BagToSet(threads')

LEMMA UserStep ==
  ASSUME IInv, NEW a \in Accounts, NEW c, Sound(a, c), Becomes(a, c), Grows,
         UNCHANGED <<handler, queue>>
  PROVE  IInv'
<1>1. account' = [account EXCEPT ![a] = c]
  BY DEF Becomes
<1>2. \A b \in Accounts : Sound(b, account'[b])
  BY <1>1, SoundFacts DEF IInv, TypeOK
<1>3. SavedInv'
  BY DEF Becomes, save, SavedInv
<1>4. account' \in [Accounts -> Account]
  BY <1>1 DEF IInv, TypeOK, Sound
<1>5. \A b \in Accounts : as_string(account'[b]) \in Entries \cup {None}
  BY <1>4 DEF as_string, Account, Entries
<1>6. TypeOK'
  BY <1>3, <1>4, <1>5 DEF IInv, TypeOK, SavedInv, Grows
<1>7. AorInv' /\ SettledInv' /\ WatchedAreSubscribed'
  BY <1>2 DEF Sound, AorInv, SettledInv, WatchedAreSubscribed, Settled, Asked, Present
<1> QED
  BY <1>3, <1>6, <1>7 DEF IInv

LEMMA UserStepWaits ==
  ASSUME IInv, WaitInv, NEW a \in Accounts, NEW c, Becomes(a, c), Grows,
         UNCHANGED <<handler, queue>>,
         Waits(c) => Pending(c.aor)'
  PROVE  WaitInv'
<1>1. account' = [account EXCEPT ![a] = c]
  BY DEF Becomes
<1>2. \A x : Pending(x) => Pending(x)'
  BY DEF Pending, Grows
<1> QED
  BY <1>1, <1>2 DEF WaitInv, IInv, TypeOK

-----------------------------------------------------------------------------
(* The steps of the user. *)

LEMMA RequestStep ==
  ASSUME IInv, NEW R, R \subseteq Requests, Starts(R) \/ UNCHANGED threads
  PROVE  /\ Grows
         /\ Starts(R) => R \subseteq BagToSet(threads')
BY StartsFacts DEF Grows, IInv, TypeOK

(* An account that is enabled waits for the thread that it starts. *)
LEMMA Registers ==
  ASSUME IInv, NEW a \in Accounts, NEW c, Sound(a, c), c.enabled,
         Starts(subscribe(a, c))
  PROVE  Pending(c.aor)'
<1>1. \E r \in subscribe(a, c) : r.aor = c.aor /\ r.kind # "unregister"
  BY RequestFacts DEF Sound, Account
<1>2. subscribe(a, c) \subseteq Requests
  BY RequestFacts DEF Sound, Account
<1>3. subscribe(a, c) \subseteq BagToSet(threads')
  BY <1>2, RequestStep
<1> QED
  BY <1>1, <1>3 DEF Pending

LEMMA EditFacts ==
  ASSUME NEW a, NEW c, Sound(a, c), NEW x \in AorsOf[a] \cap Aors,
         NEW e \in BOOLEAN, e => c.enabled
  PROVE  /\ Sound(a, [c EXCEPT !.enabled = e, !.aor = x])
         /\ ~e => ~Waits([c EXCEPT !.enabled = e, !.aor = x])
         /\ [c EXCEPT !.enabled = e, !.aor = x].presence = c.presence
         /\ e /\ x = c.aor => [c EXCEPT !.enabled = e, !.aor = x] = c
BY DEF Sound, Account, Settled, Asked, Waits

(* The account was there and still is, is removed, or is added. *)
Moves(old, c) ==
  \/ old.presence = "present" /\ c.presence = "present" /\ c.dead = old.dead
  \/ old.presence = "present" /\ (c.presence = Gone \/ c.dead)
                              /\ c.presence # New
  \/ old.presence = New /\ c.presence = "present" /\ ~c.dead

(* A step of the user: the account that shows that it waits does so for a *)
(* request of this step, or waited before.                                *)
Changes(a, c) ==
  /\ Moves(account[a], c)
  /\ Sound(a, c) /\ Becomes(a, c) /\ Grows /\ UNCHANGED <<handler, queue>>
  /\ \/ ~Waits(c) \/ Pending(c.aor)'
     \/ Waits(account[a]) /\ c.aor = account[a].aor

LEMMA UserChanges ==
  ASSUME AccountsAssumption, IInv, NEW a \in Accounts, User(a)
  PROVE  \E c : Changes(a, c)
<1>0. PICK old : old = account[a]
  OBVIOUS
<1>1. Sound(a, old) /\ old \in Account /\ old.aor \in AorsOf[a] \cap Aors
  BY <1>0, SoundFacts DEF Sound, Account
<1>2. Sound(a, Enabled(old)) /\ Sound(a, Disabled(old)) /\ ~Waits(Disabled(old))
  BY <1>1, EnabledFacts, DisabledFacts
<1>same. /\ Enabled(old).presence = old.presence /\ Enabled(old).dead = old.dead
      /\ Disabled(old).presence = old.presence /\ Disabled(old).dead = old.dead
  BY <1>1, EnabledFacts, DisabledFacts
<1>3. /\ subscribe(a, Enabled(old)) \subseteq Requests
      /\ unsubscribe(a, old) \subseteq Requests
  BY <1>1, <1>2, RequestFacts DEF Sound, Account
<1>4. CASE enable(a)
  <2>1. /\ Becomes(a, Enabled(old)) /\ UNCHANGED <<handler, queue>>
        /\ Starts(subscribe(a, Enabled(old)))
    BY <1>0, <1>4 DEF enable
  <2>2. Grows /\ Pending(Enabled(old).aor)'
    BY <1>1, <1>2, <1>3, <2>1, RequestStep, Registers, EnabledFacts
  <2>3. Moves(account[a], Enabled(old))
    BY <1>0, <1>4, <1>same DEF enable, Present, Moves
  <2> QED
    BY <1>2, <2>1, <2>2, <2>3 DEF Changes
<1>5. CASE disable(a)
  <2>1. /\ Becomes(a, Disabled(old)) /\ UNCHANGED <<handler, queue>>
        /\ Starts(unsubscribe(a, old))
    BY <1>0, <1>5 DEF disable
  <2>2. Moves(account[a], Disabled(old))
    BY <1>0, <1>5, <1>same DEF disable, Present, Moves
  <2> QED
    BY <1>2, <1>3, <2>1, <2>2, RequestStep DEF Changes
<1>6. CASE remove(a)
  <2> DEFINE dying == [Disabled(old) EXCEPT !.dead = TRUE]
  <2>0. Sound(a, Disabled(old)) /\ ~Disabled(old).enabled
    BY <1>1, DisabledFacts
  <2>1. /\ Sound(a, dying) /\ ~Waits(dying)
        /\ dying.dead /\ dying.presence = old.presence
    BY <2>0, <1>same DEF Sound, Account, Settled, Asked, Waits
  <2>2. /\ Sound(a, Absent(a, Gone)) /\ ~Waits(Absent(a, Gone))
        /\ Absent(a, Gone).presence = Gone
    BY AbsentFacts
  <2>3. /\ UNCHANGED <<handler, queue>>
        /\ \/ Becomes(a, dying) /\ Starts(unsubscribe(a, old))
           \/ Becomes(a, Absent(a, Gone)) /\ UNCHANGED threads
    BY <1>0, <1>6 DEF remove
  <2> HIDE DEF dying
  <2>4. Moves(account[a], dying) /\ Moves(account[a], Absent(a, Gone))
    BY <1>0, <1>6, <2>1, <2>2, AccountsAssumption
    DEF AccountsAssumption, remove, Present, Moves
  <2> QED
    BY <1>3, <2>1, <2>2, <2>3, <2>4, RequestStep DEF Changes
<1>7. CASE fetch(a) \/ unfetch(a)
  <2>1. PICK w \in BOOLEAN, s \in BOOLEAN :
          /\ account' = [account EXCEPT ![a] =
               [old EXCEPT !.watched = w, !.subscribed = s]]
          /\ ~w \/ (s <=> old.enabled /\ old.state = "Registered")
          /\ UNCHANGED <<saved, threads, handler, queue>>
    <3>1. CASE fetch(a)
      <4> DEFINE s == old.enabled /\ old.state = "Registered"
      <4>1. s \in BOOLEAN
        OBVIOUS
      <4>2. account' = [account EXCEPT ![a] =
              [old EXCEPT !.watched = TRUE, !.subscribed = s]]
        BY <1>0, <3>1, <1>1 DEF fetch, IInv, TypeOK
      <4> QED
        BY <3>1, <4>1, <4>2 DEF fetch
    <3>2. CASE unfetch(a)
      <4>2. account' = [account EXCEPT ![a] =
              [old EXCEPT !.watched = FALSE, !.subscribed = FALSE]]
        BY <1>0, <3>2, <1>1 DEF unfetch, IInv, TypeOK
      <4> QED
        BY <3>2, <4>2 DEF unfetch
    <3> QED
      BY <1>7, <3>1, <3>2
  <2> DEFINE c == [old EXCEPT !.watched = w, !.subscribed = s]
  <2>2. /\ Sound(a, c) /\ c.aor = old.aor /\ (Waits(c) <=> Waits(old))
        /\ as_string(c) = as_string(old)
        /\ c.presence = old.presence /\ c.dead = old.dead
    BY <1>1, <2>1 DEF Sound, Account, Settled, Asked, Waits, as_string
  <2>3. account' = [account EXCEPT ![a] = c]
    BY <2>1
  <2> HIDE DEF c
  <2>4. save(account')
    BY <1>0, <2>1, <2>2, <2>3 DEF save, IInv, SavedInv, TypeOK
  <2>5. Grows
    BY <2>1, RequestStep
  <2>6. Moves(account[a], c)
    BY <1>0, <1>7, <2>2 DEF fetch, unfetch, Present, Moves
  <2> QED
    BY <1>0, <2>1, <2>2, <2>3, <2>4, <2>5, <2>6 DEF Changes, Becomes
<1>8. ASSUME NEW x \in AorsOf[a], NEW e \in BOOLEAN, add(a, x, e)
      PROVE  \E c : Changes(a, c)
  <2>1. PICK mode \in Modes :
          LET c == [Loaded(a, [enabled |-> e, aor |-> x])
                      EXCEPT !.compat = mode, !.status = ""]
          IN  /\ Becomes(a, IF e THEN Enabled(c) ELSE c)
              /\ IF e THEN Starts(subscribe(a, c)) ELSE UNCHANGED threads
    BY <1>8 DEF add
  <2> DEFINE c == [Loaded(a, [enabled |-> e, aor |-> x])
                     EXCEPT !.compat = mode, !.status = ""]
  <2>2. x \in Aors
    BY DEF AccountsAssumption
  <2>3. /\ Sound(a, c) /\ ~Waits(c) /\ c.enabled = e /\ c.aor = x
        /\ c.presence = "present" /\ ~c.dead
    BY <2>2 DEF Loaded, Sound, Account, Settled, Asked, Waits, Statuses,
       RegistrationStates
  <2>4. /\ Becomes(a, IF e THEN Enabled(c) ELSE c)
        /\ IF e THEN Starts(subscribe(a, c)) ELSE UNCHANGED threads
        /\ UNCHANGED <<handler, queue>>
    BY <2>1, <1>8 DEF add
  <2> HIDE DEF c
  <2>5. c \in Account /\ subscribe(a, c) \subseteq Requests
    BY <2>2, <2>3, RequestFacts DEF Sound
  <2>6. CASE e
    <3>1. Grows /\ Pending(c.aor)'
      BY <2>3, <2>4, <2>5, <2>6, RequestStep, Registers
    <3>2. /\ Sound(a, Enabled(c)) /\ Enabled(c).aor = c.aor
          /\ Enabled(c).presence = c.presence /\ Enabled(c).dead = c.dead
      BY <2>3, <2>5, EnabledFacts
    <3>3. Moves(account[a], Enabled(c))
      BY <1>8, <2>3, <3>2 DEF add, Moves
    <3> QED
      BY <2>4, <2>6, <3>1, <3>2, <3>3 DEF Changes
  <2>7. CASE ~e
    <3>1. Moves(account[a], c)
      BY <1>8, <2>3 DEF add, Moves
    <3> QED
      BY <2>3, <2>4, <2>5, <2>7, <3>1, RequestStep DEF Changes
  <2> QED
    BY <2>6, <2>7
<1>9. ASSUME NEW x \in AorsOf[a], NEW e \in BOOLEAN, NEW other \in BOOLEAN,
             on_edit_form_submitted(a, x, e, other)
      PROVE  \E c : Changes(a, c)
  <2> DEFINE new == [old EXCEPT !.enabled = e, !.aor = x]
  <2>1. x \in Aors
    BY DEF AccountsAssumption
  <2>2. /\ new \in Account /\ new.aor = x /\ new.enabled = e
        /\ new.presence = old.presence /\ new.dead = old.dead
    BY <1>1, <2>1 DEF Account
  <2>3. /\ UNCHANGED <<handler, queue>>
        /\ \/ /\ ~e /\ Becomes(a, Disabled(new)) /\ Starts(unsubscribe(a, new))
           \/ /\ e /\ Becomes(a, Enabled(new)) /\ Starts(subscribe(a, new))
           \/ /\ ~e /\ Becomes(a, new) /\ UNCHANGED threads
           \/ /\ e /\ x = old.aor /\ old.enabled
              /\ Becomes(a, new) /\ UNCHANGED threads
    BY <1>0, <1>1, <1>9 DEF on_edit_form_submitted, Account
  <2>4. ~e => Sound(a, new) /\ ~Waits(new)
    BY <1>1, <2>1, EditFacts
  <2>5. e /\ x = old.aor /\ old.enabled => new = old
    BY <1>1, <2>1, EditFacts
  <2> HIDE DEF new
  <2>6. unsubscribe(a, new) \subseteq Requests /\ subscribe(a, new) \subseteq Requests
    BY <2>1, <2>2, RequestFacts
  <2>7. Grows
    BY <2>3, <2>6, RequestStep
  <2>moves. Moves(account[a], new)
    BY <1>0, <1>9, <2>2 DEF on_edit_form_submitted, Present, Moves
  <2>8. CASE ~e
    <3>1. Moves(account[a], Disabled(new)) /\ Sound(a, Disabled(new))
          /\ ~Waits(Disabled(new))
      BY <2>4, <2>8, <2>moves, DisabledFacts DEF Moves
    <3> QED
      BY <2>3, <2>4, <2>7, <2>8, <2>moves, <3>1 DEF Changes
  <2>9. CASE e /\ Becomes(a, Enabled(new)) /\ Starts(subscribe(a, new))
    <3>1. /\ Sound(a, Enabled(new)) /\ Enabled(new).aor = x
          /\ Moves(account[a], Enabled(new))
      BY <2>2, <2>moves, EnabledFacts DEF Moves
    <3>2. \E r \in subscribe(a, new) : r.aor = x /\ r.kind # "unregister"
      BY <2>1, <2>2, <2>9, RequestFacts
    <3>3. Pending(x)'
      BY <2>6, <2>9, <3>2, RequestStep DEF Pending
    <3> QED
      BY <2>3, <2>7, <2>9, <3>1, <3>3 DEF Changes
  <2>10. CASE e /\ x = old.aor /\ old.enabled /\ Becomes(a, new)
    BY <1>0, <1>1, <2>3, <2>5, <2>7, <2>10, <2>moves DEF Changes
  <2> QED
    BY <2>3, <2>8, <2>9, <2>10
<1> QED
  BY <1>4, <1>5, <1>6, <1>7, <1>8, <1>9 DEF User

-----------------------------------------------------------------------------
(* The steps of the program, of the threads and of OPAL. *)

LEMMA ReadyFacts ==
  ASSUME AccountsAssumption, IInv, call_manager_ready
  PROVE  /\ \A a \in Accounts : Sound(a, account'[a])
         /\ account' \in [Accounts -> Account] /\ Grows /\ WaitInv'
<1> DEFINE enabled == {a \in Accounts : Present(a) /\ account[a].enabled}
           R == UNION {subscribe(a, account[a]) : a \in enabled}
<1>1. \A a \in Accounts :
        /\ Sound(a, account[a])
        /\ account'[a] = IF a \in enabled THEN Enabled(account[a])
                                          ELSE account[a]
  BY SoundFacts DEF call_manager_ready
<1>2. \A a \in Accounts :
        Sound(a, account'[a]) /\ account'[a].aor = account[a].aor
  BY <1>1, EnabledFacts DEF Sound
<1>3. account' \in [Accounts -> Account]
  BY <1>1, <1>2 DEF Sound, call_manager_ready
<1>4. \A a \in enabled : /\ subscribe(a, account[a]) \subseteq Requests
                         /\ \E r \in subscribe(a, account[a]) :
                              r.aor = account[a].aor /\ r.kind # "unregister"
  BY <1>1, RequestFacts DEF Sound, Account
<1>5. R \subseteq Requests /\ Starts(R)
  BY <1>4 DEF call_manager_ready
<1>6. Grows /\ R \subseteq BagToSet(threads')
  BY <1>5, RequestStep
<1>7. ASSUME NEW a \in Accounts, Waits(account[a])'
      PROVE  Pending(account[a].aor)'
  <2>1. a \in enabled
    BY <1>1, <1>7 DEF Waits, Present
  <2>2. \E r \in BagToSet(threads') :
          r.aor = account'[a].aor /\ r.kind # "unregister"
    BY <1>2, <1>4, <1>6, <2>1
  <2> QED
    BY <2>2 DEF Pending
<1> QED
  BY <1>2, <1>3, <1>6, <1>7 DEF WaitInv

LEMMA RestartFacts ==
  ASSUME AccountsAssumption, IInv, Restart
  PROVE  \A a \in Accounts :
           /\ Sound(a, account'[a]) /\ ~Waits(account'[a])
           /\ as_string(account'[a]) = saved[a]
<1> SUFFICES ASSUME NEW a \in Accounts
             PROVE  /\ Sound(a, account'[a]) /\ ~Waits(account'[a])
                    /\ as_string(account'[a]) = saved[a]
  OBVIOUS
<1>1. Sound(a, account[a])
  BY SoundFacts
<1>2. CASE saved[a] # None
  <2>0. saved[a] = as_string(account[a]) /\ saved[a] \in Entries
    BY <1>2 DEF IInv, TypeOK, SavedInv
  <2>1. saved[a] \in Entries /\ saved[a].aor \in AorsOf[a]
    BY <1>1, <1>2, <2>0 DEF as_string, Sound
  <2>2. account'[a] = Loaded(a, saved[a])
    BY <1>2 DEF Restart
  <2>3. as_string(Loaded(a, saved[a])) = saved[a]
    BY <2>1 DEF as_string, Loaded, Entries
  <2> QED
    BY <2>1, <2>2, <2>3, LoadedFacts
<1>3. CASE saved[a] = None
  <2>1. account'[a] = Absent(a, New) \/ account'[a] = Absent(a, Gone)
    BY <1>3 DEF Restart
  <2> QED
    BY <1>3, <2>1, AbsentFacts
<1> QED
  BY <1>2, <1>3

LEMMA PostFacts ==
  ASSUME AccountsAssumption, IInv,
         NEW x \in Aors, NEW e \in Events, Post(x, e)
  PROVE  /\ queue' \in Seq([aor : Aors, event : Events])
         /\ Len(queue') <= MaxQueue
         /\ Pending(x)'
         /\ \A i \in DOMAIN queue : i \in DOMAIN queue' /\ queue'[i] = queue[i]
<1>1. queue' = Append(queue, [aor |-> x, event |-> e]) /\ Len(queue) < MaxQueue
      /\ queue \in Seq([aor : Aors, event : Events])
  BY DEF Post, IInv, TypeOK
<1>2. /\ queue' \in Seq([aor : Aors, event : Events])
      /\ Len(queue') = Len(queue) + 1
      /\ queue'[Len(queue) + 1].aor = x
      /\ \A i \in 1..Len(queue) : queue'[i] = queue[i]
      /\ DOMAIN queue = 1..Len(queue) /\ DOMAIN queue' = 1..Len(queue')
  BY <1>1
<1>3. Len(queue) + 1 \in DOMAIN queue' /\ DOMAIN queue \subseteq DOMAIN queue'
  BY <1>1, <1>2
<1>4. Pending(x)'
  BY <1>2, <1>3 DEF Pending
<1>5. Len(queue') <= MaxQueue
  BY <1>1, <1>2 DEF AccountsAssumption
<1> QED
  BY <1>2, <1>3, <1>4, <1>5

LEMMA StatusFacts ==
  ASSUME NEW w \in BOOLEAN, NEW ok \in BOOLEAN
  PROVE  RegistrationEvent(w, ok) \in Events
BY DEF RegistrationEvent, Events, RegistrationStates

(* What a thread, OPAL or the registrar does keeps the types, and whoever  *)
(* waited still does.                                                      *)
LEMMA OutsideFacts ==
  ASSUME AccountsAssumption, IInv,
         \/ \E r \in BagToSet(threads) : Runs(r)
         \/ \E x \in Aors : Answers(x) \/ Refreshes(x)
  PROVE  TypeOK' /\ UNCHANGED <<account, saved>>
         /\ \A y \in Aors : Keeps(y)
<1>1. ASSUME NEW r \in BagToSet(threads), Runs(r)
      PROVE  TypeOK' /\ UNCHANGED <<account, saved>>
             /\ \A y \in Aors : Keeps(y)
  <2>1. r \in Requests /\ r.aor \in Aors /\ r.kind \in Kinds
    BY DEF IInv, TypeOK, Requests
  <2>2. /\ IsABag(threads') /\ BagToSet(threads') \subseteq Requests
        /\ BagToSet(threads) \ {r} \subseteq BagToSet(threads')
        /\ UNCHANGED <<account, saved>>
    <3>1. threads' = threads (-) SetToBag({r}) /\ UNCHANGED <<account, saved>>
      BY <1>1 DEF Runs
    <3> QED
      BY <3>1, Dropped DEF IInv, TypeOK
  <2>3. PICK x \in Aors, h \in Busy \cup {"none"} :
          /\ Becoming(x, h)
          /\ \/ h \in Busy /\ UNCHANGED queue
             \/ h = "none" /\ Post(x, RegistrationEvent(TRUE, FALSE))
             \/ /\ h = "none" /\ UNCHANGED queue
                /\ handler[x] = "none" /\ r.kind = "unregister"
          /\ r.kind # "unregister" => x = RegisteredAs[r.aor]
    <3>0. RegisteredAs[r.aor] \in Aors
      BY <2>1 DEF AccountsAssumption
    <3>1. CASE r.kind # "unregister"
      <4>1. Register(RegisteredAs[r.aor], r.kind = "expire")
        BY <1>1, <3>1 DEF Runs
      <4> QED
        BY <3>0, <3>1, <4>1 DEF Register, OnRegistrationStatus, Silent, Busy
    <3>2. CASE r.kind = "unregister"
      <4>1. PICK x \in {r.aor, RegisteredAs[r.aor]} : Unregister(x)
        BY <1>1, <3>2 DEF Runs
      <4> QED
        BY <2>1, <3>0, <3>2, <4>1 DEF Unregister, Busy
    <3> QED
      BY <3>1, <3>2
  <2>4. /\ handler' = [handler EXCEPT ![x] = h]
        /\ handler' \in [Aors -> Busy \cup {"none", "registered", "failed"}]
    BY <2>1, <2>3 DEF Becoming, IInv, TypeOK
  <2>5. /\ queue' \in Seq([aor : Aors, event : Events])
        /\ Len(queue') <= MaxQueue
        /\ \A i \in DOMAIN queue : i \in DOMAIN queue' /\ queue'[i] = queue[i]
    BY <2>1, <2>3, PostFacts, StatusFacts DEF IInv, TypeOK
  <2>6. r.kind # "unregister" \/ handler[x] \in Busy => Pending(x)'
    <3>1. CASE h \in Busy
      BY <2>1, <2>4, <3>1 DEF Pending, IInv, TypeOK
    <3>2. CASE Post(x, RegistrationEvent(TRUE, FALSE))
      BY <2>1, <3>2, PostFacts, StatusFacts
    <3> QED
      BY <2>3, <3>1, <3>2 DEF Busy
  <2>7. ASSUME NEW y \in Aors, IsNamed(y), Pending(y) PROVE Pending(y)'
    <3>1. CASE \E s \in BagToSet(threads) : s.aor = y /\ s.kind # "unregister"
      <4>1. PICK s \in BagToSet(threads) : s.aor = y /\ s.kind # "unregister"
        BY <3>1
      <4>2. CASE s = r
        BY <2>3, <2>6, <2>7, <4>1, <4>2 DEF IsNamed
      <4>3. CASE s # r
        BY <2>2, <4>1, <4>3 DEF Pending
      <4> QED
        BY <4>2, <4>3
    <3>2. CASE handler[y] \in Busy
      BY <2>3, <2>4, <2>6, <3>2 DEF Pending, IInv, TypeOK
    <3>3. CASE \E i \in DOMAIN queue : queue[i].aor = y
      BY <2>5, <3>3 DEF Pending
    <3> QED
      BY <2>7, <3>1, <3>2, <3>3 DEF Pending
  <2> QED
    BY <2>2, <2>4, <2>5, <2>7 DEF TypeOK, IInv, Keeps
<1>2. ASSUME NEW x \in Aors, Answers(x) \/ Refreshes(x)
      PROVE  TypeOK' /\ UNCHANGED <<account, saved>>
             /\ \A y \in Aors : Keeps(y)
  <2>1. \/ UNCHANGED vars
        \/ \E w \in BOOLEAN, ok \in BOOLEAN, h \in {"none", "registered", "failed"} :
             /\ Post(x, RegistrationEvent(w, ok))
             /\ handler' = [handler EXCEPT ![x] = h]
             /\ UNCHANGED <<account, saved, threads>>
    <3>1. CASE Answers(x)
      <4>1. PICK reason \in Reasons, w \in BOOLEAN :
              /\ OnRegistrationStatus(x, w, reason)
              /\ Becoming(x, IF reason \in Silent THEN handler[x]
                              ELSE IF handler[x] # "registering" THEN "none"
                              ELSE IF reason = "Successful_OK" THEN "registered"
                              ELSE "failed")
              /\ UNCHANGED <<account, saved, threads>>
        BY <3>1 DEF Answers
      <4>2. CASE reason \in Silent
        BY <4>1, <4>2 DEF OnRegistrationStatus, Becoming, IInv, TypeOK, vars
      <4>3. CASE reason \notin Silent
        BY <4>1, <4>3 DEF OnRegistrationStatus, Becoming
      <4> QED
        BY <4>2, <4>3
    <3>2. CASE Refreshes(x)
      BY <3>2 DEF Refreshes, OnRegistrationStatus, Silent, Becoming
    <3> QED
      BY <1>2, <3>1, <3>2
  <2>2. CASE UNCHANGED vars
    BY <2>2 DEF vars, IInv, TypeOK, Keeps, Pending
  <2>3. ASSUME NEW w \in BOOLEAN, NEW ok \in BOOLEAN,
               NEW h \in {"none", "registered", "failed"},
               Post(x, RegistrationEvent(w, ok)),
               handler' = [handler EXCEPT ![x] = h],
               UNCHANGED <<account, saved, threads>>
        PROVE  TypeOK' /\ \A y \in Aors : Keeps(y)
    <3>1. /\ queue' \in Seq([aor : Aors, event : Events])
          /\ Len(queue') <= MaxQueue /\ Pending(x)'
          /\ \A i \in DOMAIN queue : i \in DOMAIN queue' /\ queue'[i] = queue[i]
      BY <2>3, PostFacts, StatusFacts
    <3>2. \A y \in Aors : Keeps(y)
      BY <2>3, <3>1 DEF Keeps, Pending, IInv, TypeOK
    <3> QED
      BY <2>3, <3>1, <3>2 DEF TypeOK, IInv
  <2> QED
    BY <2>1, <2>2, <2>3 DEF vars
<1> QED
  BY <1>1, <1>2

-----------------------------------------------------------------------------
(* The answers, in the main loop. *)

(* An answer keeps what is saved of the account, which then waits no more, *)
(* but for the next try of an enabled account.                             *)
AnswerKeeps(a, c, after, event) ==
  /\ c.presence = "present" => after.presence # New
  /\ Sound(a, after) /\ as_string(after) = as_string(c)
  /\ Waits(after) => /\ event = "RegistrationFailed" /\ Retries(c)
                     /\ c.enabled /\ after.aor = c.aor

LEMMA AnswerFacts ==
  ASSUME AccountsAssumption, NEW a \in Accounts, NEW c, Sound(a, c)
  PROVE  /\ AnswerKeeps(a, c, Registered(c), "Registered")
         /\ AnswerKeeps(a, c, Unregistered(a, c), "Unregistered")
         /\ AnswerKeeps(a, c, UnregistrationFailed(c), "UnregistrationFailed")
         /\ AnswerKeeps(a, c, RegistrationFailed(c), "RegistrationFailed")
<1>0. "present" # New
  BY DEF AccountsAssumption
<1>1. AnswerKeeps(a, c, Registered(c), "Registered")
  <2>1. CASE c.state = "Registered"
    <3>1. Registered(c) = c
      BY <2>1 DEF Registered
    <3> QED
      BY <1>0, <2>1, <3>1 DEF AnswerKeeps, Sound, Account, Settled, Waits
  <2>2. CASE c.state # "Registered"
    <3>1. PICK after : after = Registered(c)
      OBVIOUS
    <3>2. after = [c EXCEPT !.state = "Registered", !.status = "Registered",
                            !.subscribed = c.watched, !.notified = FALSE]
      BY <2>2, <3>1 DEF Registered
    <3>3. c \in Account /\ c.watched \in BOOLEAN
      BY DEF Sound, Account
    <3>4. /\ after \in Account /\ after.state = "Registered"
          /\ after.status = "Registered"
          /\ after.subscribed = c.watched /\ after.watched = c.watched
          /\ after.aor = c.aor /\ after.presence = c.presence
          /\ after.enabled = c.enabled /\ after.dead = c.dead
      BY <3>2, <3>3 DEF Account, RegistrationStates, Statuses
    <3>5. Sound(a, after) /\ ~Waits(after) /\ as_string(after) = as_string(c)
      BY <3>4 DEF Sound, Settled, Asked, Waits, as_string
    <3> QED
      BY <1>0, <3>1, <3>4, <3>5 DEF AnswerKeeps
  <2> QED
    BY <2>1, <2>2
<1>2. AnswerKeeps(a, c, Unregistered(a, c), "Unregistered")
  <2>1. CASE c.dead
    BY <2>1, AbsentFacts DEF AnswerKeeps, Unregistered, as_string,
       AccountsAssumption
  <2>2. CASE ~c.dead
    BY <1>0, <2>2 DEF AnswerKeeps, Unregistered, Sound, Account, Settled, Asked, Waits,
       as_string, RegistrationStates, Statuses
  <2> QED
    BY <2>1, <2>2
<1>3. AnswerKeeps(a, c, UnregistrationFailed(c), "UnregistrationFailed")
  BY <1>0 DEF AnswerKeeps, UnregistrationFailed, Sound, Account, Settled, Asked, Waits,
     as_string, RegistrationStates, Statuses
<1>4. AnswerKeeps(a, c, RegistrationFailed(c), "RegistrationFailed")
  <2>1. c.compat \in Modes /\ DOMAIN NextMode = {"FullyCompliant",
          "CannotRegisterMultipleContacts", "CannotRegisterPrivateContacts"}
    BY DEF Sound, Account, NextMode
  <2>2. CASE c.compat \in DOMAIN NextMode
    <3>1. NextMode[c.compat] \in Modes
      BY <2>2 DEF NextMode, Modes
    <3>2. RegistrationFailed(c) = [[c EXCEPT !.state = "RegistrationFailed"]
                                     EXCEPT !.compat = NextMode[c.compat]]
      BY <2>1, <2>2 DEF RegistrationFailed
    <3> QED
      BY <1>0, <2>2, <3>1, <3>2 DEF AnswerKeeps, Sound, Account, Settled, Asked, Waits,
         as_string, RegistrationStates, Retries
  <2>3. CASE c.compat = "HasApplicationLayerGateway"
    <3>1. RegistrationFailed(c) = [[c EXCEPT !.state = "RegistrationFailed"]
             EXCEPT !.compat = "FullyCompliant",
                    !.status = "Could not register", !.notified = TRUE]
      BY <2>1, <2>3 DEF RegistrationFailed
    <3> QED
      BY <1>0, <3>1 DEF AnswerKeeps, Sound, Account, Settled, Asked, Waits, as_string,
         RegistrationStates, Statuses, Modes
  <2>4. CASE c.compat = "uninitialised"
    <3>1. RegistrationFailed(c) = [c EXCEPT !.state = "RegistrationFailed"]
      BY <2>1, <2>4 DEF RegistrationFailed
    <3> QED
      BY <1>0, <2>4, <3>1 DEF AnswerKeeps, Sound, Account, Settled, Asked, Waits, as_string,
         RegistrationStates
  <2> QED
    BY <2>1, <2>2, <2>3, <2>4 DEF Modes
<1> QED
  BY <1>1, <1>2, <1>3, <1>4

(* What the step makes of the account, if any has the address. *)
Hears(a, after, event) ==
  /\ a \in find_account(Head(queue).aor) /\ event = Head(queue).event
  /\ account' = [account EXCEPT ![a] = after]
  /\ AnswerKeeps(a, account[a], after, event)
  /\ IF event = "RegistrationFailed" /\ Retries(account[a])
       THEN Starts(subscribe(a, account[a])) ELSE UNCHANGED threads

LEMMA QueueFacts ==
  ASSUME IInv, queue # <<>>
  PROVE  /\ Head(queue).aor \in Aors /\ Head(queue).event \in Events
         /\ Tail(queue) \in Seq([aor : Aors, event : Events])
         /\ Len(Tail(queue)) <= MaxQueue
         /\ \A i \in DOMAIN queue :
              \/ queue[i] = Head(queue)
              \/ \E j \in DOMAIN Tail(queue) : Tail(queue)[j] = queue[i]
<1>1. queue \in Seq([aor : Aors, event : Events]) /\ Len(queue) <= MaxQueue
  BY DEF IInv, TypeOK
<1>2. /\ Head(queue) \in [aor : Aors, event : Events] /\ Head(queue) = queue[1]
      /\ Tail(queue) \in Seq([aor : Aors, event : Events])
      /\ Len(Tail(queue)) = Len(queue) - 1
      /\ \A j \in 1..Len(Tail(queue)) : Tail(queue)[j] = queue[j + 1]
      /\ DOMAIN queue = 1..Len(queue) /\ Len(queue) \in Nat
      /\ DOMAIN Tail(queue) = 1..Len(Tail(queue))
  <2> DEFINE S == [aor : Aors, event : Events]
  <2>1. queue \in Seq(S) /\ queue # <<>>
    BY <1>1
  <2> HIDE DEF S
  <2>2. /\ Head(queue) \in S /\ Tail(queue) \in Seq(S)
        /\ Len(Tail(queue)) = Len(queue) - 1
        /\ \A j \in 1..Len(Tail(queue)) : Tail(queue)[j] = queue[j + 1]
    BY <2>1, HeadTailProperties
  <2>3. Head(queue) = queue[1]
    BY <2>1
  <2>4. /\ DOMAIN queue = 1..Len(queue) /\ Len(queue) \in Nat
        /\ DOMAIN Tail(queue) = 1..Len(Tail(queue))
    BY <2>1, <2>2, LenProperties
  <2> QED
    BY <2>2, <2>3, <2>4 DEF S
<1>3. ASSUME NEW i \in DOMAIN queue, i # 1
      PROVE  \E j \in DOMAIN Tail(queue) : Tail(queue)[j] = queue[i]
  <2>1. i - 1 \in DOMAIN Tail(queue) /\ Tail(queue)[i - 1] = queue[(i - 1) + 1]
    BY <1>2, <1>3
  <2> QED
    BY <1>2, <1>3, <2>1
<1>4. Len(Tail(queue)) <= MaxQueue
  BY <1>1, <1>2, AccountsAssumption DEF AccountsAssumption
<1> QED
  BY <1>2, <1>3, <1>4

LEMMA EventFacts ==
  ASSUME AccountsAssumption, IInv, on_registration_event
  PROVE  /\ queue # <<>> /\ queue' = Tail(queue) /\ UNCHANGED <<saved, handler>>
         /\ \/ /\ find_account(Head(queue).aor) = {}
               /\ UNCHANGED <<account, threads>>
            \/ \E a \in Accounts : \E after, event : Hears(a, after, event)
<1>1. /\ queue # <<>> /\ queue' = Tail(queue) /\ UNCHANGED <<saved, handler>>
      /\ \/ /\ find_account(Head(queue).aor) = {}
            /\ UNCHANGED <<account, threads>>
         \/ \E a \in find_account(Head(queue).aor) :
              handle_registration_event(a, Head(queue).event)
  BY DEF on_registration_event
<1>2. ASSUME NEW a \in find_account(Head(queue).aor),
             handle_registration_event(a, Head(queue).event)
      PROVE  a \in Accounts /\ \E after, event : Hears(a, after, event)
  <2>1. a \in Accounts
    BY DEF find_account
  <2>2. PICK c, event : c = account[a] /\ event = Head(queue).event
    OBVIOUS
  <2>3. Sound(a, c) /\ event \in Events
    BY <1>1, <2>1, <2>2, SoundFacts, QueueFacts
  <2>4. PICK after : /\ account' = [account EXCEPT ![a] = after]
                     /\ AnswerKeeps(a, c, after, event)
    <3>1. AnswerKeeps(a, c, Registered(c), "Registered")
          /\ AnswerKeeps(a, c, Unregistered(a, c), "Unregistered")
          /\ AnswerKeeps(a, c, UnregistrationFailed(c), "UnregistrationFailed")
          /\ AnswerKeeps(a, c, RegistrationFailed(c), "RegistrationFailed")
      BY <2>1, <2>3, AnswerFacts
    <3>2. \/ event = "Registered" /\ account' = [account EXCEPT ![a] = Registered(c)]
          \/ event = "Unregistered"
             /\ account' = [account EXCEPT ![a] = Unregistered(a, c)]
          \/ event = "UnregistrationFailed"
             /\ account' = [account EXCEPT ![a] = UnregistrationFailed(c)]
          \/ event = "RegistrationFailed"
             /\ account' = [account EXCEPT ![a] = RegistrationFailed(c)]
      BY <1>2, <2>2, <2>3 DEF handle_registration_event, Events,
         RegistrationStates
    <3> QED
      BY <3>1, <3>2
  <2>5. IF event = "RegistrationFailed" /\ Retries(c)
          THEN Starts(subscribe(a, c)) ELSE UNCHANGED threads
    BY <1>2, <2>2 DEF handle_registration_event
  <2>6. Hears(a, after, event)
    BY <2>2, <2>4, <2>5 DEF Hears
  <2> QED
    BY <2>1, <2>6
<1> QED
  BY <1>1, <1>2

-----------------------------------------------------------------------------
(* The invariants. *)

LEMMA InitIInv == Init => IInv /\ WaitInv
<1> SUFFICES ASSUME Init PROVE IInv /\ WaitInv
  OBVIOUS
<1>1. \A a \in Accounts : /\ Sound(a, account[a]) /\ ~Waits(account[a])
                          /\ saved[a] = as_string(account[a])
  <2> SUFFICES ASSUME NEW a \in Accounts
               PROVE  /\ Sound(a, account[a]) /\ ~Waits(account[a])
                      /\ saved[a] = as_string(account[a])
    OBVIOUS
  <2>1. CASE a \in Initial
    <3>1. /\ saved[a] \in Entries /\ saved[a].aor \in AorsOf[a]
          /\ account[a] = Loaded(a, saved[a])
      BY <2>1 DEF Init
    <3>2. as_string(Loaded(a, saved[a])) = saved[a]
      BY <3>1 DEF as_string, Loaded, Entries
    <3> QED
      BY <3>1, <3>2, LoadedFacts, AccountsAssumption
  <2>2. CASE a \notin Initial
    <3>1. saved[a] = None /\ account[a] = Absent(a, New)
      BY <2>2 DEF Init
    <3> QED
      BY <3>1, AbsentFacts, AccountsAssumption
  <2> QED
    BY <2>1, <2>2
<1>2. account = [a \in Accounts |-> account[a]]
      /\ saved \in [Accounts -> Entries \cup {None}]
  BY DEF Init
<1>3. account \in [Accounts -> Account]
  BY <1>1, <1>2 DEF Sound
<1>4. queue \in Seq([aor : Aors, event : Events]) /\ Len(queue) <= MaxQueue
  BY AccountsAssumption DEF Init, AccountsAssumption
<1>5. TypeOK
  BY <1>2, <1>3, <1>4, NoThread DEF Init, TypeOK
<1>6. SavedInv
  BY <1>1, <1>2 DEF SavedInv
<1> QED
  BY <1>1, <1>5, <1>6 DEF IInv, AorInv, SettledInv, WatchedAreSubscribed, Present, Sound,
     Settled, Asked, WaitInv

(* Steps that leave what is saved. *)
LEMMA SavedStep ==
  ASSUME IInv, TypeOK', UNCHANGED saved,
         \A a \in Accounts : /\ Sound(a, account'[a])
                             /\ as_string(account'[a]) = saved[a]
  PROVE  IInv'
<1>1. SavedInv'
  BY DEF IInv, TypeOK, SavedInv
<1> QED
  BY <1>1 DEF IInv, AorInv, SettledInv, WatchedAreSubscribed, Present, Sound, Settled, Asked

LEMMA EventStep ==
  ASSUME AccountsAssumption, IInv, on_registration_event
  PROVE  IInv' /\ Grows
<1>1. /\ queue # <<>> /\ queue' = Tail(queue) /\ UNCHANGED <<saved, handler>>
      /\ \/ /\ find_account(Head(queue).aor) = {}
            /\ UNCHANGED <<account, threads>>
         \/ \E a \in Accounts : \E after, event : Hears(a, after, event)
  BY EventFacts
<1>2. \A a \in Accounts : Sound(a, account[a]) /\ as_string(account[a]) = saved[a]
  BY SoundFacts DEF IInv, SavedInv
<1>3. ASSUME NEW a \in Accounts, NEW after, NEW event, Hears(a, after, event)
      PROVE  /\ \A b \in Accounts : /\ Sound(b, account'[b])
                                    /\ as_string(account'[b]) = saved[b]
             /\ account' \in [Accounts -> Account] /\ Grows
  <2>1. /\ account' = [account EXCEPT ![a] = after]
        /\ Sound(a, after) /\ as_string(after) = as_string(account[a])
    BY <1>3 DEF Hears, AnswerKeeps
  <2>2. subscribe(a, account[a]) \subseteq Requests
    BY <1>2, RequestFacts DEF Sound, Account
  <2>3. Grows
    BY <1>3, <2>2, RequestStep DEF Hears
  <2> QED
    BY <1>2, <2>1, <2>3 DEF IInv, TypeOK, Sound
<1>4. CASE UNCHANGED <<account, threads>>
  <2>1. Grows
    BY <1>4, RequestStep
  <2>2. TypeOK'
    BY <1>1, <1>4, QueueFacts DEF IInv, TypeOK
  <2> QED
    BY <1>1, <1>2, <1>4, <2>1, <2>2, SavedStep
<1>5. CASE \E a \in Accounts : \E after, event : Hears(a, after, event)
  <2>1. TypeOK' /\ Grows
    BY <1>1, <1>3, <1>5, QueueFacts DEF IInv, TypeOK, Grows
  <2> QED
    BY <1>1, <1>3, <1>5, <2>1, SavedStep
<1> QED
  BY <1>1, <1>4, <1>5

LEMMA IInvStep == AccountsAssumption /\ IInv /\ [Next]_vars => IInv'
<1> SUFFICES ASSUME AccountsAssumption, IInv, [Next]_vars PROVE IInv'
  OBVIOUS
<1>1. CASE call_manager_ready
  <2>1. /\ \A a \in Accounts : Sound(a, account'[a])
        /\ account' \in [Accounts -> Account] /\ Grows
    BY <1>1, ReadyFacts
  <2>2. SavedInv' /\ UNCHANGED <<handler, queue>>
    BY <1>1 DEF call_manager_ready, save, SavedInv
  <2>3. \A a \in Accounts : as_string(account'[a]) \in Entries \cup {None}
    BY <2>1 DEF as_string, Account, Entries
  <2>4. TypeOK'
    BY <2>1, <2>2, <2>3 DEF IInv, TypeOK, SavedInv, Grows
  <2> QED
    BY <2>1, <2>2, <2>4 DEF IInv, AorInv, SettledInv, WatchedAreSubscribed, Present, Sound,
       Settled, Asked
<1>2. CASE Restart
  <2>1. \A a \in Accounts : /\ Sound(a, account'[a])
                            /\ as_string(account'[a]) = saved[a]
    BY <1>2, RestartFacts
  <2>2. account' \in [Accounts -> Account]
    BY <1>2, <2>1 DEF Restart, Sound
  <2>3. queue' \in Seq([aor : Aors, event : Events]) /\ Len(queue') <= MaxQueue
    BY <1>2, AccountsAssumption DEF Restart, AccountsAssumption
  <2>4. TypeOK' /\ UNCHANGED saved
    BY <1>2, <2>2, <2>3, NoThread DEF Restart, IInv, TypeOK
  <2> QED
    BY <2>1, <2>4, SavedStep
<1>3. CASE on_registration_event
  BY <1>3, EventStep
<1>4. ASSUME NEW a \in Accounts, User(a) PROVE IInv'
  BY <1>4, UserChanges, UserStep DEF Changes
<1>5. CASE \/ \E r \in BagToSet(threads) : Runs(r)
           \/ \E x \in Aors : Answers(x) \/ Refreshes(x)
  <2>1. TypeOK' /\ UNCHANGED <<account, saved>>
    BY <1>5, OutsideFacts
  <2> QED
    BY <2>1, SoundFacts, SavedStep DEF IInv, SavedInv
<1>6. CASE UNCHANGED vars
  <2>1. TypeOK' /\ UNCHANGED <<account, saved>>
    BY <1>6 DEF vars, IInv, TypeOK
  <2> QED
    BY <2>1, SoundFacts, SavedStep DEF IInv, SavedInv
<1> QED
  BY <1>1, <1>2, <1>3, <1>4, <1>5, <1>6 DEF Next

(* Where no address is shared, whoever waits on the address of an event is *)
(* the account that hears it.                                              *)
LEMMA WaitStep ==
  ASSUME AccountsAssumption, OneAccountPerAor, IInv, WaitInv, [Next]_vars
  PROVE  WaitInv'
<1>1. CASE call_manager_ready
  BY <1>1, ReadyFacts
<1>2. CASE Restart
  BY <1>2, RestartFacts DEF WaitInv
<1>3. CASE on_registration_event
  <2>1. /\ queue # <<>> /\ queue' = Tail(queue) /\ UNCHANGED handler
        /\ \/ /\ find_account(Head(queue).aor) = {}
              /\ UNCHANGED <<account, threads>>
           \/ \E a \in Accounts : \E after, event : Hears(a, after, event)
    BY <1>3, EventFacts
  <2>2. Grows
    BY <1>3, EventStep
  <2>3. \A y : y # Head(queue).aor /\ Pending(y) => Pending(y)'
    BY <2>1, <2>2, QueueFacts DEF Pending, Grows
  <2>4. \A b \in Accounts : Waits(account[b]) /\ account[b].aor = Head(queue).aor
                              => b \in find_account(Head(queue).aor)
    BY DEF Waits, find_account, Present
  <2>5. CASE UNCHANGED account /\ find_account(Head(queue).aor) = {}
    <3> SUFFICES ASSUME NEW b \in Accounts, Waits(account[b])'
                 PROVE  Pending(account[b].aor)'
      BY DEF WaitInv
    <3>1. PICK y : y = account[b].aor
      OBVIOUS
    <3>2. y # Head(queue).aor /\ Pending(y) /\ account'[b].aor = y
      BY <2>4, <2>5, <3>1 DEF WaitInv
    <3> QED
      BY <2>3, <3>2
  <2>6. ASSUME NEW a \in Accounts, NEW after, NEW event, Hears(a, after, event)
        PROVE  WaitInv'
    <3> SUFFICES ASSUME NEW b \in Accounts, Waits(account[b])'
                 PROVE  Pending(account[b].aor)'
      BY DEF WaitInv
    <3>1. /\ account' = [account EXCEPT ![a] = after]
          /\ account[a].aor = Head(queue).aor
      BY <2>6 DEF Hears, find_account
    <3>2. CASE b = a
      <4>1. account'[b] = after
        BY <3>1, <3>2 DEF IInv, TypeOK
      <4>2. PICK c : c = account[a]
        OBVIOUS
      <4>3. /\ Starts(subscribe(a, c)) /\ c.enabled /\ Sound(a, c)
            /\ after.aor = c.aor
        BY <2>6, <4>1, <4>2, <3>2, SoundFacts DEF Hears, AnswerKeeps
      <4>4. Pending(c.aor)'
        BY <4>3, Registers
      <4> QED
        BY <4>1, <4>3, <4>4
    <3>3. CASE b # a
      <4>1. PICK y : y = account[b].aor
        OBVIOUS
      <4>2. account'[b] = account[b] /\ Waits(account[b])
        BY <3>1, <3>3 DEF IInv, TypeOK
      <4>3. y # Head(queue).aor
        BY <3>1, <3>3, <4>1 DEF OneAccountPerAor, IInv, AorInv
      <4>4. Pending(y)
        BY <4>1, <4>2 DEF WaitInv
      <4>5. Pending(y)'
        BY <2>3, <4>3, <4>4
      <4> QED
        BY <4>1, <4>2, <4>5
    <3> QED
      BY <3>2, <3>3
  <2> QED
    BY <2>1, <2>5, <2>6
<1>4. ASSUME NEW a \in Accounts, User(a) PROVE WaitInv'
  <2>1. PICK c : Changes(a, c)
    BY <1>4, UserChanges
  <2>2. PICK x : x = account[a].aor
    OBVIOUS
  <2>3. Pending(x) => Pending(x)'
    BY <2>1 DEF Changes, Grows, Pending
  <2>4. Waits(c) => Pending(c.aor)'
    BY <2>1, <2>2, <2>3 DEF Changes, WaitInv
  <2> QED
    BY <2>1, <2>4, UserStepWaits DEF Changes
<1>5. CASE \/ \E r \in BagToSet(threads) : Runs(r)
           \/ \E x \in Aors : Answers(x) \/ Refreshes(x)
  <2>1. UNCHANGED account /\ \A y \in Aors : Keeps(y)
    BY <1>5, OutsideFacts
  <2> SUFFICES ASSUME NEW b \in Accounts, Waits(account[b])'
               PROVE  Pending(account[b].aor)'
    BY DEF WaitInv
  <2>2. PICK y : y = account[b].aor
    OBVIOUS
  <2>3. y \in Aors /\ IsNamed(y) /\ Pending(y)
    BY <2>1, <2>2 DEF WaitInv, Waits, IInv, TypeOK, Account
  <2> QED
    BY <2>1, <2>2, <2>3 DEF Keeps
<1>6. CASE UNCHANGED vars
  BY <1>6 DEF vars, WaitInv, Pending
<1> QED
  BY <1>1, <1>2, <1>3, <1>4, <1>5, <1>6 DEF Next

LEMMA InvariantHolds == Spec => []IInv
<1>1. IInv /\ [Next]_vars => IInv'
  BY IInvStep, AccountsAssumption
<1> QED
  BY <1>1, InitIInv, PTL DEF Spec

-----------------------------------------------------------------------------
(* The variables of Opal::Bank and of OPAL keep their types. *)
THEOREM TypeCorrect == Spec => []TypeOK
<1>1. IInv => TypeOK
  BY DEF IInv
<1> QED
  BY <1>1, InvariantHolds, PTL

(* The presence of whoever is watched was asked for by every account that  *)
(* is registered and enabled, also where accounts share an address.        *)
THEOREM SubscribedCorrect == Spec => []WatchedAreSubscribed
<1>1. IInv => WatchedAreSubscribed
  BY DEF IInv
<1> QED
  BY <1>1, InvariantHolds, PTL

LEMMA NothingPending ==
  ASSUME Quiet, NEW x \in Aors
  PROVE  ~Pending(x)
BY NoThread DEF Quiet, Pending

(* Where no two accounts share an address: once nothing is under way, no   *)
(* enabled account whose host has no port waits for an outcome or shows    *)
(* "Processing...", and one whose registration failed has been through     *)
(* every compatibility mode and told the user.                             *)
THEOREM OutcomeCorrect ==
  ASSUME OneAccountPerAor PROVE Spec => []OutcomeIsShown
<1>1. Init => IInv /\ WaitInv
  BY InitIInv
<1>2. IInv /\ WaitInv /\ [Next]_vars => IInv' /\ WaitInv'
  BY IInvStep, WaitStep, OneAccountPerAor, AccountsAssumption
<1>3. IInv /\ WaitInv => OutcomeIsShown
  <2> SUFFICES ASSUME IInv, WaitInv, Quiet, NEW a \in Accounts
               PROVE  ~Waits(account[a])
    BY DEF OutcomeIsShown, EnabledIsAnswered, FailureIsNotified, Waits, Present
  <2>1. account[a].aor \in Aors
    BY DEF IInv, TypeOK, Account
  <2> QED
    BY <2>1, NothingPending DEF WaitInv
<1> QED
  BY <1>1, <1>2, <1>3, PTL DEF Spec

-----------------------------------------------------------------------------
(* Accounts implements AccountStore. *)

(* Shown, of an account that changes. *)
Appears(c) ==
  IF c.presence # "present" THEN c.presence
    ELSE IF c.dead THEN Gone
    ELSE [enabled |-> c.enabled, aor |-> c.aor]

ShownInv ==
  \A a \in Accounts : Shown(a) = Appears(account[a]) /\ Kept(a) = Shown(a)

LEMMA ShownFacts ==
  ASSUME AccountsAssumption, IInv, NEW a \in Accounts
  PROVE  /\ Shown(a) = Appears(account[a])
         /\ Kept(a) = Shown(a)
         /\ Shown(a) \in Entries \cup {New, Gone}
<1>1. saved[a] = as_string(account[a]) /\ account[a] \in Account
  BY DEF IInv, TypeOK, SavedInv
<1>2. \A e \in Entries : e # None
  BY DEF AccountsAssumption, Entries
<1>3. Shown(a) = Appears(account[a])
  BY DEF Shown, Appears, Present
<1>4. account[a].presence = "present" /\ ~account[a].dead =>
        [enabled |-> account[a].enabled, aor |-> account[a].aor] \in Entries
  BY <1>1 DEF Account, Entries
<1>5. "present" # New /\ account[a].presence \in {"present", New, Gone}
  BY <1>1 DEF AccountsAssumption, Account
<1> QED
  BY <1>1, <1>2, <1>3, <1>4, <1>5 DEF Kept, Appears, as_string

(* Accounts of which the same is saved look the same, unless one of them   *)
(* is yet to be added.                                                     *)
LEMMA SameAppearance ==
  ASSUME AccountsAssumption, NEW c \in Account, NEW d \in Account,
         as_string(c) = as_string(d), c.presence = New <=> d.presence = New
  PROVE  Appears(c) = Appears(d)
<1>1. /\ None \notin Entries /\ "present" # New /\ "present" # Gone /\ New # Gone
      /\ c.presence \in {"present", New, Gone}
      /\ d.presence \in {"present", New, Gone}
  BY DEF AccountsAssumption, Entries, Account
<1>2. /\ [enabled |-> c.enabled, aor |-> c.aor] \in Entries
      /\ [enabled |-> d.enabled, aor |-> d.aor] \in Entries
  BY DEF Account, Entries
<1> QED
  BY <1>1, <1>2 DEF as_string, Appears

(* What a step of the user does to the entry of its account. *)
LEMMA MovesFacts ==
  ASSUME AccountsAssumption, NEW old \in Account, NEW c \in Account,
         Moves(old, c)
  PROVE  \/ Appears(old) = New /\ Appears(c) \in Entries
         \/ Appears(old) \in Entries /\ Appears(c) \in Entries \cup {Gone}
         \/ Appears(c) = Appears(old)
<1>1. "present" # New /\ "present" # Gone /\ New # Gone
  BY DEF AccountsAssumption
<1>2. /\ c.presence \in {"present", New, Gone}
      /\ [enabled |-> c.enabled, aor |-> c.aor] \in Entries
      /\ [enabled |-> old.enabled, aor |-> old.aor] \in Entries
  BY DEF Account, Entries
<1> QED
  BY <1>1, <1>2 DEF Moves, Appears

LEMMA StoreStep ==
  ASSUME AccountsAssumption, IInv, ShownInv, IInv', ShownInv', [Next]_vars
  PROVE  [Store!Next]_(Store!vars)
<1> DEFINE shown == [a \in Accounts |-> Shown(a)]
           kept  == [a \in Accounts |-> Kept(a)]
<1>1. /\ \A a \in Accounts : Shown(a) = Appears(account[a]) /\ Kept(a) = Shown(a)
      /\ kept = shown
  BY DEF ShownInv
<1>2. \A a \in Accounts : /\ Shown(a)' = Appears(account'[a])
                          /\ Kept(a)' = Shown(a)'
                          /\ account'[a] \in Account /\ account[a] \in Account
  BY DEF ShownInv, Appears, IInv, TypeOK
<1>3. ASSUME \A a \in Accounts : Appears(account'[a]) = Appears(account[a])
      PROVE  UNCHANGED Store!vars
  BY <1>1, <1>2, <1>3 DEF Store!vars
<1>4. ASSUME NEW a \in Accounts, User(a)
      PROVE  [Store!Next]_(Store!vars)
  <2>1. PICK c : Sound(a, c) /\ Moves(account[a], c)
                 /\ account' = [account EXCEPT ![a] = c]
    BY <1>4, UserChanges DEF Changes, Becomes
  <2>2. PICK old : old = account[a]
    OBVIOUS
  <2>3. /\ account'[a] = c /\ \A b \in Accounts \ {a} : account'[b] = account[b]
        /\ c \in Account /\ old \in Account
    BY <2>1, <2>2 DEF IInv, TypeOK, Sound
  <2>4. \/ Appears(old) = New /\ Appears(c) \in Entries
        \/ Appears(old) \in Entries /\ Appears(c) \in Entries \cup {Gone}
        \/ Appears(c) = Appears(old)
    BY <2>1, <2>2, <2>3, MovesFacts
  <2>5. shown' = [shown EXCEPT ![a] = Appears(c)] /\ kept' = shown'
    <3>1. \A b \in Accounts : /\ Shown(b)' = IF b = a THEN Appears(c) ELSE Shown(b)
                              /\ Kept(b)' = Shown(b)'
      BY <1>1, <1>2, <2>3
    <3> QED
      BY <3>1
  <2>6. shown[a] = Appears(old)
    BY <1>1, <2>2
  <2>7. CASE Appears(c) = Appears(old)
    BY <1>3, <2>2, <2>3, <2>7
  <2> HIDE DEF shown, kept
  <2>8. CASE Appears(old) = New /\ Appears(c) \in Entries
    BY <2>5, <2>6, <2>8 DEF Store!Next, Store!Add, Store!Becomes, Store!Entries,
       Entries, shown, kept
  <2>9. CASE Appears(old) \in Entries /\ Appears(c) \in Entries \cup {Gone}
    BY <2>5, <2>6, <2>9 DEF Store!Next, Store!Change, Store!Remove,
       Store!Becomes, Store!Entries, Entries, shown, kept
  <2> QED
    BY <2>4, <2>7, <2>8, <2>9
<1>5. CASE call_manager_ready
  <2>1. ASSUME NEW c \in Account, c.enabled
        PROVE  Appears(Enabled(c)) = Appears(c)
    <3>1. /\ Enabled(c).presence = c.presence /\ Enabled(c).dead = c.dead
          /\ Enabled(c).enabled = c.enabled /\ Enabled(c).aor = c.aor
      BY <2>1 DEF Enabled, Account
    <3> QED
      BY <3>1 DEF Appears
  <2>2. \A a \in Accounts : Appears(account'[a]) = Appears(account[a])
    BY <1>2, <1>5, <2>1 DEF call_manager_ready
  <2> QED
    BY <1>3, <2>2
<1>6. CASE Restart
  <2>1. ASSUME NEW a \in Accounts
        PROVE  Appears(account'[a]) = Appears(account[a])
    <3>1. as_string(account'[a]) = as_string(account[a])
      BY <1>6, RestartFacts DEF IInv, SavedInv
    <3>2. account'[a].presence = New <=> account[a].presence = New
      <4>1. CASE saved[a] # None
        <5>1. account'[a].presence = "present"
          BY <1>6, <4>1 DEF Restart, Loaded
        <5>2. account[a].presence = "present"
          BY <4>1 DEF IInv, SavedInv, as_string
        <5> QED
          BY <5>1, <5>2
      <4>2. CASE saved[a] = None
        BY <1>6, <4>2, AbsentFacts DEF Restart, AccountsAssumption
      <4> QED
        BY <4>1, <4>2
    <3> QED
      BY <1>2, <3>1, <3>2, SameAppearance
  <2> QED
    BY <1>3, <2>1
<1>7. CASE on_registration_event
  <2>1. CASE UNCHANGED account
    BY <1>3, <2>1
  <2>2. ASSUME NEW a \in Accounts, NEW after, NEW event, Hears(a, after, event)
        PROVE  UNCHANGED Store!vars
    <3>1. /\ account' = [account EXCEPT ![a] = after] /\ Sound(a, after)
          /\ as_string(after) = as_string(account[a])
          /\ account[a].presence = "present" /\ after.presence # New
      BY <2>2 DEF Hears, AnswerKeeps, find_account, Present
    <3>2. Appears(after) = Appears(account[a])
      BY <1>2, <3>1, SameAppearance DEF AccountsAssumption, Sound
    <3> QED
      BY <1>3, <3>1, <3>2 DEF IInv, TypeOK
  <2> QED
    BY <1>7, <2>1, <2>2, EventFacts
<1>8. CASE \/ \E r \in BagToSet(threads) : Runs(r)
           \/ \E x \in Aors : Answers(x) \/ Refreshes(x)
  BY <1>3, <1>8, OutsideFacts
<1>9. CASE UNCHANGED vars
  BY <1>3, <1>9 DEF vars
<1> QED
  BY <1>4, <1>5, <1>6, <1>7, <1>8, <1>9 DEF Next

(* An account is as the user last left it, through every answer of the      *)
(* registrars and every restart, and one that was removed never comes back, *)
(* also where accounts share an address: each step is one of AccountStore.  *)
THEOREM StoreCorrect == Spec => StoreImplemented
<1>1. Init => Store!Init
  <2> SUFFICES ASSUME Init PROVE Store!Init
    OBVIOUS
  <2>1. IInv
    BY InitIInv
  <2>2. \A a \in Accounts : Kept(a) = Shown(a) /\ Shown(a) \in Entries \cup {New}
    <3> SUFFICES ASSUME NEW a \in Accounts
                 PROVE  Kept(a) = Shown(a) /\ Shown(a) \in Entries \cup {New}
      OBVIOUS
    <3>1. Kept(a) = Shown(a) /\ Shown(a) = Appears(account[a])
      BY <2>1, ShownFacts, AccountsAssumption
    <3>2. CASE a \in Initial
      BY <3>1, <3>2 DEF Init, Loaded, Appears, Entries
    <3>3. CASE a \notin Initial
      BY <3>1, <3>3, AbsentFacts, AccountsAssumption
      DEF Init, Appears, AccountsAssumption
    <3> QED
      BY <3>1, <3>2, <3>3
  <2> QED
    BY <2>2 DEF Store!Init, Store!Entries, Entries
<1>2. IInv => ShownInv
  BY ShownFacts, AccountsAssumption DEF ShownInv
<1>3. /\ IInv /\ ShownInv /\ IInv' /\ ShownInv' /\ [Next]_vars
      => [Store!Next]_(Store!vars)
  BY StoreStep, AccountsAssumption
<1> QED
  BY <1>1, <1>2, <1>3, InvariantHolds, PTL DEF Spec, StoreImplemented, Store!Spec
=============================================================================
