---------------------------- MODULE People_proofs ----------------------------
(***************************************************************************)
(* Theorems about Presence, for any contacts, chats, uris and accounts.    *)
(* What a handler does is a record s, as in Presence; the invariants are   *)
(* stated of such a record and of who is interested in which uri, w, since *)
(* an edited contact fetches its new uri while it still shows the old one. *)
(***************************************************************************)
EXTENDS People, Functions, FiniteSetTheorems, SequenceTheorems, TLAPS

Shows == [Presentities -> Post \cup {None}]

Records == [infos : [Uris -> UriInfo \cup {None}], shown : Shows,
            accounts : [Accounts -> Account \cup {None}],
            posts : Seq(Post), told : [Uris -> Info]]

Unposted(s, u) == \A i \in DOMAIN s.posts : s.posts[i].uri # u

(* Each uri is counted as often as it is shown. *)
Counted(s, w) ==
  \A u \in Uris : Cardinality(Interest(w, u)) = Entry(s, u).count

(* The accounts watch what is shown, all of it once the bank is a fetcher. *)
Watching(s, w, b) ==
  \A a \in Accounts :
    /\ a \notin Late => s.accounts[a] # None
    /\ s.accounts[a] # None =>
         /\ s.accounts[a].subscribed \subseteq s.accounts[a].watched
         /\ \A u \in s.accounts[a].watched : u \in UrisOf[a] /\ Interest(w, u) # {}
         /\ b /\ a \notin Late =>
              \A u \in UrisOf[a] :
                Interest(w, u) # {} => u \in s.accounts[a].watched

(* What is posted last about a uri is what was told last; without a post,  *)
(* PresenceCore knows it.  Both come from an account of that uri.          *)
LastIsTold(s) ==
  \A i \in DOMAIN s.posts :
    (\A j \in DOMAIN s.posts : i < j => s.posts[j].uri # s.posts[i].uri)
      => s.posts[i].info = s.told[s.posts[i].uri]

Settled(s) ==
  \A u \in Uris : Unposted(s, u) => Entry(s, u).info = s.told[u]

FromAnAccount(s) ==
  \A u \in Uris :
    s.told[u] # Unknown \/ ~Unposted(s, u) =>
      \E a \in Accounts : s.accounts[a] # None /\ u \in UrisOf[a]

(* Whoever was not edited shows what PresenceCore knows. *)
ShownIsKnown(s, w) ==
  \A p \in Presentities \ Editable :
    w[p] # None => w[p].info = Entry(s, w[p].uri).info

(* Nothing happens before the bank is a fetcher. *)
Quiet(s, b) ==
  ~b => /\ s.posts = <<>>
        /\ \A u \in Uris :
             /\ s.told[u] = Unknown
             /\ s.infos[u] # None => s.infos[u].count > 0 /\ s.infos[u].info = Unknown
        /\ \A a \in Accounts : s.accounts[a] # None => s.accounts[a].watched = {}

Consistent(s, w, b) ==
  /\ Counted(s, w) /\ Watching(s, w, b)
  /\ LastIsTold(s) /\ Settled(s) /\ FromAnAccount(s)
  /\ ShownIsKnown(s, w) /\ Quiet(s, b)

IInv == TypeOK /\ Consistent(Now, presentity, bank)

-----------------------------------------------------------------------------
(* The records that the handlers make *)

LEMMA BecomesTheRecord ==
  ASSUME NEW r \in Records, Becomes(r)
  PROVE  Now' = r
  BY DEF Now, Becomes, Records

LEMMA NowIsARecord == TypeOK => Now \in Records
  BY DEF TypeOK, Now, Records, Shows

LEMMA EntryType ==
  ASSUME NEW s \in Records, NEW u \in Uris
  PROVE  /\ Entry(s, u) \in UriInfo
         /\ s.infos[u] # None => Entry(s, u) = s.infos[u]
         /\ s.infos[u] = None => Entry(s, u).count = 0 /\ Entry(s, u).info = Unknown
  BY DEF Entry, Records, UriInfo, Unknown, Info, Notes

LEMMA UnknownType == Unknown \in Info
  BY DEF Unknown, Info, Notes

(* What is heard of a uri is shown by its presentities, and only there. *)
LEMMA HeardFacts ==
  ASSUME NEW s \in Records, NEW u \in Uris, NEW info \in Info
  PROVE  /\ Heard(s, u, info) \in Records
         /\ Heard(s, u, info) = [s EXCEPT !.shown = Heard(s, u, info).shown]
         /\ \A p \in Presentities :
              Heard(s, u, info).shown[p] =
                IF s.shown[p] # None /\ s.shown[p].uri = u
                  THEN [s.shown[p] EXCEPT !.info = info] ELSE s.shown[p]
<1> DEFINE h == [p \in Presentities |->
                   IF s.shown[p] # None /\ s.shown[p].uri = u
                     THEN [s.shown[p] EXCEPT !.info = info] ELSE s.shown[p]]
<1>1. Heard(s, u, info) = [s EXCEPT !.shown = h]
  BY DEF Heard, Records
<1>2. h \in Shows
  BY DEF Records, Shows, Post
<1>3. [s EXCEPT !.shown = h] \in Records /\ [s EXCEPT !.shown = h].shown = h
  BY <1>2 DEF Records
<1> QED
  BY <1>1, <1>3

(* Fetching counts one more, and asks the accounts when it is the first. *)
LEMMA FetchFacts ==
  ASSUME NEW s \in Records, NEW u \in Uris, bank \in BOOLEAN, PresenceAssumption
  PROVE  /\ fetch_presence(s, u) \in Records
         /\ fetch_presence(s, u).infos =
              [s.infos EXCEPT ![u] = [Entry(s, u) EXCEPT !.count = @ + 1]]
         /\ fetch_presence(s, u).posts = s.posts
         /\ fetch_presence(s, u).told = s.told
         /\ fetch_presence(s, u).accounts =
              IF Entry(s, u).count = 0 /\ bank
                THEN Bank_fetch(s, {u}).accounts ELSE s.accounts
         /\ \A p \in Presentities :
              fetch_presence(s, u).shown[p] =
                IF s.shown[p] # None /\ s.shown[p].uri = u
                  THEN [s.shown[p] EXCEPT !.info = Entry(s, u).info]
                  ELSE s.shown[p]
<1> DEFINE e == [Entry(s, u) EXCEPT !.count = @ + 1]
           counted == [s EXCEPT !.infos[u] = e]
           asked == IF counted.infos[u].count = 1 /\ bank
                      THEN Bank_fetch(counted, {u}) ELSE counted
           accounts == [a \in Accounts |->
                          IF s.accounts[a] = None THEN None
                            ELSE Fetched(s.accounts[a], {u} \cap UrisOf[a])]
<1>1. /\ Entry(s, u) \in UriInfo /\ e \in UriInfo
      /\ e.count = Entry(s, u).count + 1 /\ e.info = Entry(s, u).info
  BY EntryType DEF UriInfo
<1>2. /\ counted \in Records /\ counted.infos = [s.infos EXCEPT ![u] = e]
      /\ counted.infos[u] = e /\ counted.shown = s.shown
      /\ counted.accounts = s.accounts
      /\ counted.posts = s.posts /\ counted.told = s.told
  BY <1>1 DEF Records
<1>3. accounts \in [Accounts -> Account \cup {None}]
  <2> SUFFICES ASSUME NEW a \in Accounts, s.accounts[a] # None
               PROVE  Fetched(s.accounts[a], {u} \cap UrisOf[a]) \in Account
    OBVIOUS
  <2>1. s.accounts[a] \in Account
    BY DEF Records
  <2> QED
    BY <2>1 DEF Fetched, Account
<1>4. /\ Bank_fetch(counted, {u}) = [counted EXCEPT !.accounts = accounts]
      /\ Bank_fetch(s, {u}) = [s EXCEPT !.accounts = accounts]
  BY <1>2 DEF Bank_fetch, Records
<1>5. /\ asked \in Records /\ asked.infos = counted.infos
      /\ asked.shown = s.shown /\ asked.posts = s.posts /\ asked.told = s.told
      /\ asked.accounts = IF Entry(s, u).count = 0 /\ bank
                            THEN Bank_fetch(s, {u}).accounts ELSE s.accounts
  <2>1. e.count = 1 <=> Entry(s, u).count = 0
    BY <1>1 DEF UriInfo
  <2> HIDE DEF accounts, counted, e
  <2>2. [counted EXCEPT !.accounts = accounts] \in Records
    BY <1>2, <1>3 DEF Records
  <2> QED
    BY <1>2, <1>4, <2>1, <2>2 DEF Records
<1>6. fetch_presence(s, u) = Heard(asked, u, Entry(s, u).info)
  BY <1>1, <1>2 DEF fetch_presence
<1>7. Entry(s, u).info \in Info
  BY <1>1 DEF UriInfo
<1> HIDE DEF asked, counted, e, accounts
<1>8. /\ Heard(asked, u, Entry(s, u).info) \in Records
      /\ Heard(asked, u, Entry(s, u).info)
           = [asked EXCEPT !.shown = Heard(asked, u, Entry(s, u).info).shown]
      /\ \A p \in Presentities :
           Heard(asked, u, Entry(s, u).info).shown[p] =
             IF asked.shown[p] # None /\ asked.shown[p].uri = u
               THEN [asked.shown[p] EXCEPT !.info = Entry(s, u).info]
               ELSE asked.shown[p]
  BY <1>5, <1>7, HeardFacts
<1>9. /\ fetch_presence(s, u).infos = asked.infos
      /\ fetch_presence(s, u).posts = asked.posts
      /\ fetch_presence(s, u).told = asked.told
      /\ fetch_presence(s, u).accounts = asked.accounts
  BY <1>5, <1>6, <1>8 DEF Records
<1> QED
  BY <1>2, <1>5, <1>6, <1>8, <1>9 DEF e

(* What is said of a uri is posted after everything else, and is what was  *)
(* told last.                                                              *)
LEMMA SaysFacts ==
  ASSUME NEW s \in Records, NEW posts \in Seq(Post),
         \A i \in DOMAIN posts : posts[i].info = Unknown
  PROVE  /\ Says(s, posts) \in Records
         /\ Says(s, posts).infos = s.infos /\ Says(s, posts).shown = s.shown
         /\ Says(s, posts).accounts = s.accounts
         /\ Says(s, posts).posts = s.posts \o posts
         /\ \A u \in Uris :
              /\ Says(s, posts).told[u] =
                   IF \E i \in DOMAIN posts : posts[i].uri = u
                     THEN Unknown ELSE s.told[u]
              /\ Unposted(Says(s, posts), u) <=>
                   Unposted(s, u) /\ \A i \in DOMAIN posts : posts[i].uri # u
         /\ LastIsTold(s) => LastIsTold(Says(s, posts))
<1> DEFINE r == Says(s, posts)
           told_ == [u \in Uris |-> IF \E i \in DOMAIN posts : posts[i].uri = u
                                      THEN Unknown ELSE s.told[u]]
<1>1. /\ r \in Records /\ r.infos = s.infos /\ r.shown = s.shown
      /\ r.accounts = s.accounts /\ r.posts = s.posts \o posts /\ r.told = told_
  <2>1. r = [s EXCEPT !.posts = s.posts \o posts, !.told = told_]
    BY DEF Says, Records
  <2>2. s.posts \in Seq(Post)
    BY DEF Records
  <2>3. s.posts \o posts \in Seq(Post)
    BY <2>2
  <2>4. told_ \in [Uris -> Info]
    BY UnknownType DEF Records
  <2> HIDE DEF r, told_
  <2> QED
    BY <2>1, <2>3, <2>4 DEF Records
<1> HIDE DEF r
<1>2. \A u \in Uris : r.told[u] = IF \E i \in DOMAIN posts : posts[i].uri = u
                                    THEN Unknown ELSE s.told[u]
  BY <1>1
<1> HIDE DEF told_
<1> DEFINE m == Len(s.posts)
           n == Len(posts)
<1>3. /\ m \in Nat /\ n \in Nat /\ s.posts \in Seq(Post) /\ r.posts \in Seq(Post)
      /\ DOMAIN s.posts = 1..m /\ DOMAIN posts = 1..n /\ DOMAIN r.posts = 1..(m + n)
      /\ \A i \in 1..m : r.posts[i] = s.posts[i]
      /\ \A i \in 1..n : r.posts[m + i] = posts[i]
  BY <1>1 DEF Records
<1>4. \A i \in 1..(m + n) : i \notin 1..m => i - m \in 1..n /\ r.posts[i] = posts[i - m]
  <2> SUFFICES ASSUME NEW i \in 1..(m + n), i \notin 1..m
               PROVE  i - m \in 1..n /\ r.posts[i] = posts[i - m]
    OBVIOUS
  <2>1. i - m \in 1..n /\ m + (i - m) = i
    BY <1>3
  <2> QED
    BY <1>3, <2>1
<1> HIDE DEF m, n
<1>5. ASSUME NEW u \in Uris
      PROVE  Unposted(r, u) <=> Unposted(s, u) /\ \A i \in DOMAIN posts : posts[i].uri # u
  <2>1. ASSUME Unposted(r, u)
        PROVE  Unposted(s, u) /\ \A i \in DOMAIN posts : posts[i].uri # u
    <3>1. \A i \in 1..m : i \in 1..(m + n)
      BY <1>3
    <3>2. \A i \in 1..n : m + i \in 1..(m + n)
      BY <1>3
    <3> QED
      BY <1>3, <2>1, <3>1, <3>2 DEF Unposted
  <2>2. ASSUME Unposted(s, u), \A i \in DOMAIN posts : posts[i].uri # u
        PROVE  Unposted(r, u)
    BY ZenonT(60), <1>3, <1>4, <2>2 DEF Unposted
  <2> QED
    BY <2>1, <2>2
<1>6. ASSUME LastIsTold(s)
      PROVE  LastIsTold(r)
  <2> SUFFICES ASSUME NEW i \in 1..(m + n),
                      \A j \in 1..(m + n) : i < j => r.posts[j].uri # r.posts[i].uri
               PROVE  r.posts[i].info = r.told[r.posts[i].uri]
    BY <1>3 DEF LastIsTold
  <2>1. r.posts[i] \in Post
    BY <1>3
  <2>2. r.posts[i].uri \in Uris
    BY <2>1 DEF Post
  <2>3. CASE i \in 1..m
    <3>1. \A j \in 1..n : posts[j].uri # r.posts[i].uri
      <4> SUFFICES ASSUME NEW j \in 1..n PROVE posts[j].uri # r.posts[i].uri
        OBVIOUS
      <4>1. m + j \in 1..(m + n) /\ i < m + j
        BY <1>3, <2>3
      <4> QED
        BY <1>3, <4>1
    <3>2. \A j \in 1..m : i < j => s.posts[j].uri # s.posts[i].uri
      <4> SUFFICES ASSUME NEW j \in 1..m, i < j PROVE s.posts[j].uri # s.posts[i].uri
        OBVIOUS
      <4>1. j \in 1..(m + n)
        BY <1>3
      <4> QED
        BY <1>3, <2>3, <4>1
    <3>3. s.posts[i].info = s.told[s.posts[i].uri]
      BY <1>3, <1>6, <2>3, <3>2 DEF LastIsTold
    <3>4. r.told[r.posts[i].uri] = s.told[r.posts[i].uri]
      BY <1>2, <1>3, <2>2, <3>1
    <3> QED
      BY <1>3, <2>3, <3>3, <3>4
  <2>4. CASE i \notin 1..m
    <3>1. i - m \in 1..n /\ r.posts[i] = posts[i - m]
      BY <1>4, <2>4
    <3>2. r.told[r.posts[i].uri] = Unknown
      BY <1>2, <1>3, <2>2, <3>1
    <3> QED
      BY ZenonT(60), <1>3, <3>1, <3>2
  <2> QED
    BY <2>3, <2>4
<1> QED
  BY <1>1, <1>2, <1>5, <1>6 DEF r

(* The last that shows a uri lets go of it: the accounts that have it at   *)
(* their host drop it, and each says that it is unknown now.               *)
LEMMA UnfetchFacts ==
  ASSUME NEW s \in Records, NEW u \in Uris, bank \in BOOLEAN, PresenceAssumption,
         NEW asked \in SUBSET Accounts,
         asked = {a \in Accounts : s.accounts[a] # None /\ u \in UrisOf[a]}
  PROVE  /\ unfetch_presence(s, u) \in Records
         /\ unfetch_presence(s, u).shown = s.shown
         /\ Entry(s, u).count > 1 =>
              unfetch_presence(s, u) =
                [s EXCEPT !.infos = [s.infos EXCEPT
                            ![u] = [Entry(s, u) EXCEPT !.count = @ - 1]]]
         /\ ~(Entry(s, u).count > 1) =>
              unfetch_presence(s, u).infos = [s.infos EXCEPT ![u] = None]
         /\ ~(Entry(s, u).count > 1) /\ ~bank =>
              /\ unfetch_presence(s, u).accounts = s.accounts
              /\ unfetch_presence(s, u).posts = s.posts
              /\ unfetch_presence(s, u).told = s.told
         /\ ~(Entry(s, u).count > 1) /\ bank =>
              /\ \A a \in Accounts : unfetch_presence(s, u).accounts[a] =
                   IF a \in asked
                     THEN [s.accounts[a] EXCEPT !.watched = @ \ {u},
                                                !.subscribed = @ \ {u}]
                     ELSE s.accounts[a]
              /\ \A v \in Uris :
                   /\ unfetch_presence(s, u).told[v] =
                        IF v = u /\ asked # {} THEN Unknown ELSE s.told[v]
                   /\ Unposted(unfetch_presence(s, u), v) <=>
                        Unposted(s, v) /\ ~(v = u /\ asked # {})
              /\ LastIsTold(s) => LastIsTold(unfetch_presence(s, u))
<1> DEFINE gone == [s EXCEPT !.infos[u] = None]
           fewer == [Entry(s, u) EXCEPT !.count = @ - 1]
           accounts == [a \in Accounts |->
              IF a \in asked THEN [s.accounts[a] EXCEPT !.watched = @ \ {u},
                                                        !.subscribed = @ \ {u}]
                ELSE s.accounts[a]]
           let == [gone EXCEPT !.accounts = accounts]
           posts == [i \in 1..Cardinality(asked) |-> UnknownNow(u)]
<1>1. Entry(s, u) \in UriInfo
  BY EntryType
<1>2. /\ gone \in Records /\ gone.infos = [s.infos EXCEPT ![u] = None]
      /\ gone.shown = s.shown /\ gone.accounts = s.accounts
      /\ gone.posts = s.posts /\ gone.told = s.told
  BY DEF Records
<1>3. CASE Entry(s, u).count > 1
  <2>1. s.infos[u] # None /\ Entry(s, u) = s.infos[u]
    BY <1>3, EntryType
  <2>2. unfetch_presence(s, u) = [s EXCEPT !.infos[u].count = @ - 1]
    BY <1>3 DEF unfetch_presence
  <2>3. fewer \in UriInfo
    BY <1>1, <1>3 DEF UriInfo
  <2>4. unfetch_presence(s, u) = [s EXCEPT !.infos = [s.infos EXCEPT ![u] = fewer]]
    BY <2>1, <2>2 DEF Records
  <2> HIDE DEF fewer
  <2>5. /\ [s EXCEPT !.infos = [s.infos EXCEPT ![u] = fewer]] \in Records
        /\ [s EXCEPT !.infos = [s.infos EXCEPT ![u] = fewer]].shown = s.shown
    BY <2>3 DEF Records
  <2> QED
    BY <1>3, <2>4, <2>5 DEF fewer
<1>4. CASE ~(Entry(s, u).count > 1) /\ ~bank
  <2>1. unfetch_presence(s, u) = gone
    BY <1>4 DEF unfetch_presence
  <2> QED
    BY <1>2, <1>4, <2>1
<1>5. CASE ~(Entry(s, u).count > 1) /\ bank
  <2>1. unfetch_presence(s, u) = Bank_unfetch(gone, u)
    BY <1>5 DEF unfetch_presence
  <2>2. accounts \in [Accounts -> Account \cup {None}]
    <3> SUFFICES ASSUME NEW a \in Accounts, a \in asked
                 PROVE  [s.accounts[a] EXCEPT !.watched = @ \ {u},
                                              !.subscribed = @ \ {u}] \in Account
      BY DEF Records
    <3>1. s.accounts[a] \in Account
      BY DEF Records
    <3> QED
      BY <3>1 DEF Account
  <2> HIDE DEF gone
  <2>3. /\ let \in Records /\ let.infos = gone.infos /\ let.shown = s.shown
        /\ let.accounts = accounts /\ let.posts = s.posts /\ let.told = s.told
    <3> HIDE DEF accounts
    <3> QED
      BY <1>2, <2>2 DEF Records
  <2>4. Bank_unfetch(gone, u) = Says(let, posts)
    <3>1. asked = {a \in Accounts : gone.accounts[a] # None /\ u \in UrisOf[a]}
      BY <1>2
    <3>2. accounts = [a \in Accounts |->
             IF a \in asked THEN [gone.accounts[a] EXCEPT !.watched = @ \ {u},
                                                          !.subscribed = @ \ {u}]
               ELSE gone.accounts[a]]
      BY <1>2
    <3>3. Bank_unfetch(gone, u) =
            Says([gone EXCEPT !.accounts = [a \in Accounts |->
                    IF a \in asked
                      THEN [gone.accounts[a] EXCEPT !.watched = @ \ {u},
                                                    !.subscribed = @ \ {u}]
                      ELSE gone.accounts[a]]], posts)
      BY <3>1 DEF Bank_unfetch
    <3> QED
      BY <3>2, <3>3
  <2>5. IsFiniteSet(asked)
    BY FS_Subset DEF PresenceAssumption
  <2>6. Cardinality(asked) \in Nat /\ (Cardinality(asked) = 0 <=> asked = {})
    BY <2>5, FS_CardinalityType, FS_EmptySet
  <2>7. /\ UnknownNow(u) \in Post /\ UnknownNow(u).info = Unknown
        /\ UnknownNow(u).uri = u
    BY UnknownType DEF UnknownNow, Post
  <2>8. /\ posts \in Seq(Post) /\ DOMAIN posts = 1..Cardinality(asked)
        /\ \A i \in DOMAIN posts : posts[i].info = Unknown /\ posts[i].uri = u
    <3>1. posts \in [1..Cardinality(asked) -> Post]
      BY <2>7
    <3>2. \A i \in 1..Cardinality(asked) : posts[i] = UnknownNow(u)
      OBVIOUS
    <3> HIDE DEF posts
    <3>3. [1..Cardinality(asked) -> Post] \in {[1..n -> Post] : n \in Nat}
      BY <2>6
    <3>4. posts \in UNION {[1..n -> Post] : n \in Nat}
      BY <3>1, <3>3
    <3>5. posts \in Seq(Post)
      BY <3>4, SeqDef, Zenon
    <3> QED
      BY <2>7, <3>1, <3>2, <3>5
  <2>9. asked # {} <=> \E i \in DOMAIN posts : TRUE
    <3>1. asked # {} => 1 \in 1..Cardinality(asked)
      BY <2>6
    <3>2. \A n \in Nat : n = 0 => \A i \in 1..n : FALSE
      OBVIOUS
    <3> QED
      BY <2>6, <2>8, <3>1, <3>2
  <2>10. \A v \in Uris : (\E i \in DOMAIN posts : posts[i].uri = v) <=> v = u /\ asked # {}
    BY <2>8, <2>9
  <2> HIDE DEF posts, let, accounts
  <2>11. /\ Says(let, posts) \in Records
         /\ Says(let, posts).infos = let.infos /\ Says(let, posts).shown = let.shown
         /\ Says(let, posts).accounts = let.accounts
         /\ \A v \in Uris :
              /\ Says(let, posts).told[v] =
                   IF \E i \in DOMAIN posts : posts[i].uri = v
                     THEN Unknown ELSE let.told[v]
              /\ Unposted(Says(let, posts), v) <=>
                   Unposted(let, v) /\ \A i \in DOMAIN posts : posts[i].uri # v
         /\ LastIsTold(let) => LastIsTold(Says(let, posts))
    <3>1. \A i \in DOMAIN posts : posts[i].info = Unknown
      BY <2>8
    <3>2. let \in Records /\ posts \in Seq(Post)
      BY <2>3, <2>8
    <3> QED
      BY <3>1, <3>2, SaysFacts
  <2>12. /\ \A v \in Uris : Unposted(let, v) <=> Unposted(s, v)
         /\ LastIsTold(let) <=> LastIsTold(s)
    BY <2>3 DEF Unposted, LastIsTold
  <2>13. \A a \in Accounts : accounts[a] =
            IF a \in asked THEN [s.accounts[a] EXCEPT !.watched = @ \ {u},
                                                      !.subscribed = @ \ {u}]
              ELSE s.accounts[a]
    BY DEF accounts
  <2> DEFINE r == Says(let, posts)
  <2>14. r = unfetch_presence(s, u)
    BY <2>1, <2>4
  <2> HIDE DEF r
  <2>15. r \in Records /\ r.shown = s.shown /\ r.infos = [s.infos EXCEPT ![u] = None]
    BY <1>2, <2>3, <2>11 DEF r
  <2>16. \A a \in Accounts : r.accounts[a] =
            IF a \in asked THEN [s.accounts[a] EXCEPT !.watched = @ \ {u},
                                                      !.subscribed = @ \ {u}]
              ELSE s.accounts[a]
    BY <2>3, <2>11, <2>13 DEF r
  <2>17. \A v \in Uris :
            /\ r.told[v] = IF v = u /\ asked # {} THEN Unknown ELSE s.told[v]
            /\ Unposted(r, v) <=> Unposted(s, v) /\ ~(v = u /\ asked # {})
    <3> SUFFICES ASSUME NEW v \in Uris
                 PROVE  /\ r.told[v] = IF v = u /\ asked # {}
                                         THEN Unknown ELSE s.told[v]
                        /\ Unposted(r, v) <=> Unposted(s, v) /\ ~(v = u /\ asked # {})
      OBVIOUS
    <3>1. r.told[v] = IF v = u /\ asked # {} THEN Unknown ELSE s.told[v]
      BY <2>3, <2>10, <2>11 DEF r
    <3>2. Unposted(r, v) <=> Unposted(s, v) /\ ~(v = u /\ asked # {})
      BY <2>10, <2>11, <2>12 DEF r
    <3> QED
      BY <3>1, <3>2
  <2>18. LastIsTold(s) => LastIsTold(r)
    BY <2>11, <2>12 DEF r
  <2> QED
    BY <1>5, <2>14, <2>15, <2>16, <2>17, <2>18
<1> QED
  BY <1>3, <1>4, <1>5

-----------------------------------------------------------------------------
(* Who is interested *)

(* v is w, but for p, which shows u in v and nothing in w. *)
Joined(w, p, u, v) ==
  /\ w[p] = None /\ v[p] # None /\ v[p].uri = u
  /\ \A q \in Presentities \ {p} :
       /\ w[q] = None <=> v[q] = None
       /\ w[q] # None => w[q].uri = v[q].uri

LEMMA InterestIsFinite ==
  ASSUME NEW w \in Shows, NEW u \in Uris, PresenceAssumption
  PROVE  /\ IsFiniteSet(Interest(w, u)) /\ Cardinality(Interest(w, u)) \in Nat
         /\ Cardinality(Interest(w, u)) = 0 <=> Interest(w, u) = {}
<1>1. IsFiniteSet(Interest(w, u))
  BY FS_Subset DEF PresenceAssumption, Interest
<1> QED
  BY <1>1, FS_CardinalityType, FS_EmptySet

LEMMA JoinedInterest ==
  ASSUME NEW w \in Shows, NEW v \in Shows, NEW p \in Presentities, NEW u \in Uris,
         Joined(w, p, u, v), PresenceAssumption
  PROVE  /\ p \in Interest(v, u) /\ Interest(w, u) \subseteq Interest(v, u)
         /\ Cardinality(Interest(v, u)) = Cardinality(Interest(w, u)) + 1
         /\ \A x \in Uris : x # u => Interest(v, x) = Interest(w, x)
<1>1. Interest(v, u) = Interest(w, u) \cup {p} /\ p \notin Interest(w, u)
  BY DEF Interest, Joined
<1>2. ASSUME NEW x \in Uris, x # u
      PROVE  Interest(v, x) = Interest(w, x)
  BY <1>2 DEF Interest, Joined
<1>3. Cardinality(Interest(w, u) \cup {p}) = Cardinality(Interest(w, u)) + 1
  BY <1>1, InterestIsFinite, FS_AddElement
<1> QED
  BY <1>1, <1>2, <1>3

(* One more fetches: if it is the first, the accounts begin to watch.      *)
LEMMA FetchKeepsConsistent ==
  ASSUME NEW s \in Records, NEW w \in Shows, NEW v \in Shows,
         NEW p \in Presentities, NEW u \in Uris, bank \in BOOLEAN,
         PresenceAssumption, Consistent(s, w, bank), Joined(w, p, u, v),
         \A q \in Presentities \ Editable : v[q] # None =>
            v[q].info = IF v[q].uri = u THEN Entry(s, u).info ELSE w[q].info
  PROVE  Consistent(fetch_presence(s, u), v, bank)
<1> DEFINE r == fetch_presence(s, u)
           e == [Entry(s, u) EXCEPT !.count = @ + 1]
<1>1. /\ r \in Records /\ r.infos = [s.infos EXCEPT ![u] = e]
      /\ r.posts = s.posts /\ r.told = s.told
      /\ r.accounts = IF Entry(s, u).count = 0 /\ bank
                        THEN Bank_fetch(s, {u}).accounts ELSE s.accounts
  BY ZenonT(60), FetchFacts
<1>2. Bank_fetch(s, {u}).accounts = [a \in Accounts |->
         IF s.accounts[a] = None THEN None
           ELSE Fetched(s.accounts[a], {u} \cap UrisOf[a])]
  BY DEF Bank_fetch, Records
<1>3. /\ Entry(s, u) \in UriInfo /\ e \in UriInfo /\ e # None
      /\ e.count = Entry(s, u).count + 1 /\ e.info = Entry(s, u).info
  BY EntryType DEF UriInfo, PresenceAssumption
<1> HIDE DEF r, e
<1>4. /\ Entry(r, u) = e
      /\ \A x \in Uris : x # u => Entry(r, x) = Entry(s, x)
      /\ \A x \in Uris : Entry(r, x).info = Entry(s, x).info
  BY <1>1, <1>3 DEF Entry, Records
<1>5. /\ p \in Interest(v, u) /\ Interest(w, u) \subseteq Interest(v, u)
      /\ Cardinality(Interest(v, u)) = Cardinality(Interest(w, u)) + 1
      /\ \A x \in Uris : x # u => Interest(v, x) = Interest(w, x)
  BY JoinedInterest
<1>6. /\ Counted(s, w) /\ Watching(s, w, bank) /\ LastIsTold(s) /\ Settled(s)
      /\ FromAnAccount(s) /\ ShownIsKnown(s, w) /\ Quiet(s, bank)
  BY DEF Consistent
<1>7. \A a \in Accounts : r.accounts[a] = None <=> s.accounts[a] = None
  <2> SUFFICES ASSUME NEW a \in Accounts
               PROVE  r.accounts[a] = None <=> s.accounts[a] = None
    OBVIOUS
  <2>1. ASSUME s.accounts[a] # None
        PROVE  Fetched(s.accounts[a], {u} \cap UrisOf[a]) # None
    <3>1. s.accounts[a] \in Account
      BY <2>1 DEF Records
    <3>2. Fetched(s.accounts[a], {u} \cap UrisOf[a]) \in Account
      BY <3>1 DEF Fetched, Account
    <3> QED
      BY <3>2 DEF PresenceAssumption
  <2>2. CASE Entry(s, u).count = 0 /\ bank
    BY <1>1, <1>2, <2>1, <2>2
  <2>3. CASE ~(Entry(s, u).count = 0 /\ bank)
    BY <1>1, <2>3
  <2> QED
    BY <2>2, <2>3
<1>8. Counted(r, v)
  BY <1>3, <1>4, <1>5, <1>6 DEF Counted
<1>9. Watching(r, v, bank)
  <2> SUFFICES ASSUME NEW a \in Accounts, s.accounts[a] # None
               PROVE  /\ r.accounts[a].subscribed \subseteq r.accounts[a].watched
                      /\ \A x \in r.accounts[a].watched :
                           x \in UrisOf[a] /\ Interest(v, x) # {}
                      /\ bank /\ a \notin Late =>
                           \A x \in UrisOf[a] :
                             Interest(v, x) # {} => x \in r.accounts[a].watched
    BY <1>6, <1>7 DEF Watching
  <2>1. UrisOf[a] \subseteq Uris /\ s.accounts[a] \in Account
    BY DEF PresenceAssumption, Records
  <2>2. /\ s.accounts[a].subscribed \subseteq s.accounts[a].watched
        /\ \A x \in s.accounts[a].watched : x \in UrisOf[a] /\ Interest(w, x) # {}
        /\ bank /\ a \notin Late =>
             \A x \in UrisOf[a] : Interest(w, x) # {} => x \in s.accounts[a].watched
    BY <1>6 DEF Watching
  <2>3. CASE Entry(s, u).count = 0 /\ bank
    <3>1. r.accounts[a] = Fetched(s.accounts[a], {u} \cap UrisOf[a])
      BY <1>1, <1>2, <2>3
    <3>2. /\ r.accounts[a].watched = s.accounts[a].watched \cup ({u} \cap UrisOf[a])
          /\ r.accounts[a].subscribed \subseteq
               s.accounts[a].subscribed \cup ({u} \cap UrisOf[a])
      BY <2>1, <3>1 DEF Fetched, Account
    <3> QED
      BY <1>5, <2>1, <2>2, <3>2
  <2>4. CASE ~(Entry(s, u).count = 0 /\ bank)
    <3>1. r.accounts[a] = s.accounts[a]
      BY <1>1, <2>4
    <3>2. bank => Interest(w, u) # {}
      BY <1>6, <2>4, InterestIsFinite DEF Counted
    <3> QED
      BY <1>5, <2>1, <2>2, <3>1, <3>2
  <2> QED
    BY <2>3, <2>4
<1>10. LastIsTold(r)
  BY <1>1, <1>6 DEF LastIsTold
<1>11. Settled(r)
  BY <1>1, <1>4, <1>6 DEF Settled, Unposted
<1>12. FromAnAccount(r)
  BY <1>1, <1>6, <1>7 DEF FromAnAccount, Unposted
<1>13. ShownIsKnown(r, v)
  <2> SUFFICES ASSUME NEW q \in Presentities \ Editable, v[q] # None
               PROVE  v[q].info = Entry(r, v[q].uri).info
    BY DEF ShownIsKnown
  <2>1. v[q].uri \in Uris
    BY DEF Shows, Post
  <2>2. CASE v[q].uri = u
    BY <1>4, <2>2
  <2>3. CASE v[q].uri # u
    <3>1. w[q] # None /\ w[q].uri = v[q].uri
      BY <2>3 DEF Joined
    <3> QED
      BY <1>4, <1>6, <2>1, <2>3, <3>1 DEF ShownIsKnown
  <2> QED
    BY <2>2, <2>3
<1>14. Quiet(r, bank)
  <2> SUFFICES ASSUME ~bank
               PROVE  /\ r.posts = <<>>
                      /\ \A x \in Uris :
                           /\ r.told[x] = Unknown
                           /\ r.infos[x] # None => /\ r.infos[x].count > 0
                                                   /\ r.infos[x].info = Unknown
                      /\ \A a \in Accounts :
                           r.accounts[a] # None => r.accounts[a].watched = {}
    BY DEF Quiet
  <2>1. r.accounts = s.accounts
    BY <1>1
  <2>2. e.count > 0 /\ e.info = Unknown
    <3>1. Entry(s, u).info = Unknown
      BY <1>6, EntryType DEF Quiet
    <3> QED
      BY <1>3, <3>1 DEF UriInfo
  <2>3. \A x \in Uris : r.infos[x] = IF x = u THEN e ELSE s.infos[x]
    BY <1>1 DEF Records
  <2> QED
    BY <1>1, <1>6, <2>1, <2>2, <2>3 DEF Quiet
<1> QED
  BY <1>8, <1>9, <1>10, <1>11, <1>12, <1>13, <1>14 DEF Consistent, r

(* One unfetches: if it was the last, the accounts let go of the uri, and  *)
(* what they post of it is that it is unknown.                             *)
LEMMA UnfetchKeepsConsistent ==
  ASSUME NEW s \in Records, NEW w \in Shows, NEW v \in Shows,
         NEW p \in Presentities, NEW u \in Uris, bank \in BOOLEAN,
         PresenceAssumption, Consistent(s, w, bank), Joined(v, p, u, w),
         \A q \in Presentities \ Editable : v[q] # None => v[q].info = w[q].info
  PROVE  Consistent(unfetch_presence(s, u), v, bank)
<1> DEFINE r == unfetch_presence(s, u)
           e == [Entry(s, u) EXCEPT !.count = @ - 1]
           asked == {a \in Accounts : s.accounts[a] # None /\ u \in UrisOf[a]}
           Quit(a) == [s.accounts[a] EXCEPT !.watched = @ \ {u},
                                            !.subscribed = @ \ {u}]
<1>1. /\ r \in Records
      /\ Entry(s, u).count > 1 =>
           r = [s EXCEPT !.infos = [s.infos EXCEPT ![u] = e]]
      /\ ~(Entry(s, u).count > 1) => r.infos = [s.infos EXCEPT ![u] = None]
      /\ ~(Entry(s, u).count > 1) /\ ~bank =>
           r.accounts = s.accounts /\ r.posts = s.posts /\ r.told = s.told
      /\ ~(Entry(s, u).count > 1) /\ bank =>
           /\ \A a \in Accounts :
                r.accounts[a] = IF a \in asked THEN Quit(a) ELSE s.accounts[a]
           /\ \A x \in Uris :
                /\ r.told[x] = IF x = u /\ asked # {} THEN Unknown ELSE s.told[x]
                /\ Unposted(r, x) <=> Unposted(s, x) /\ ~(x = u /\ asked # {})
           /\ LastIsTold(s) => LastIsTold(r)
  <2>1. asked \in SUBSET Accounts
    OBVIOUS
  <2> QED
    BY ZenonT(60), <2>1, UnfetchFacts
<1>2. /\ Counted(s, w) /\ Watching(s, w, bank) /\ LastIsTold(s) /\ Settled(s)
      /\ FromAnAccount(s) /\ ShownIsKnown(s, w) /\ Quiet(s, bank)
  BY DEF Consistent
<1>3. /\ p \in Interest(w, u) /\ Interest(v, u) \subseteq Interest(w, u)
      /\ Cardinality(Interest(w, u)) = Cardinality(Interest(v, u)) + 1
      /\ \A x \in Uris : x # u => Interest(w, x) = Interest(v, x)
  BY JoinedInterest
<1>4. /\ Entry(s, u) \in UriInfo /\ Cardinality(Interest(v, u)) \in Nat
      /\ Entry(s, u).count = Cardinality(Interest(v, u)) + 1
      /\ s.infos[u] # None /\ Entry(s, u) = s.infos[u]
  <2>1. Entry(s, u).count = Cardinality(Interest(v, u)) + 1
    BY <1>2, <1>3 DEF Counted
  <2>2. Cardinality(Interest(v, u)) \in Nat
    BY InterestIsFinite
  <2> QED
    BY <2>1, <2>2, EntryType
<1>5. CASE Entry(s, u).count > 1
  <2>1. /\ e \in UriInfo /\ e # None
        /\ e.count = Entry(s, u).count - 1 /\ e.info = Entry(s, u).info
    BY <1>4, <1>5 DEF UriInfo, PresenceAssumption
  <2> HIDE DEF e, r
  <2>2. /\ r.infos = [s.infos EXCEPT ![u] = e] /\ r.accounts = s.accounts
        /\ r.posts = s.posts /\ r.told = s.told
    BY <1>1, <1>5 DEF Records
  <2>3. /\ Entry(r, u) = e
        /\ \A x \in Uris : x # u => Entry(r, x) = Entry(s, x)
        /\ \A x \in Uris : Entry(r, x).info = Entry(s, x).info
    BY <1>4, <2>1, <2>2 DEF Entry, Records
  <2>4. \A x \in Uris : Interest(v, x) # {} <=> Interest(w, x) # {}
    <3>1. Interest(v, u) # {}
      BY <1>4, <1>5, InterestIsFinite
    <3> QED
      BY <1>3, <3>1
  <2>5. Counted(r, v)
    BY <1>2, <1>3, <1>4, <2>1, <2>3 DEF Counted
  <2>6. Watching(r, v, bank)
    <3> SUFFICES ASSUME NEW a \in Accounts, s.accounts[a] # None
                 PROVE  /\ \A x \in s.accounts[a].watched : Interest(v, x) # {}
                        /\ bank /\ a \notin Late =>
                             \A x \in UrisOf[a] :
                               Interest(v, x) # {} => x \in s.accounts[a].watched
      BY <1>2, <2>2 DEF Watching
    <3>1. UrisOf[a] \subseteq Uris /\ s.accounts[a].watched \subseteq Uris
      BY DEF PresenceAssumption, Records, Account
    <3> QED
      BY <1>2, <2>4, <3>1 DEF Watching
  <2>7. LastIsTold(r) /\ FromAnAccount(r)
    BY <1>2, <2>2 DEF LastIsTold, FromAnAccount, Unposted
  <2>8. Settled(r)
    BY <1>2, <2>2, <2>3 DEF Settled, Unposted
  <2>9. ShownIsKnown(r, v)
    <3> SUFFICES ASSUME NEW q \in Presentities \ Editable, v[q] # None
                 PROVE  v[q].info = Entry(r, v[q].uri).info
      BY DEF ShownIsKnown
    <3>1. v[q].uri \in Uris /\ w[q] # None /\ w[q].uri = v[q].uri
      BY DEF Shows, Post, Joined
    <3> QED
      BY <1>2, <2>3, <3>1 DEF ShownIsKnown
  <2>10. Quiet(r, bank)
    <3>1. e.count > 0
      BY <1>4, <1>5, <2>1 DEF UriInfo
    <3>2. \A x \in Uris : r.infos[x] = IF x = u THEN e ELSE s.infos[x]
      BY <2>2 DEF Records
    <3> QED
      BY <1>2, <1>4, <2>1, <2>2, <3>1, <3>2 DEF Quiet
  <2> QED
    BY <2>5, <2>6, <2>7, <2>8, <2>9, <2>10 DEF Consistent, r
<1>6. CASE ~(Entry(s, u).count > 1)
  <2> HIDE DEF r
  <2>1. /\ Cardinality(Interest(v, u)) = 0 /\ Interest(v, u) = {}
        /\ Entry(s, u).count = 1
    BY <1>4, <1>6, InterestIsFinite
  <2>2. \A x \in Uris : r.infos[x] = IF x = u THEN None ELSE s.infos[x]
    BY <1>1, <1>6 DEF Records
  <2>3. /\ Entry(r, u).count = 0 /\ Entry(r, u).info = Unknown
        /\ \A x \in Uris : x # u => Entry(r, x) = Entry(s, x)
    BY <1>1, <2>2, EntryType DEF Entry
  <2>4. Counted(r, v)
    BY <1>2, <1>3, <2>1, <2>3 DEF Counted
  <2>5. ShownIsKnown(r, v)
    <3> SUFFICES ASSUME NEW q \in Presentities \ Editable, v[q] # None
                 PROVE  v[q].info = Entry(r, v[q].uri).info
      BY DEF ShownIsKnown
    <3>1. v[q].uri \in Uris /\ w[q] # None /\ w[q].uri = v[q].uri
      BY DEF Shows, Post, Joined
    <3>2. v[q].uri # u
      BY <2>1 DEF Interest
    <3> QED
      BY <1>2, <2>3, <3>1, <3>2 DEF ShownIsKnown
  <2>6. CASE ~bank
    <3>1. r.accounts = s.accounts /\ r.posts = s.posts /\ r.told = s.told
      BY <1>1, <1>6, <2>6
    <3>2. Quiet(r, bank)
      BY <1>2, <2>2, <3>1 DEF Quiet
    <3>3. \A a \in Accounts : r.accounts[a] # None => r.accounts[a].watched = {}
      BY <2>6, <3>2 DEF Quiet
    <3>4. Watching(r, v, bank)
      BY <1>2, <2>6, <3>1, <3>3 DEF Watching
    <3>5. LastIsTold(r) /\ FromAnAccount(r)
      BY <1>2, <3>1 DEF LastIsTold, FromAnAccount, Unposted
    <3>6. Settled(r)
      <4> SUFFICES ASSUME NEW x \in Uris, Unposted(r, x)
                   PROVE  Entry(r, x).info = r.told[x]
        BY DEF Settled
      <4>1. CASE x = u
        BY <1>2, <2>3, <2>6, <3>1, <4>1 DEF Quiet
      <4>2. CASE x # u
        BY <1>2, <2>3, <3>1, <4>2 DEF Settled, Unposted
      <4> QED
        BY <4>1, <4>2
    <3> QED
      BY <2>4, <2>5, <3>2, <3>4, <3>5, <3>6 DEF Consistent, r
  <2>7. CASE bank
    <3>1. \A a \in Accounts :
            r.accounts[a] = IF a \in asked THEN Quit(a) ELSE s.accounts[a]
      BY <1>1, <1>6, <2>7
    <3>2. \A x \in Uris :
            /\ r.told[x] = IF x = u /\ asked # {} THEN Unknown ELSE s.told[x]
            /\ Unposted(r, x) <=> Unposted(s, x) /\ ~(x = u /\ asked # {})
      BY <1>1, <1>6, <2>7
    <3>3. LastIsTold(r)
      BY <1>1, <1>2, <1>6, <2>7
    <3>4. \A a \in Accounts : s.accounts[a] # None =>
            /\ s.accounts[a] \in Account
            /\ a \in asked =>
                 /\ Quit(a) # None
                 /\ Quit(a).watched = s.accounts[a].watched \ {u}
                 /\ Quit(a).subscribed = s.accounts[a].subscribed \ {u}
      <4> SUFFICES ASSUME NEW a \in Accounts, s.accounts[a] # None
                   PROVE  /\ s.accounts[a] \in Account /\ Quit(a) # None
                          /\ Quit(a).watched = s.accounts[a].watched \ {u}
                          /\ Quit(a).subscribed = s.accounts[a].subscribed \ {u}
        OBVIOUS
      <4>1. s.accounts[a] \in Account
        BY DEF Records
      <4>2. Quit(a) \in Account
        BY <4>1 DEF Account
      <4> QED
        BY <4>1, <4>2 DEF Account, PresenceAssumption
    <3> HIDE DEF Quit
    <3>5. \A a \in Accounts : r.accounts[a] = None <=> s.accounts[a] = None
      BY <3>1, <3>4
    <3>6. Watching(r, v, bank)
      <4> SUFFICES ASSUME NEW a \in Accounts, s.accounts[a] # None
                   PROVE  /\ r.accounts[a].subscribed \subseteq r.accounts[a].watched
                          /\ \A x \in r.accounts[a].watched :
                               x \in UrisOf[a] /\ Interest(v, x) # {}
                          /\ bank /\ a \notin Late =>
                               \A x \in UrisOf[a] :
                                 Interest(v, x) # {} => x \in r.accounts[a].watched
        BY <1>2, <3>5 DEF Watching
      <4>1. UrisOf[a] \subseteq Uris
        BY DEF PresenceAssumption
      <4>2. /\ s.accounts[a].subscribed \subseteq s.accounts[a].watched
            /\ \A x \in s.accounts[a].watched : x \in UrisOf[a] /\ Interest(w, x) # {}
            /\ bank /\ a \notin Late =>
                 \A x \in UrisOf[a] : Interest(w, x) # {} => x \in s.accounts[a].watched
        BY <1>2 DEF Watching
      <4>3. CASE u \in UrisOf[a]
        <5>1. /\ r.accounts[a].watched = s.accounts[a].watched \ {u}
              /\ r.accounts[a].subscribed = s.accounts[a].subscribed \ {u}
          BY <3>1, <3>4, <4>3
        <5> QED
          BY <1>3, <2>1, <4>1, <4>2, <5>1
      <4>4. CASE u \notin UrisOf[a]
        <5>1. r.accounts[a] = s.accounts[a]
          BY <3>1, <4>4
        <5> QED
          BY <1>3, <2>1, <4>1, <4>2, <4>4, <5>1
      <4> QED
        BY <4>3, <4>4
    <3>7. Settled(r)
      <4> SUFFICES ASSUME NEW x \in Uris, Unposted(r, x)
                   PROVE  Entry(r, x).info = r.told[x]
        BY DEF Settled
      <4>1. CASE x = u
        <5>1. asked = {}
          BY <3>2, <4>1
        <5>2. s.told[u] = Unknown
          BY <1>2, <5>1 DEF FromAnAccount
        <5> QED
          BY <2>3, <3>2, <4>1, <5>1, <5>2
      <4>2. CASE x # u
        BY <1>2, <2>3, <3>2, <4>2 DEF Settled
      <4> QED
        BY <4>1, <4>2
    <3>8. FromAnAccount(r)
      <4> SUFFICES ASSUME NEW x \in Uris, r.told[x] # Unknown \/ ~Unposted(r, x)
                   PROVE  \E a \in Accounts : s.accounts[a] # None /\ x \in UrisOf[a]
        BY <3>5 DEF FromAnAccount
      <4>1. CASE x = u /\ asked # {}
        BY <4>1
      <4>2. CASE ~(x = u /\ asked # {})
        BY <1>2, <3>2, <4>2 DEF FromAnAccount
      <4> QED
        BY <4>1, <4>2
    <3>9. Quiet(r, bank)
      BY <2>7 DEF Quiet
    <3> QED
      BY <2>4, <2>5, <3>3, <3>6, <3>7, <3>8, <3>9 DEF Consistent, r
  <2> QED
    BY <2>6, <2>7
<1> QED
  BY <1>5, <1>6

-----------------------------------------------------------------------------
(* The accounts, and what they post *)

(* What is shown does not matter to it. *)
LEMMA SameConsistent ==
  ASSUME NEW s \in Records, NEW r \in Records, NEW w, NEW b,
         r.infos = s.infos, r.accounts = s.accounts,
         r.posts = s.posts, r.told = s.told, Consistent(s, w, b)
  PROVE  Consistent(r, w, b)
<1>1. \A u \in Uris : (Unposted(r, u) <=> Unposted(s, u)) /\ Entry(r, u) = Entry(s, u)
  BY DEF Unposted, Entry
<1>2. Counted(r, w) /\ ShownIsKnown(r, w) /\ Settled(r) /\ FromAnAccount(r)
  <2>1. Counted(r, w) /\ Settled(r) /\ FromAnAccount(r)
    BY <1>1 DEF Consistent, Counted, Settled, FromAnAccount
  <2>2. ShownIsKnown(r, w)
    BY DEF Consistent, ShownIsKnown, Entry
  <2> QED
    BY <2>1, <2>2
<1>3. Watching(r, w, b) /\ LastIsTold(r) /\ Quiet(r, b)
  BY DEF Consistent, Watching, LastIsTold, Quiet
<1> QED
  BY <1>2, <1>3 DEF Consistent

(* An account that is added watches nobody, and one that is there watches  *)
(* what it did.                                                            *)
LEMMA AccountKeepsConsistent ==
  ASSUME NEW s \in Records, NEW w, NEW b \in BOOLEAN, NEW a \in Accounts,
         NEW c \in Account, c.subscribed \subseteq c.watched,
         c.watched = IF s.accounts[a] = None THEN {} ELSE s.accounts[a].watched,
         PresenceAssumption, Consistent(s, w, b)
  PROVE  /\ [s EXCEPT !.accounts[a] = c] \in Records
         /\ Consistent([s EXCEPT !.accounts[a] = c], w, b)
<1> DEFINE r == [s EXCEPT !.accounts[a] = c]
<1>1. /\ r \in Records /\ r.infos = s.infos /\ r.posts = s.posts /\ r.told = s.told
      /\ \A x \in Accounts : r.accounts[x] = IF x = a THEN c ELSE s.accounts[x]
  BY DEF Records
<1> HIDE DEF r
<1>2. c # None
  BY DEF PresenceAssumption
<1>3. \A u \in Uris : (Unposted(r, u) <=> Unposted(s, u)) /\ Entry(r, u) = Entry(s, u)
  BY <1>1 DEF Unposted, Entry
<1>4. Counted(r, w) /\ Settled(r) /\ FromAnAccount(r)
  <2>1. Counted(r, w) /\ Settled(r)
    BY <1>1, <1>3 DEF Consistent, Counted, Settled
  <2>2. FromAnAccount(r)
    <3> SUFFICES ASSUME NEW u \in Uris, r.told[u] # Unknown \/ ~Unposted(r, u)
                 PROVE  \E x \in Accounts : r.accounts[x] # None /\ u \in UrisOf[x]
      BY DEF FromAnAccount
    <3>1. PICK x \in Accounts : s.accounts[x] # None /\ u \in UrisOf[x]
      BY <1>1, <1>3 DEF Consistent, FromAnAccount
    <3> QED
      BY <1>1, <1>2, <3>1
  <2> QED
    BY <2>1, <2>2
<1>5. ShownIsKnown(r, w) /\ LastIsTold(r)
  BY <1>1 DEF Consistent, ShownIsKnown, Entry, LastIsTold
<1>6. Watching(r, w, b)
  <2> SUFFICES ASSUME NEW x \in Accounts
               PROVE  /\ x \notin Late => r.accounts[x] # None
                      /\ r.accounts[x] # None =>
                           /\ r.accounts[x].subscribed \subseteq r.accounts[x].watched
                           /\ \A u \in r.accounts[x].watched :
                                u \in UrisOf[x] /\ Interest(w, u) # {}
                           /\ b /\ x \notin Late =>
                                \A u \in UrisOf[x] :
                                  Interest(w, u) # {} => u \in r.accounts[x].watched
    BY DEF Watching
  <2>1. CASE x = a
    BY <1>1, <1>2, <2>1 DEF Consistent, Watching
  <2>2. CASE x # a
    BY <1>1, <2>2 DEF Consistent, Watching
  <2> QED
    BY <2>1, <2>2
<1>7. Quiet(r, b)
  BY <1>1 DEF Consistent, Quiet
<1> QED
  BY <1>1, <1>4, <1>5, <1>6, <1>7 DEF Consistent, r

(* An account says of the uris at its host that they are unknown. *)
LEMMA SaysKeepsConsistent ==
  ASSUME NEW s \in Records, NEW w, NEW b \in BOOLEAN, NEW posts \in Seq(Post),
         NEW a \in Accounts, s.accounts[a] # None, ~b => posts = <<>>,
         \A i \in DOMAIN posts : posts[i].info = Unknown,
         \A i \in DOMAIN posts : posts[i].uri \in UrisOf[a],
         Consistent(s, w, b)
  PROVE  Consistent(Says(s, posts), w, b)
<1> DEFINE r == Says(s, posts)
<1>1. /\ r \in Records /\ r.infos = s.infos /\ r.accounts = s.accounts
      /\ r.posts = s.posts \o posts
      /\ \A u \in Uris :
           /\ r.told[u] = IF \E i \in DOMAIN posts : posts[i].uri = u
                            THEN Unknown ELSE s.told[u]
           /\ Unposted(r, u) <=>
                Unposted(s, u) /\ \A i \in DOMAIN posts : posts[i].uri # u
      /\ LastIsTold(s) => LastIsTold(r)
  BY SaysFacts
<1> HIDE DEF r
<1>2. Counted(r, w) /\ ShownIsKnown(r, w) /\ Watching(r, w, b)
  BY <1>1 DEF Consistent, Counted, ShownIsKnown, Entry, Watching
<1>3. LastIsTold(r)
  BY <1>1 DEF Consistent
<1>4. Settled(r)
  <2> SUFFICES ASSUME NEW u \in Uris, Unposted(r, u)
               PROVE  Entry(r, u).info = r.told[u]
    BY DEF Settled
  <2>1. Entry(r, u) = Entry(s, u)
    BY <1>1 DEF Entry
  <2>2. Unposted(s, u) /\ r.told[u] = s.told[u]
    BY <1>1
  <2> QED
    BY <2>1, <2>2 DEF Consistent, Settled
<1>5. FromAnAccount(r)
  <2> SUFFICES ASSUME NEW u \in Uris, r.told[u] # Unknown \/ ~Unposted(r, u)
               PROVE  \E x \in Accounts : s.accounts[x] # None /\ u \in UrisOf[x]
    BY <1>1 DEF FromAnAccount
  <2>1. CASE \E i \in DOMAIN posts : posts[i].uri = u
    BY <2>1
  <2>2. CASE ~\E i \in DOMAIN posts : posts[i].uri = u
    BY <1>1, <2>2 DEF Consistent, FromAnAccount
  <2> QED
    BY <2>1, <2>2
<1>6. Quiet(r, b)
  <2> SUFFICES ASSUME ~b PROVE Quiet(r, b)
    BY DEF Quiet
  <2>1. posts = <<>> /\ s.posts = <<>>
    BY DEF Consistent, Quiet
  <2>2. r.posts = <<>>
    BY <1>1, <2>1
  <2>3. \A u \in Uris : r.told[u] = s.told[u]
    BY <1>1, <2>1
  <2> QED
    BY <1>1, <2>2, <2>3 DEF Consistent, Quiet
<1> QED
  BY <1>2, <1>3, <1>4, <1>5, <1>6 DEF Consistent, r

(* An account tells of a uri to which it is subscribed. *)
Tells(s, a, post, r) ==
  /\ s.accounts[a] # None /\ post.uri \in s.accounts[a].subscribed
  /\ r.infos = s.infos /\ r.accounts = s.accounts
  /\ r.posts = Append(s.posts, post)
  /\ r.told = [s.told EXCEPT ![post.uri] = post.info]

LEMMA TellingKeepsConsistent ==
  ASSUME NEW s \in Records, NEW w, NEW b \in BOOLEAN, NEW a \in Accounts,
         NEW post \in Post, NEW r \in Records, PresenceAssumption,
         Tells(s, a, post, r), Consistent(s, w, b)
  PROVE  Consistent(r, w, b)
<1>0. /\ s.accounts[a] # None /\ post.uri \in s.accounts[a].subscribed
      /\ r.infos = s.infos /\ r.accounts = s.accounts
      /\ r.posts = Append(s.posts, post)
      /\ r.told = [s.told EXCEPT ![post.uri] = post.info]
  BY DEF Tells
<1> DEFINE u == post.uri
           info == post.info
           n == Len(s.posts)
<1>1. u \in Uris /\ info \in Info
  BY DEF Post
<1>2. s.posts \in Seq(Post) /\ Append(s.posts, post) \in Seq(Post)
  BY DEF Records
<1>3. \A x \in Uris : r.told[x] = IF x = u THEN info ELSE s.told[x]
  BY <1>0, <1>1 DEF Records
<1>4. /\ n \in Nat /\ DOMAIN s.posts = 1..n /\ DOMAIN r.posts = 1..(n + 1)
      /\ \A i \in 1..n : i \in 1..(n + 1) /\ r.posts[i] = s.posts[i] /\ s.posts[i] \in Post
      /\ n + 1 \in 1..(n + 1) /\ r.posts[n + 1] = post
      /\ \A i \in 1..(n + 1) : i \in 1..n \/ i = n + 1
      /\ \A i \in 1..n : i < n + 1
  BY <1>0, <1>2
<1> HIDE DEF n
<1>5. u \in s.accounts[a].watched /\ u \in UrisOf[a] /\ b
  BY <1>0 DEF Consistent, Watching, Quiet
<1>6. \A x \in Uris : Unposted(r, x) <=> Unposted(s, x) /\ x # u
  BY <1>1, <1>4 DEF Unposted
<1>7. Counted(r, w) /\ ShownIsKnown(r, w) /\ Watching(r, w, b) /\ Quiet(r, b)
  BY <1>0, <1>3, <1>5 DEF Consistent, Counted, ShownIsKnown, Entry, Watching, Quiet
<1>8. Settled(r)
  <2>1. \A x \in Uris : Entry(r, x) = Entry(s, x)
    BY <1>0, <1>3 DEF Entry
  <2> QED
    BY <1>0, <1>3, <1>6, <2>1 DEF Consistent, Settled
<1>9. FromAnAccount(r)
  <2> SUFFICES ASSUME NEW x \in Uris, r.told[x] # Unknown \/ ~Unposted(r, x)
               PROVE  \E y \in Accounts : r.accounts[y] # None /\ x \in UrisOf[y]
    BY DEF FromAnAccount
  <2>1. CASE x = u
    BY <1>0, <1>5, <2>1
  <2>2. CASE x # u
    BY <1>0, <1>3, <1>6, <2>2 DEF Consistent, FromAnAccount
  <2> QED
    BY <2>1, <2>2
<1>10. LastIsTold(r)
  <2> SUFFICES ASSUME NEW i \in 1..(n + 1),
                      \A j \in 1..(n + 1) : i < j => r.posts[j].uri # r.posts[i].uri
               PROVE  r.posts[i].info = r.told[r.posts[i].uri]
    BY <1>4 DEF LastIsTold
  <2>1. CASE i = n + 1
    BY <1>1, <1>3, <1>4, <2>1
  <2>2. CASE i \in 1..n
    <3>1. r.posts[i] = s.posts[i] /\ s.posts[i].uri \in Uris
      BY <1>4, <2>2 DEF Post
    <3>2. s.posts[i].uri # u
      BY <1>1, <1>4, <2>2, <3>1
    <3>3. \A j \in 1..n : i < j => s.posts[j].uri # s.posts[i].uri
      BY <1>4, <2>2
    <3>4. s.posts[i].info = s.told[s.posts[i].uri]
      BY <1>4, <2>2, <3>3 DEF Consistent, LastIsTold
    <3> QED
      BY <1>0, <1>3, <3>1, <3>2, <3>4
  <2> QED
    BY <1>4, <2>1, <2>2
<1> QED
  BY <1>0, <1>3, <1>7, <1>8, <1>9, <1>10 DEF Consistent

(* The main loop runs what was posted first. *)
LEMMA ReceivingKeepsConsistent ==
  ASSUME NEW s \in Records, NEW b \in BOOLEAN, PresenceAssumption,
         s.posts # <<>>, Consistent(s, s.shown, b)
  PROVE  LET r == on_presence_received([s EXCEPT !.posts = Tail(@)], Head(s.posts))
         IN  r \in Records /\ Consistent(r, r.shown, b)
<1> DEFINE post == Head(s.posts)
           u == post.uri
           tail == Tail(s.posts)
           t == [s EXCEPT !.posts = tail]
           e == [Entry(t, u) EXCEPT !.info = post.info]
           m == [t EXCEPT !.infos[u] = e]
           r == Heard(m, u, post.info)
           n == Len(s.posts)
<1>1. /\ s.posts \in Seq(Post) /\ tail \in Seq(Post) /\ post \in Post
      /\ u \in Uris /\ post.info \in Info
  <2>1. s.posts \in Seq(Post)
    BY DEF Records
  <2>2. tail \in Seq(Post) /\ post \in Post
    BY <2>1, HeadTailProperties
  <2> QED
    BY <2>1, <2>2 DEF Post
<1>2. /\ n \in Nat /\ n > 0 /\ DOMAIN s.posts = 1..n /\ DOMAIN tail = 1..(n - 1)
      /\ \A i \in 1..(n - 1) : i + 1 \in 1..n /\ tail[i] = s.posts[i + 1]
      /\ \A i \in 1..n : i = 1 \/ (i - 1 \in 1..(n - 1) /\ tail[i - 1] = s.posts[i])
      /\ 1 \in 1..n /\ s.posts[1] = post
  <2>1. /\ n \in Nat /\ n > 0 /\ DOMAIN s.posts = 1..n /\ Len(tail) = n - 1
        /\ DOMAIN tail = 1..(n - 1) /\ s.posts[1] = post
    BY <1>1, HeadTailProperties, LenProperties
  <2>2. \A i \in 1..(n - 1) : tail[i] = s.posts[i + 1]
    BY <1>1, HeadTailProperties
  <2>3. \A i \in 1..n : i # 1 => i - 1 \in 1..(n - 1) /\ (i - 1) + 1 = i
    BY <2>1
  <2> QED
    BY <2>1, <2>2, <2>3
<1> HIDE DEF post, u, tail, n
<1>3. /\ t \in Records /\ t.infos = s.infos /\ t.shown = s.shown
      /\ t.accounts = s.accounts /\ t.told = s.told /\ t.posts = tail
  BY <1>1 DEF Records
<1> HIDE DEF t
<1>4. /\ e \in UriInfo /\ e # None /\ e.info = post.info
      /\ e.count = Entry(s, u).count
  <2>1. Entry(t, u) = Entry(s, u) /\ Entry(s, u) \in UriInfo
    BY <1>1, <1>3, EntryType DEF Entry
  <2> QED
    BY <1>1, <2>1 DEF UriInfo, PresenceAssumption
<1> HIDE DEF e
<1>5. /\ m \in Records /\ m.shown = s.shown /\ m.accounts = s.accounts
      /\ m.told = s.told /\ m.posts = tail
      /\ \A x \in Uris : m.infos[x] = IF x = u THEN e ELSE s.infos[x]
  BY <1>1, <1>3, <1>4 DEF Records
<1> HIDE DEF m
<1>6. /\ r \in Records
      /\ r.infos = m.infos /\ r.accounts = s.accounts
      /\ r.told = s.told /\ r.posts = tail
      /\ \A p \in Presentities : r.shown[p] =
           IF s.shown[p] # None /\ s.shown[p].uri = u
             THEN [s.shown[p] EXCEPT !.info = post.info] ELSE s.shown[p]
  <2>1. /\ r \in Records /\ r = [m EXCEPT !.shown = r.shown]
        /\ \A p \in Presentities : r.shown[p] =
             IF m.shown[p] # None /\ m.shown[p].uri = u
               THEN [m.shown[p] EXCEPT !.info = post.info] ELSE m.shown[p]
    BY <1>1, <1>5, HeardFacts
  <2> HIDE DEF r
  <2>2. /\ r.infos = m.infos /\ r.accounts = m.accounts
        /\ r.told = m.told /\ r.posts = m.posts
    BY <1>5, <2>1 DEF Records
  <2> QED
    BY <1>5, <2>1, <2>2
<1> HIDE DEF r
<1>7. /\ Entry(r, u) = e
      /\ \A x \in Uris : x # u => Entry(r, x) = Entry(s, x)
  BY <1>1, <1>4, <1>5, <1>6 DEF Entry
<1>8. \A p \in Presentities :
        /\ r.shown[p] = None <=> s.shown[p] = None
        /\ s.shown[p] # None =>
             /\ r.shown[p].uri = s.shown[p].uri
             /\ r.shown[p].info = IF s.shown[p].uri = u
                                    THEN post.info ELSE s.shown[p].info
  <2> SUFFICES ASSUME NEW p \in Presentities
               PROVE  /\ r.shown[p] = None <=> s.shown[p] = None
                      /\ s.shown[p] # None =>
                           /\ r.shown[p].uri = s.shown[p].uri
                           /\ r.shown[p].info = IF s.shown[p].uri = u
                                                  THEN post.info ELSE s.shown[p].info
    OBVIOUS
  <2>1. CASE s.shown[p] = None
    BY <1>6, <2>1
  <2>2. CASE s.shown[p] # None
    <3>1. s.shown[p] \in Post
      BY <2>2 DEF Records, Shows
    <3>2. [s.shown[p] EXCEPT !.info = post.info] \in Post
      BY <1>1, <3>1 DEF Post
    <3> QED
      BY <1>6, <3>1, <3>2 DEF Post, PresenceAssumption
  <2> QED
    BY <2>1, <2>2
<1>9. \A x \in Uris : Interest(r.shown, x) = Interest(s.shown, x)
  BY <1>8 DEF Interest
<1>10. Counted(r, r.shown)
  BY <1>4, <1>7, <1>9 DEF Consistent, Counted
<1>11. Watching(r, r.shown, b)
  <2>1. \A a \in Accounts : s.accounts[a] # None =>
          UrisOf[a] \subseteq Uris /\ s.accounts[a].watched \subseteq Uris
    BY DEF PresenceAssumption, Records, Account
  <2> QED
    BY <1>6, <1>9, <2>1 DEF Consistent, Watching
<1>12. ShownIsKnown(r, r.shown)
  <2> SUFFICES ASSUME NEW p \in Presentities \ Editable, r.shown[p] # None
               PROVE  r.shown[p].info = Entry(r, r.shown[p].uri).info
    BY DEF ShownIsKnown
  <2>1. s.shown[p] # None /\ r.shown[p].uri = s.shown[p].uri /\ s.shown[p].uri \in Uris
    BY <1>8 DEF Records, Shows, Post
  <2>2. s.shown[p].info = Entry(s, s.shown[p].uri).info
    BY <2>1 DEF Consistent, ShownIsKnown
  <2> QED
    BY <1>4, <1>7, <1>8, <2>1, <2>2
<1>13. LastIsTold(r)
  <2> SUFFICES ASSUME NEW i \in 1..(n - 1),
                      \A j \in 1..(n - 1) : i < j => tail[j].uri # tail[i].uri
               PROVE  tail[i].info = s.told[tail[i].uri]
    BY <1>2, <1>6 DEF LastIsTold
  <2>1. ASSUME NEW j \in 1..n, i + 1 < j
        PROVE  s.posts[j].uri # s.posts[i + 1].uri
    <3>1. j - 1 \in 1..(n - 1) /\ i < j - 1 /\ j # 1
      BY <1>2, <2>1
    <3> QED
      BY <1>2, <3>1
  <2>2. i + 1 \in DOMAIN s.posts
    BY <1>2
  <2>3. s.posts[i + 1].info = s.told[s.posts[i + 1].uri]
    BY <1>2, <2>1, <2>2 DEF Consistent, LastIsTold
  <2> QED
    BY <1>2, <2>3
<1>14. \A x \in Uris : Unposted(s, x) <=> Unposted(r, x) /\ x # u
  <2> SUFFICES ASSUME NEW x \in Uris
               PROVE  Unposted(s, x) <=> Unposted(r, x) /\ x # u
    OBVIOUS
  <2>1. ASSUME Unposted(s, x)
        PROVE  Unposted(r, x) /\ x # u
    <3>1. \A i \in 1..n : s.posts[i].uri # x
      BY <1>2, <2>1 DEF Unposted
    <3>2. \A i \in 1..(n - 1) : tail[i].uri # x
      BY <1>2, <3>1
    <3>3. x # post.uri
      BY <1>2, <3>1
    <3> QED
      BY <1>2, <1>6, <3>2, <3>3 DEF Unposted, u
  <2>2. ASSUME Unposted(r, x), x # u
        PROVE  Unposted(s, x)
    <3>1. \A i \in 1..(n - 1) : tail[i].uri # x
      BY <1>2, <1>6, <2>2 DEF Unposted
    <3>2. post.uri # x
      BY <2>2 DEF u
    <3>3. ASSUME NEW i \in 1..n
          PROVE  s.posts[i].uri # x
      <4>1. CASE i = 1
        BY <1>2, <3>2, <4>1
      <4>2. CASE i # 1
        BY <1>2, <3>1, <4>2
      <4> QED
        BY <4>1, <4>2
    <3> QED
      BY <1>2, <3>3 DEF Unposted
  <2> QED
    BY <2>1, <2>2
<1>15. Settled(r)
  <2> SUFFICES ASSUME NEW x \in Uris, Unposted(r, x)
               PROVE  Entry(r, x).info = s.told[x]
    BY <1>6 DEF Settled
  <2>1. CASE x = u
    <3>1. \A j \in 1..n : 1 < j => s.posts[j].uri # s.posts[1].uri
      <4> SUFFICES ASSUME NEW j \in 1..n, 1 < j PROVE s.posts[j].uri # s.posts[1].uri
        OBVIOUS
      <4>1. j - 1 \in 1..(n - 1) /\ tail[j - 1] = s.posts[j]
        BY <1>2
      <4> QED
        BY <1>2, <1>6, <2>1, <4>1 DEF Unposted, u
    <3>2. s.posts[1].info = s.told[s.posts[1].uri]
      BY <1>2, <3>1 DEF Consistent, LastIsTold
    <3> QED
      BY <1>2, <1>4, <1>7, <2>1, <3>2 DEF u
  <2>2. CASE x # u
    BY <1>7, <1>14, <2>2 DEF Consistent, Settled
  <2> QED
    BY <2>1, <2>2
<1>16. FromAnAccount(r)
  BY <1>6, <1>14 DEF Consistent, FromAnAccount
<1>17. Quiet(r, b)
  BY DEF Consistent, Quiet
<1>18. r = on_presence_received([s EXCEPT !.posts = Tail(@)], Head(s.posts))
  BY DEF on_presence_received, r, m, e, t, tail, u, post
<1> QED
  BY <1>6, <1>10, <1>11, <1>12, <1>13, <1>15, <1>16, <1>17, <1>18 DEF Consistent

(* The bank hears of all that is shown, of which it had heard nothing. *)
LEMMA FetcherKeepsConsistent ==
  ASSUME NEW s \in Records, NEW w \in Shows, PresenceAssumption,
         Consistent(s, w, FALSE)
  PROVE  LET r == Bank_fetch(s, {u \in Uris : s.infos[u] # None})
         IN  r \in Records /\ r.shown = s.shown /\ Consistent(r, w, TRUE)
<1> DEFINE uris == {u \in Uris : s.infos[u] # None}
           New(a) == Fetched(s.accounts[a], uris \cap UrisOf[a])
           accounts == [a \in Accounts |-> IF s.accounts[a] = None THEN None ELSE New(a)]
           r == Bank_fetch(s, uris)
<1>1. \A u \in Uris : u \in uris <=> Interest(w, u) # {}
  <2> SUFFICES ASSUME NEW u \in Uris PROVE s.infos[u] # None <=> Interest(w, u) # {}
    OBVIOUS
  <2>1. Cardinality(Interest(w, u)) = Entry(s, u).count
    BY DEF Consistent, Counted
  <2>2. s.infos[u] # None => Entry(s, u).count > 0
    BY EntryType DEF Consistent, Quiet
  <2> QED
    BY <2>1, <2>2, EntryType, InterestIsFinite
<1>2. \A a \in Accounts : s.accounts[a] # None =>
        /\ New(a) \in Account /\ New(a) # None
        /\ New(a).watched = uris \cap UrisOf[a]
        /\ New(a).subscribed \subseteq New(a).watched
  <2> SUFFICES ASSUME NEW a \in Accounts, s.accounts[a] # None
               PROVE  /\ New(a) \in Account /\ New(a) # None
                      /\ New(a).watched = uris \cap UrisOf[a]
                      /\ New(a).subscribed \subseteq New(a).watched
    OBVIOUS
  <2>1. /\ s.accounts[a] \in Account /\ s.accounts[a].watched = {}
        /\ s.accounts[a].subscribed \subseteq s.accounts[a].watched
    BY DEF Records, Consistent, Watching, Quiet
  <2>2. New(a) \in Account /\ New(a).watched = uris \cap UrisOf[a]
    BY <2>1 DEF Account, Fetched
  <2>3. New(a).subscribed \subseteq uris \cap UrisOf[a]
    BY <2>1 DEF Account, Fetched
  <2> QED
    BY <2>2, <2>3 DEF PresenceAssumption
<1>3. accounts \in [Accounts -> Account \cup {None}]
  BY <1>2
<1>4. r = [s EXCEPT !.accounts = accounts]
  BY DEF Bank_fetch, Records
<1> HIDE DEF r, uris, New
<1>5. \A a \in Accounts :
        accounts[a] = IF s.accounts[a] = None THEN None ELSE New(a)
  OBVIOUS
<1> HIDE DEF accounts
<1>6. /\ r \in Records /\ r.infos = s.infos /\ r.shown = s.shown
      /\ r.posts = s.posts /\ r.told = s.told /\ r.accounts = accounts
  BY <1>3, <1>4 DEF Records
<1>7. \A a \in Accounts : r.accounts[a] = None <=> s.accounts[a] = None
  BY <1>2, <1>5, <1>6
<1>8. Counted(r, w) /\ ShownIsKnown(r, w) /\ LastIsTold(r)
  BY <1>6 DEF Consistent, Counted, ShownIsKnown, Entry, LastIsTold
<1>9. Settled(r) /\ FromAnAccount(r)
  <2>1. \A u \in Uris : (Unposted(r, u) <=> Unposted(s, u)) /\ Entry(r, u) = Entry(s, u)
    BY <1>6 DEF Unposted, Entry
  <2> QED
    BY <1>6, <1>7, <2>1 DEF Consistent, Settled, FromAnAccount
<1>10. Watching(r, w, TRUE)
  <2> SUFFICES ASSUME NEW a \in Accounts, s.accounts[a] # None
               PROVE  /\ r.accounts[a].subscribed \subseteq r.accounts[a].watched
                      /\ \A u \in r.accounts[a].watched :
                           u \in UrisOf[a] /\ Interest(w, u) # {}
                      /\ \A u \in UrisOf[a] :
                           Interest(w, u) # {} => u \in r.accounts[a].watched
    BY <1>7 DEF Consistent, Watching
  <2>1. r.accounts[a] = New(a) /\ UrisOf[a] \subseteq Uris
    BY <1>5, <1>6 DEF PresenceAssumption
  <2> QED
    BY <1>1, <1>2, <2>1
<1>11. Quiet(r, TRUE)
  BY DEF Quiet
<1> QED
  BY <1>6, <1>8, <1>9, <1>10, <1>11 DEF Consistent, r, uris

-----------------------------------------------------------------------------
(* Type correctness and consistency are one inductive invariant. *)

LEMMA InitHolds ==
  ASSUME Init, PresenceAssumption
  PROVE  IInv
<1> DEFINE displayed == Loaded(saved)
<1>1. displayed \in Shows
  BY UnknownType DEF Init, Loaded, Shows, Post, Presentities
<1>2. \A p \in Presentities : displayed[p] # None => displayed[p].info = Unknown
  BY DEF Loaded
<1>3. \A u \in Uris : Counts(displayed)[u] =
        IF Interest(displayed, u) = {} THEN None
          ELSE [count |-> Cardinality(Interest(displayed, u)), info |-> Unknown]
  BY DEF Counts
<1> HIDE DEF displayed
<1>4. \A u \in Uris : /\ Cardinality(Interest(displayed, u)) \in Nat
                      /\ Cardinality(Interest(displayed, u)) = 0 <=> Interest(displayed, u) = {}
  BY <1>1, InterestIsFinite
<1>5. \A u \in Uris :
        [count |-> Cardinality(Interest(displayed, u)), info |-> Unknown] \in UriInfo
  BY <1>4, UnknownType DEF UriInfo
<1>6. uri_infos = Counts(displayed) /\ presentity = displayed
  BY DEF Init, displayed
<1>7. Counts(displayed) \in [Uris -> UriInfo \cup {None}]
  BY <1>3, <1>5 DEF Counts
<1>8. NewAccount \in Account /\ NewAccount # None /\ NewAccount.watched = {}
      /\ NewAccount.subscribed = {}
  <2>1. NewAccount \in Account /\ NewAccount.watched = {} /\ NewAccount.subscribed = {}
    BY DEF NewAccount, Account
  <2> QED
    BY <2>1 DEF PresenceAssumption
<1>9. /\ account \in [Accounts -> Account \cup {None}]
      /\ \A a \in Accounts : account[a] = IF a \in Late THEN None ELSE NewAccount
  BY <1>8 DEF Init
<1>10. /\ queue = <<>> /\ queue \in Seq(Post) /\ Len(queue) = 0
       /\ \A i \in DOMAIN queue : FALSE
       /\ bank = FALSE /\ told \in [Uris -> Info]
       /\ \A u \in Uris : told[u] = Unknown
  <2>1. queue = <<>> /\ queue \in Seq(Post) /\ Len(queue) = 0
    BY EmptySeq DEF Init
  <2>2. \A i \in DOMAIN queue : FALSE
    BY <2>1, LenProperties
  <2> QED
    BY <2>1, <2>2, UnknownType DEF Init
<1>11. TypeOK
  <2>1. uri_infos \in [Uris -> UriInfo \cup {None}] /\ presentity \in Shows
    BY <1>1, <1>6, <1>7
  <2>2. saved \in [Contacts -> Uris \cup {None}] /\ bank \in BOOLEAN
    BY DEF Init
  <2>3. Len(queue) <= MaxQueue
    BY <1>10 DEF PresenceAssumption
  <2> QED
    BY <1>9, <1>10, <2>1, <2>2, <2>3 DEF TypeOK, Shows
<1>12. /\ Now.infos = uri_infos /\ Now.accounts = account
       /\ Now.posts = queue /\ Now.told = told
  BY DEF Now
<1>13. \A u \in Uris : /\ Entry(Now, u).count = Cardinality(Interest(displayed, u))
                       /\ Entry(Now, u).info = Unknown
  <2> SUFFICES ASSUME NEW u \in Uris
               PROVE  /\ Entry(Now, u).count = Cardinality(Interest(displayed, u))
                      /\ Entry(Now, u).info = Unknown
    OBVIOUS
  <2>1. CASE Interest(displayed, u) = {}
    BY <1>3, <1>4, <1>6, <1>12, <2>1 DEF Entry
  <2>2. CASE Interest(displayed, u) # {}
    <3>1. uri_infos[u] = [count |-> Cardinality(Interest(displayed, u)), info |-> Unknown]
      BY <1>3, <1>6, <2>2
    <3>2. uri_infos[u] # None
      BY <1>5, <3>1 DEF PresenceAssumption
    <3> QED
      BY <1>12, <3>1, <3>2 DEF Entry
  <2> QED
    BY <2>1, <2>2
<1>14. Counted(Now, presentity)
  BY <1>6, <1>13 DEF Counted
<1>15. Watching(Now, presentity, bank)
  BY <1>8, <1>9, <1>10, <1>12 DEF Watching
<1>16. LastIsTold(Now) /\ FromAnAccount(Now) /\ Settled(Now)
  BY <1>10, <1>12, <1>13 DEF LastIsTold, FromAnAccount, Settled, Unposted
<1>17. ShownIsKnown(Now, presentity)
  <2> SUFFICES ASSUME NEW p \in Presentities \ Editable, displayed[p] # None
               PROVE  displayed[p].info = Entry(Now, displayed[p].uri).info
    BY <1>6 DEF ShownIsKnown
  <2>1. displayed[p].uri \in Uris
    BY <1>1 DEF Shows, Post
  <2> QED
    BY <1>2, <1>13, <2>1
<1>18. Quiet(Now, bank)
  <2> SUFFICES ASSUME NEW u \in Uris, uri_infos[u] # None
               PROVE  uri_infos[u].count > 0 /\ uri_infos[u].info = Unknown
    BY <1>8, <1>9, <1>10, <1>12 DEF Quiet
  <2>1. Interest(displayed, u) # {}
    BY <1>3, <1>6
  <2>2. uri_infos[u] = [count |-> Cardinality(Interest(displayed, u)), info |-> Unknown]
    BY <1>3, <1>6, <2>1
  <2>3. Cardinality(Interest(displayed, u)) > 0
    BY <1>4, <2>1
  <2> QED
    BY <2>2, <2>3
<1> QED
  BY <1>11, <1>14, <1>15, <1>16, <1>17, <1>18 DEF IInv, Consistent

(* A step is consistent when the record that it makes is. *)
LEMMA StepTo ==
  ASSUME NEW r \in Records, Becomes(r), bank' \in BOOLEAN,
         saved' \in [Contacts -> Uris \cup {None}],
         Consistent(r, r.shown, bank')
  PROVE  IInv'
<1>1. Now' = r /\ presentity' = r.shown
  BY BecomesTheRecord DEF Becomes
<1>2. TypeOK'
  BY DEF TypeOK, Becomes, Records, Shows
<1>3. Consistent(Now, presentity, bank)'
  BY <1>1
<1> QED
  BY <1>2, <1>3 DEF IInv

(* A contact is added, or a chat opened: it is shown when it is fetched. *)
LEMMA JoiningKeeps ==
  ASSUME IInv, PresenceAssumption, NEW p \in Presentities, NEW u \in Uris,
         Absent(p), Becomes(fetch_presence(With(Now, p, u), u)),
         bank' = bank, saved' \in [Contacts -> Uris \cup {None}]
  PROVE  IInv'
<1> DEFINE s == With(Now, p, u)
           r == fetch_presence(s, u)
<1>1. /\ bank \in BOOLEAN /\ Now \in Records /\ presentity \in Shows
      /\ Consistent(Now, presentity, bank)
  BY NowIsARecord DEF IInv, TypeOK, Shows
<1>2. /\ s \in Records /\ s.infos = Now.infos /\ s.accounts = Now.accounts
      /\ s.posts = Now.posts /\ s.told = Now.told
      /\ \A q \in Presentities : s.shown[q] =
           IF q = p THEN [uri |-> u, info |-> Unknown] ELSE presentity[q]
  <2>1. [uri |-> u, info |-> Unknown] \in Post
    BY UnknownType DEF Post
  <2>2. Now.shown = presentity
    BY DEF Now
  <2> QED
    BY <1>1, <2>1, <2>2 DEF With, Records, Shows
<1> HIDE DEF s
<1>3. Consistent(s, presentity, bank)
  BY <1>1, <1>2, SameConsistent
<1>4. /\ r \in Records
      /\ \A q \in Presentities : r.shown[q] =
           IF s.shown[q] # None /\ s.shown[q].uri = u
             THEN [s.shown[q] EXCEPT !.info = Entry(s, u).info] ELSE s.shown[q]
  BY ZenonT(60), <1>1, <1>2, FetchFacts
<1>5. Entry(s, u).info \in Info
  BY <1>2, EntryType DEF UriInfo
<1>6. \A q \in Presentities :
        /\ r.shown[q] = None <=> s.shown[q] = None
        /\ s.shown[q] # None =>
             /\ r.shown[q].uri = s.shown[q].uri
             /\ r.shown[q].info = IF s.shown[q].uri = u
                                    THEN Entry(s, u).info ELSE s.shown[q].info
  <2> SUFFICES ASSUME NEW q \in Presentities, s.shown[q] # None
               PROVE  /\ r.shown[q] # None
                      /\ r.shown[q].uri = s.shown[q].uri
                      /\ r.shown[q].info = IF s.shown[q].uri = u
                                             THEN Entry(s, u).info ELSE s.shown[q].info
    BY <1>4
  <2>1. s.shown[q] \in Post
    BY <1>2 DEF Records, Shows
  <2>2. [s.shown[q] EXCEPT !.info = Entry(s, u).info] \in Post
    BY <1>5, <2>1 DEF Post
  <2> QED
    BY <1>4, <2>1, <2>2 DEF Post, PresenceAssumption
<1>7. s.shown[p] # None /\ s.shown[p].uri = u
  <2>1. [uri |-> u, info |-> Unknown] \in Post
    BY UnknownType DEF Post
  <2> QED
    BY <1>2, <2>1 DEF PresenceAssumption
<1>8. Joined(presentity, p, u, r.shown)
  BY <1>2, <1>6, <1>7 DEF Joined, Absent
<1>9. \A q \in Presentities \ Editable : r.shown[q] # None =>
        r.shown[q].info = IF r.shown[q].uri = u
                            THEN Entry(s, u).info ELSE presentity[q].info
  BY <1>2, <1>6, <1>7
<1>10. r.shown \in Shows
  BY <1>4 DEF Records
<1>11. Consistent(r, r.shown, bank)
  BY <1>1, <1>2, <1>3, <1>8, <1>9, <1>10, FetchKeepsConsistent
<1> QED
  BY <1>1, <1>4, <1>11, StepTo DEF s

(* A contact is removed, or a chat closed: it is unfetched before it goes. *)
LEMMA LeavingKeeps ==
  ASSUME IInv, PresenceAssumption, NEW p \in Presentities, ~Absent(p),
         Becomes([unfetch_presence(Now, presentity[p].uri) EXCEPT !.shown[p] = None]),
         bank' = bank, saved' \in [Contacts -> Uris \cup {None}]
  PROVE  IInv'
<1> DEFINE u == presentity[p].uri
           s == unfetch_presence(Now, u)
           v == [presentity EXCEPT ![p] = None]
           r == [s EXCEPT !.shown[p] = None]
           asked == {a \in Accounts : Now.accounts[a] # None /\ u \in UrisOf[a]}
<1>1. /\ bank \in BOOLEAN /\ Now \in Records /\ presentity \in Shows
      /\ Consistent(Now, presentity, bank)
  BY NowIsARecord DEF IInv, TypeOK, Shows
<1>2. u \in Uris
  BY <1>1 DEF Absent, Shows, Post
<1>3. s \in Records /\ s.shown = presentity
  <2>1. asked \in SUBSET Accounts
    OBVIOUS
  <2>2. Now.shown = presentity
    BY DEF Now
  <2> QED
    BY <1>1, <1>2, <2>1, <2>2, UnfetchFacts
<1>4. v \in Shows /\ Joined(v, p, u, presentity)
  BY <1>1 DEF Joined, Absent, Shows
<1>5. \A q \in Presentities \ Editable : v[q] # None => v[q].info = presentity[q].info
  BY <1>1 DEF Shows
<1> HIDE DEF v, u
<1>6. Consistent(s, v, bank)
  BY <1>1, <1>2, <1>4, <1>5, UnfetchKeepsConsistent
<1> HIDE DEF s
<1>7. /\ r \in Records /\ r.shown = v /\ r.infos = s.infos
      /\ r.accounts = s.accounts /\ r.posts = s.posts /\ r.told = s.told
  BY <1>3, <1>4 DEF Records, v
<1> HIDE DEF r
<1>8. Consistent(r, r.shown, bank)
  BY <1>3, <1>6, <1>7, SameConsistent
<1>9. Becomes(r)
  BY DEF r, s, u
<1> QED
  BY <1>1, <1>7, <1>8, <1>9, StepTo

(* An edited contact lets go of its old uri, and fetches the new one while *)
(* it still shows the old.                                                 *)
LEMMA EditingKeeps ==
  ASSUME IInv, PresenceAssumption, NEW c \in Editable, NEW u \in Uris,
         edit_presentity(c, u)
  PROVE  IInv'
<1> DEFINE old == presentity[c].uri
           s == unfetch_presence(Now, old)
           v == [presentity EXCEPT ![c] = None]
           t == fetch_presence(s, u)
           r == [t EXCEPT !.shown[c].uri = u, !.shown[c].info.presence = "unknown"]
           asked == {a \in Accounts : Now.accounts[a] # None /\ old \in UrisOf[a]}
<1>1. /\ bank \in BOOLEAN /\ Now \in Records /\ presentity \in Shows
      /\ Consistent(Now, presentity, bank)
  BY NowIsARecord DEF IInv, TypeOK, Shows
<1>2. c \in Presentities /\ presentity[c] # None /\ presentity[c] \in Post
      /\ old \in Uris /\ u # old
  BY <1>1 DEF edit_presentity, Absent, Shows, Post, Presentities, PresenceAssumption
<1>3. s \in Records /\ s.shown = presentity
  <2>1. asked \in SUBSET Accounts
    OBVIOUS
  <2>2. Now.shown = presentity
    BY DEF Now
  <2> QED
    BY <1>1, <1>2, <2>1, <2>2, UnfetchFacts
<1>4. v \in Shows /\ Joined(v, c, old, presentity)
  BY <1>1, <1>2 DEF Joined, Shows
<1>5. \A q \in Presentities : v[q] = IF q = c THEN None ELSE presentity[q]
  BY <1>1 DEF Shows
<1>6. Becomes(r) /\ bank' = bank /\ saved' = [saved EXCEPT ![c] = u]
  BY DEF edit_presentity
<1> HIDE DEF v, old
<1>7. Consistent(s, v, bank)
  BY <1>1, <1>2, <1>4, <1>5, UnfetchKeepsConsistent
<1> HIDE DEF s
<1>8. /\ t \in Records
      /\ \A q \in Presentities : t.shown[q] =
           IF presentity[q] # None /\ presentity[q].uri = u
             THEN [presentity[q] EXCEPT !.info = Entry(s, u).info]
             ELSE presentity[q]
  <2>1. /\ t \in Records
        /\ \A q \in Presentities : t.shown[q] =
             IF s.shown[q] # None /\ s.shown[q].uri = u
               THEN [s.shown[q] EXCEPT !.info = Entry(s, u).info] ELSE s.shown[q]
    BY <1>1, <1>3, FetchFacts
  <2> HIDE DEF t
  <2> QED
    BY <1>3, <2>1
<1> HIDE DEF t
<1>9. t.shown[c] = presentity[c]
  BY <1>2, <1>8 DEF old
<1> DEFINE shows == [presentity[c] EXCEPT !.uri = u, !.info.presence = "unknown"]
<1>10. shows \in Post /\ shows.uri = u /\ shows # None
  <2>1. shows \in Post /\ shows.uri = u
    BY <1>2 DEF Post, Info
  <2> QED
    BY <2>1 DEF PresenceAssumption
<1>11. r = [t EXCEPT !.shown = [t.shown EXCEPT ![c] = shows]]
  BY ZenonT(60), <1>2, <1>8, <1>9 DEF Records, Shows, Post, Info
<1> HIDE DEF r, shows
<1>12. /\ r \in Records /\ r.infos = t.infos /\ r.accounts = t.accounts
       /\ r.posts = t.posts /\ r.told = t.told
       /\ \A q \in Presentities : r.shown[q] = IF q = c THEN shows ELSE t.shown[q]
  BY <1>8, <1>10, <1>11 DEF Records, Shows
<1>13. Entry(s, u).info \in Info
  BY <1>3, EntryType DEF UriInfo
<1>14. \A q \in Presentities : q # c =>
         /\ r.shown[q] = None <=> v[q] = None
         /\ v[q] # None =>
              /\ r.shown[q].uri = v[q].uri
              /\ r.shown[q].info = IF v[q].uri = u
                                     THEN Entry(s, u).info ELSE v[q].info
  <2> SUFFICES ASSUME NEW q \in Presentities, q # c, presentity[q] # None
               PROVE  /\ r.shown[q] # None
                      /\ r.shown[q].uri = presentity[q].uri
                      /\ r.shown[q].info = IF presentity[q].uri = u
                           THEN Entry(s, u).info ELSE presentity[q].info
    BY ZenonT(60), <1>5, <1>8, <1>12
  <2>1. presentity[q] \in Post
    BY <1>1 DEF Shows
  <2>2. [presentity[q] EXCEPT !.info = Entry(s, u).info] \in Post
    BY <1>13, <2>1 DEF Post
  <2> QED
    BY <1>8, <1>12, <2>1, <2>2 DEF Post, PresenceAssumption
<1>15. Joined(v, c, u, r.shown)
  BY <1>2, <1>5, <1>10, <1>12, <1>14 DEF Joined
<1>16. \A q \in Presentities \ Editable : r.shown[q] # None =>
         r.shown[q].info = IF r.shown[q].uri = u
                             THEN Entry(s, u).info ELSE v[q].info
  BY <1>14
<1>17. r.shown \in Shows
  BY <1>12 DEF Records
<1>18. Consistent(t, r.shown, bank)
  BY <1>1, <1>2, <1>3, <1>4, <1>7, <1>15, <1>16, <1>17, FetchKeepsConsistent DEF t
<1>19. Consistent(r, r.shown, bank)
  BY <1>8, <1>12, <1>18, SameConsistent
<1>20. saved' \in [Contacts -> Uris \cup {None}]
  BY <1>6 DEF IInv, TypeOK
<1> QED
  BY <1>1, <1>6, <1>12, <1>19, <1>20, StepTo

(* A finite set becomes a sequence of its elements. *)
LEMMA SetToSeqFacts ==
  ASSUME NEW T, NEW S \in SUBSET T, IsFiniteSet(S)
  PROVE  /\ SetToSeq(S) \in Seq(T)
         /\ \A i \in DOMAIN SetToSeq(S) : SetToSeq(S)[i] \in S
         /\ S = {} => SetToSeq(S) = <<>>
<1> DEFINE n == Cardinality(S)
           q == SetToSeq(S)
<1>1. n \in Nat /\ (n = 0 <=> S = {})
  BY FS_CardinalityType, FS_EmptySet
<1>2. ExistsBijection(1..n, S)
  BY FS_CardinalityType
<1>3. \E f \in [1..n -> S] : IsInjective(f)
  BY <1>2, Zenon DEF ExistsBijection, Bijection, Injection
<1>4. q \in [1..n -> S]
  BY <1>3, Zenon DEF SetToSeq
<1> HIDE DEF n, q
<1>5. q \in [1..n -> T] /\ DOMAIN q = 1..n /\ \A i \in DOMAIN q : q[i] \in S
  BY <1>4
<1>6. q \in Seq(T)
  <2>1. [1..n -> T] \in {[1..m -> T] : m \in Nat}
    BY <1>1
  <2>2. q \in UNION {[1..m -> T] : m \in Nat}
    BY <1>5, <2>1
  <2> QED
    BY <2>2, SeqDef, Zenon
<1>7. S = {} => q = <<>>
  <2>1. Len(q) \in Nat /\ DOMAIN q = 1..Len(q) /\ (q # <<>> => Len(q) \in Nat \ {0})
    BY <1>6, EmptySeq, LenProperties
  <2>2. q # <<>> => 1 \in DOMAIN q
    BY <2>1
  <2> QED
    BY <1>5, <2>2
<1> QED
  BY <1>5, <1>6, <1>7 DEF q

LEMMA AccountStepKeeps ==
  ASSUME IInv, PresenceAssumption, NEW a \in Accounts, NEW c \in Account,
         c.subscribed \subseteq c.watched,
         c.watched = IF account[a] = None THEN {} ELSE account[a].watched,
         account' = [account EXCEPT ![a] = c],
         UNCHANGED <<uri_infos, presentity, saved, bank, queue, told>>
  PROVE  IInv'
<1> DEFINE r == [Now EXCEPT !.accounts[a] = c]
<1>1. /\ bank \in BOOLEAN /\ Now \in Records /\ Now.accounts = account
      /\ Consistent(Now, presentity, bank)
  BY NowIsARecord DEF IInv, TypeOK, Now
<1>2. r \in Records /\ Consistent(r, presentity, bank)
  BY <1>1, AccountKeepsConsistent
<1>3. Becomes(r) /\ r.shown = presentity
  BY DEF Becomes, Now, IInv, TypeOK
<1>4. bank' \in BOOLEAN /\ bank' = bank /\ saved' \in [Contacts -> Uris \cup {None}]
  BY <1>1 DEF IInv, TypeOK
<1> HIDE DEF r
<1> QED
  BY <1>2, <1>3, <1>4, StepTo

(* A disabled account says that whom it watches is unknown. *)
LEMMA DisablingKeeps ==
  ASSUME IInv, PresenceAssumption, NEW a \in Accounts, disable(a)
  PROVE  IInv'
<1> DEFINE c == [account[a] EXCEPT !.enabled = FALSE,
                                   !.subscribed = @ \ account[a].watched]
           s == [Now EXCEPT !.accounts[a] = c]
           them == {UnknownNow(u) : u \in account[a].watched}
           posts == SetToSeq(them)
           r == Says(s, posts)
<1>1. /\ bank \in BOOLEAN /\ Now \in Records /\ Now.accounts = account
      /\ Consistent(Now, presentity, bank) /\ Now.shown = presentity
  BY NowIsARecord DEF IInv, TypeOK, Now
<1>2. account[a] # None /\ account[a] \in Account /\ account[a].watched \subseteq Uris
  BY DEF disable, IInv, TypeOK, Account
<1>3. /\ account[a].subscribed \subseteq account[a].watched
      /\ account[a].watched \subseteq UrisOf[a]
      /\ ~bank => account[a].watched = {}
  BY <1>1, <1>2 DEF Consistent, Watching, Quiet
<1>4. c \in Account /\ c.watched = account[a].watched /\ c.subscribed \subseteq c.watched
  BY <1>2, <1>3 DEF Account
<1>5. c # None
  BY <1>4 DEF PresenceAssumption
<1>6. Becomes(Says([Now EXCEPT !.accounts[a].enabled = FALSE,
                               !.accounts[a].subscribed = @ \ account[a].watched],
                   posts))
  BY DEF disable
<1>7. s = [Now EXCEPT !.accounts[a].enabled = FALSE,
                      !.accounts[a].subscribed = @ \ account[a].watched]
  BY <1>1, <1>2 DEF Records, Account
<1>8. Becomes(r) /\ bank' = bank /\ saved' = saved
  BY <1>6, <1>7 DEF disable
<1>9. them \in SUBSET Post /\ IsFiniteSet(them)
  <2>1. them \in SUBSET Post
    BY <1>2, UnknownType DEF UnknownNow, Post
  <2>2. IsFiniteSet(account[a].watched)
    BY <1>2, FS_Subset DEF PresenceAssumption
  <2>3. [u \in account[a].watched |-> UnknownNow(u)]
          \in Surjection(account[a].watched, them)
    BY DEF Surjection
  <2>4. IsFiniteSet(them)
    BY <2>2, <2>3, FS_Surjection
  <2> QED
    BY <2>1, <2>4
<1>10. /\ posts \in Seq(Post) /\ \A i \in DOMAIN posts : posts[i] \in them
       /\ them = {} => posts = <<>>
  BY <1>9, SetToSeqFacts
<1>11. \A x \in them : x.info = Unknown /\ x.uri \in UrisOf[a]
  BY <1>3 DEF UnknownNow
<1>12. ~bank => them = {}
  BY <1>3
<1> HIDE DEF c, them, posts
<1>13. s \in Records /\ Consistent(s, presentity, bank)
  BY <1>1, <1>2, <1>4, AccountKeepsConsistent
<1>14. s.accounts[a] # None /\ s.shown = presentity
  BY <1>1, <1>5 DEF Records
<1> HIDE DEF s
<1>15. /\ \A i \in DOMAIN posts : posts[i].info = Unknown
       /\ \A i \in DOMAIN posts : posts[i].uri \in UrisOf[a]
       /\ ~bank => posts = <<>>
  BY <1>10, <1>11, <1>12
<1>16. Consistent(r, presentity, bank)
  BY <1>1, <1>10, <1>13, <1>14, <1>15, SaysKeepsConsistent
<1>17. r \in Records /\ r.shown = presentity
  BY <1>10, <1>13, <1>14, <1>15, SaysFacts
<1> HIDE DEF r
<1>18. bank' \in BOOLEAN /\ saved' \in [Contacts -> Uris \cup {None}]
  BY <1>1, <1>8 DEF IInv, TypeOK
<1> QED
  BY <1>8, <1>16, <1>17, <1>18, StepTo

LEMMA InfoType ==
  ASSUME NEW state, NEW note \in Notes
  PROVE  [presence |-> PresenceOf(state, note), status |-> StatusOf(state, note)] \in Info
<1>1. PresenceOf(state, note) \in
        {"unknown", "available", "away", "busy", "inacall", "offline", ""}
  BY DEF PresenceOf, AwayStates, Activities, Notes
<1>2. StatusOf(state, note) \in Notes \cup {"activity"}
  BY DEF StatusOf
<1> QED
  BY <1>1, <1>2 DEF Info

LEMMA StepKeeps ==
  ASSUME IInv, PresenceAssumption, [Next]_vars
  PROVE  IInv'
<1>1. /\ bank \in BOOLEAN /\ Now \in Records /\ presentity \in Shows
      /\ saved \in [Contacts -> Uris \cup {None}]
      /\ account \in [Accounts -> Account \cup {None}]
      /\ Now.shown = presentity /\ Now.posts = queue /\ Now.accounts = account
      /\ Now.infos = uri_infos
      /\ Consistent(Now, presentity, bank)
  BY NowIsARecord DEF IInv, TypeOK, Shows, Now
<1>2. CASE add_presence_fetcher
  <2> DEFINE r == Bank_fetch(Now, {u \in Uris : uri_infos[u] # None})
  <2>1. Becomes(r) /\ bank = FALSE /\ bank' = TRUE /\ saved' = saved
    BY <1>1, <1>2 DEF add_presence_fetcher
  <2>2. r \in Records /\ r.shown = presentity /\ Consistent(r, presentity, TRUE)
    BY ZenonT(60), <1>1, <2>1, FetcherKeepsConsistent
  <2> HIDE DEF r
  <2> QED
    BY <1>1, <2>1, <2>2, StepTo
<1>3. ASSUME NEW c \in Contacts, NEW u \in Uris, new_presentity(c, u)
      PROVE  IInv'
  BY <1>1, <1>3, JoiningKeeps DEF new_presentity, Presentities
<1>4. ASSUME NEW c \in Editable, NEW u \in Uris, edit_presentity(c, u)
      PROVE  IInv'
  BY <1>4, EditingKeeps
<1>5. ASSUME NEW c \in Contacts, remove(c)
      PROVE  IInv'
  BY <1>1, <1>5, LeavingKeeps DEF remove, Presentities
<1>6. ASSUME NEW o \in Others, NEW u \in Uris, URIPresentity(o, u)
      PROVE  IInv'
  BY <1>1, <1>6, JoiningKeeps DEF URIPresentity, Presentities
<1>7. ASSUME NEW o \in Others, EndOfURIPresentity(o)
      PROVE  IInv'
  BY <1>1, <1>7, LeavingKeeps DEF EndOfURIPresentity, Presentities
<1>8. ASSUME NEW a \in Accounts, add(a)
      PROVE  IInv'
  <2>1. /\ NewAccount \in Account
        /\ NewAccount.watched = {} /\ NewAccount.subscribed = {}
    BY DEF NewAccount, Account
  <2> QED
    BY <1>8, <2>1, AccountStepKeeps DEF add
<1>9. ASSUME NEW a \in Accounts, enable(a)
      PROVE  IInv'
  <2> DEFINE c == [account[a] EXCEPT !.enabled = TRUE, !.registered = FALSE]
  <2>1. account[a] # None /\ account[a] \in Account
    BY <1>1, <1>9 DEF enable
  <2>2. account[a].subscribed \subseteq account[a].watched
    BY <1>1, <2>1 DEF Consistent, Watching
  <2>3. c \in Account /\ c.watched = account[a].watched /\ c.subscribed \subseteq c.watched
    BY <2>1, <2>2 DEF Account
  <2>4. account' = [account EXCEPT ![a] = c]
    BY <1>1, <1>9, <2>1 DEF enable, Account
  <2> HIDE DEF c
  <2> QED
    BY <1>9, <2>1, <2>3, <2>4, AccountStepKeeps DEF enable
<1>10. ASSUME NEW a \in Accounts, disable(a)
       PROVE  IInv'
  BY <1>10, DisablingKeeps
<1>11. ASSUME NEW a \in Accounts, NEW registered \in BOOLEAN,
              handle_registration_event(a, registered)
       PROVE  IInv'
  <2> DEFINE c == [account[a] EXCEPT !.registered = registered,
                     !.subscribed = IF registered /\ ~account[a].registered
                                      THEN account[a].watched ELSE @]
  <2>1. account[a] # None /\ account[a] \in Account
    BY <1>1, <1>11 DEF handle_registration_event
  <2>2. account[a].subscribed \subseteq account[a].watched
    BY <1>1, <2>1 DEF Consistent, Watching
  <2>3. c \in Account /\ c.watched = account[a].watched /\ c.subscribed \subseteq c.watched
    BY <2>1, <2>2 DEF Account
  <2>4. account' = [account EXCEPT ![a] = c]
    BY <1>1, <1>11, <2>1 DEF handle_registration_event, Account
  <2> HIDE DEF c
  <2> QED
    BY <1>11, <2>1, <2>3, <2>4, AccountStepKeeps DEF handle_registration_event
<1>12. ASSUME NEW a \in Accounts, NEW u \in Uris, NEW n \in Notifications,
              OnPresenceChange(a, u, n[1], n[2])
       PROVE  IInv'
  <2> DEFINE info == [presence |-> PresenceOf(n[1], n[2]), status |-> StatusOf(n[1], n[2])]
             r == [Now EXCEPT !.posts = Append(@, [uri |-> u, info |-> info]),
                              !.told[u] = info]
  <2>1. info \in Info
    BY InfoType DEF PresenceAssumption
  <2>2. /\ account[a] # None /\ u \in account[a].subscribed
        /\ Becomes(r) /\ bank' = bank /\ saved' = saved
    BY <1>12 DEF OnPresenceChange
  <2> DEFINE post == [uri |-> u, info |-> info]
  <2> HIDE DEF info
  <2>3. post \in Post /\ post.uri = u /\ post.info = info
    BY <2>1 DEF Post
  <2>4. r = [Now EXCEPT !.posts = Append(Now.posts, post),
                        !.told = [Now.told EXCEPT ![u] = info]]
    BY <1>1 DEF Records
  <2> HIDE DEF r, post
  <2>5. Append(Now.posts, post) \in Seq(Post)
    BY <1>1, <2>3 DEF Records
  <2>6. /\ r \in Records /\ r.infos = Now.infos /\ r.accounts = Now.accounts
        /\ r.shown = presentity /\ r.posts = Append(Now.posts, post)
        /\ r.told = [Now.told EXCEPT ![post.uri] = post.info]
    <3> DEFINE told_ == [Now.told EXCEPT ![u] = info]
               posts_ == Append(Now.posts, post)
    <3>1. told_ \in [Uris -> Info]
      BY <1>1, <2>1 DEF Records
    <3>2. r = [Now EXCEPT !.posts = posts_, !.told = told_] /\ posts_ \in Seq(Post)
      BY <2>4, <2>5
    <3> HIDE DEF told_, posts_
    <3>3. /\ r \in Records /\ r.infos = Now.infos /\ r.accounts = Now.accounts
          /\ r.shown = Now.shown /\ r.posts = posts_ /\ r.told = told_
      BY <1>1, <3>1, <3>2 DEF Records
    <3> QED
      BY <1>1, <2>3, <3>3 DEF told_, posts_
  <2>7. Now.accounts[a] # None /\ post.uri \in Now.accounts[a].subscribed
    BY <1>1, <2>2, <2>3
  <2>8. Consistent(r, presentity, bank)
    <3>1. Tells(Now, a, post, r)
      BY <2>6, <2>7 DEF Tells
    <3> QED
      BY <1>1, <2>3, <2>6, <3>1, TellingKeepsConsistent
  <2> QED
    BY <1>1, <2>2, <2>6, <2>8, StepTo
<1>13. CASE presence_status_in_main
  <2> DEFINE r == on_presence_received([Now EXCEPT !.posts = Tail(@)], Head(queue))
  <2>1. Becomes(r) /\ queue # <<>> /\ bank' = bank /\ saved' = saved
    BY <1>13 DEF presence_status_in_main
  <2>2. r \in Records /\ Consistent(r, r.shown, bank)
    BY <1>1, <2>1, ReceivingKeepsConsistent
  <2> HIDE DEF r
  <2> QED
    BY <1>1, <2>1, <2>2, StepTo
<1>14. CASE UNCHANGED vars
  BY <1>14 DEF vars, IInv, TypeOK, Now
<1> QED
  BY <1>2, <1>3, <1>4, <1>5, <1>6, <1>7, <1>8, <1>9, <1>10, <1>11, <1>12,
     <1>13, <1>14 DEF Next, User

-----------------------------------------------------------------------------
(* Theorems *)

LEMMA Invariance == Spec => []IInv
<1>1. Init => IInv
  BY PresenceAssumption, InitHolds
<1>2. IInv /\ [Next]_vars => IInv'
  BY PresenceAssumption, StepKeeps
<1> QED
  BY <1>1, <1>2, PTL DEF Spec

(* The variables have their types: uri_infos, the presentities, the        *)
(* accounts' watched_uris, and what is posted to the main loop.            *)
THEOREM TypeCorrect == Spec => []TypeOK
<1>1. IInv => TypeOK
  BY DEF IInv
<1> QED
  BY <1>1, Invariance, PTL

(* PresenceCore::fetch_presence and unfetch_presence: each uri is counted  *)
(* as often as it is shown.                                                *)
THEOREM CountsCorrect == Spec => []CountsAreRight
<1>1. IInv => CountsAreRight
  BY DEF IInv, Consistent, Counted, CountsAreRight
<1> QED
  BY <1>1, Invariance, PTL

(* PresenceCore::add_presence_fetcher and Bank::fetch: whoever is shown is *)
(* watched by the accounts that were there from the start.                 *)
THEOREM InterestCorrect == Spec => []InterestIsDeclared
<1>1. IInv => InterestIsDeclared
  <2> SUFFICES ASSUME IInv, bank, NEW a \in Accounts \ Late
               PROVE  account[a].watched = {u \in UrisOf[a] : Interest(presentity, u) # {}}
    BY DEF InterestIsDeclared
  <2>1. Watching(Now, presentity, bank) /\ Now.accounts = account
    BY DEF IInv, Consistent, Now
  <2> QED
    BY <2>1 DEF Watching
<1> QED
  BY <1>1, Invariance, PTL

(* Bank::unfetch: nobody else is watched, by any account. *)
THEOREM NobodyElseCorrect == Spec => []NobodyElseIsWatched
<1>1. IInv => NobodyElseIsWatched
  <2> SUFFICES ASSUME IInv, NEW a \in Accounts, account[a] # None
               PROVE  /\ account[a].subscribed \subseteq account[a].watched
                      /\ account[a].watched \subseteq
                           {u \in Uris : Interest(presentity, u) # {}}
    BY DEF NobodyElseIsWatched
  <2>1. /\ Watching(Now, presentity, bank) /\ Now.accounts = account
        /\ account[a].watched \subseteq Uris
    BY DEF IInv, TypeOK, Consistent, Now, Account
  <2> QED
    BY <2>1 DEF Watching
<1> QED
  BY <1>1, Invariance, PTL

(* PresenceCore::on_presence_received: when the main loop has run what was *)
(* posted, whoever was not edited shows what was told last of its uri.     *)
THEOREM PresenceCorrect == Spec => []PresenceIsOfItsUri
<1>1. IInv => PresenceIsOfItsUri
  <2> SUFFICES ASSUME IInv, queue = <<>>, NEW p \in Presentities \ Editable, ~Absent(p)
               PROVE  presentity[p].info = told[presentity[p].uri]
    BY DEF PresenceIsOfItsUri
  <2> DEFINE u == presentity[p].uri
  <2>1. u \in Uris
    BY DEF IInv, TypeOK, Absent, Post
  <2>2. Unposted(Now, u)
    BY EmptySeq, LenProperties DEF Unposted, Now, IInv, TypeOK
  <2>3. Entry(Now, u).info = told[u]
    BY <2>1, <2>2 DEF IInv, Consistent, Settled, Now
  <2> QED
    BY <2>3 DEF IInv, Consistent, ShownIsKnown, Absent
<1> QED
  BY <1>1, Invariance, PTL

-----------------------------------------------------------------------------
(* The resource list *)

Operations == {"read", "write", "erase", "edit", "move"}

Requests ==
  {r \in [op : Operations, uri : ListUris \cup {""}, current : BOOLEAN,
          answer : {"", "ok", "error"}, entries : SUBSET ListUris] :
     r.op # "read" => r.uri \in ListUris}

ListTypeOK ==
  /\ document \subseteq ListUris /\ revived \subseteq ListUris
  /\ shown \in [ListUris -> Nat] /\ interest \in [ListUris -> Nat]
  /\ pending \in Seq(Requests) /\ complete \in BOOLEAN

(* The server has taken a write of u: whatever its answer, the heap will be *)
(* refreshed for it.                                                        *)
Written(q, u) ==
  \E i \in DOMAIN q : q[i].op = "write" /\ q[i].uri = u /\ q[i].answer # ""

Leaving(q, u) ==
  \E i \in DOMAIN q :
    q[i].op \in {"erase", "move"} /\ q[i].uri = u /\ q[i].current

(* What the document has and nobody is told of, is told when the answer to  *)
(* a write comes.                                                           *)
CompleteInv ==
  complete => \A u \in document \ revived : shown[u] > 0 \/ Written(pending, u)

(* The same of what a read on its way will show. *)
ReadInv ==
  \A i \in DOMAIN pending :
    pending[i].op = "read" /\ pending[i].current /\ pending[i].answer # "" =>
      \A u \in document \ revived :
        u \in pending[i].entries \/ Written(pending, u)

(* Interest was given up for a presentity that is shown only where an       *)
(* answer is awaited for which the heap is refreshed.                       *)
InterestInv ==
  \A u \in ListUris : interest[u] >= shown[u] \/ Leaving(pending, u)

ListInv == ListTypeOK /\ CompleteInv /\ ReadInv /\ InterestInv

-----------------------------------------------------------------------------
LEMMA RequestType ==
  ASSUME NEW op \in Operations, NEW u \in ListUris \cup {""},
         op # "read" => u \in ListUris
  PROVE  /\ R!Request(op, u) \in Requests
         /\ R!Request(op, u).op = op /\ R!Request(op, u).answer = ""
         /\ R!Request(op, u).uri = u /\ R!Request(op, u).current
BY DEF R!Request, Requests

LEMMA AppendFacts ==
  ASSUME NEW S, NEW q \in Seq(S), NEW r \in S
  PROVE  /\ Append(q, r) \in Seq(S)
         /\ DOMAIN q \subseteq DOMAIN Append(q, r)
         /\ \A i \in DOMAIN q : Append(q, r)[i] = q[i]
         /\ \A i \in DOMAIN Append(q, r) :
              i \notin DOMAIN q => Append(q, r)[i] = r
         /\ \E i \in DOMAIN Append(q, r) : Append(q, r)[i] = r
<1>1. /\ Len(q) + 1 \in DOMAIN Append(q, r)
      /\ Append(q, r)[Len(q) + 1] = r
  OBVIOUS
<1> QED
  BY <1>1

LEMMA RemoveAtFacts ==
  ASSUME NEW S, NEW q \in Seq(S), NEW i \in DOMAIN q
  PROVE  /\ R!RemoveAt(q, i) \in Seq(S)
         /\ \A j \in DOMAIN q : j # i =>
              \E k \in DOMAIN R!RemoveAt(q, i) : R!RemoveAt(q, i)[k] = q[j]
         /\ \A k \in DOMAIN R!RemoveAt(q, i) :
              \E j \in DOMAIN q : j # i /\ q[j] = R!RemoveAt(q, i)[k]
<1> DEFINE a == SubSeq(q, 1, i - 1)
           b == SubSeq(q, i + 1, Len(q))
<1>1. i \in 1..Len(q) /\ Len(q) \in Nat /\ DOMAIN q = 1..Len(q)
  OBVIOUS
<1>2. /\ a \in Seq(S) /\ Len(a) = i - 1
      /\ \A j \in 1..(i - 1) : a[j] = q[j]
  BY <1>1
<1>3. /\ b \in Seq(S) /\ Len(b) = Len(q) - i
      /\ \A j \in 1..(Len(q) - i) : b[j] = q[j + i]
  BY <1>1
<1> HIDE DEF a, b
<1>4. /\ a \o b \in Seq(S) /\ Len(a \o b) = Len(q) - 1
      /\ \A k \in 1..(Len(q) - 1) :
           (a \o b)[k] = IF k < i THEN q[k] ELSE q[k + 1]
  <2>1. a \o b \in Seq(S) /\ Len(a \o b) = Len(a) + Len(b)
        /\ \A k \in 1..(Len(a) + Len(b)) :
             (a \o b)[k] = IF k <= Len(a) THEN a[k] ELSE b[k - Len(a)]
    BY <1>2, <1>3, ConcatProperties
  <2>3. Len(a \o b) = Len(q) - 1
    BY <1>1, <1>2, <1>3, <2>1
  <2>4. ASSUME NEW k \in 1..(Len(q) - 1)
        PROVE  (a \o b)[k] = IF k < i THEN q[k] ELSE q[k + 1]
    <3>1. (a \o b)[k] = IF k <= Len(a) THEN a[k] ELSE b[k - Len(a)]
      BY <1>1, <1>2, <1>3, <2>1, <2>3
    <3>2. CASE k < i
      BY <1>1, <1>2, <3>1, <3>2
    <3>3. CASE ~(k < i)
      <4>1. k - Len(a) \in 1..(Len(q) - i) /\ k - Len(a) + i = k + 1
        BY <1>1, <1>2, <3>3
      <4>2. (a \o b)[k] = b[k - Len(a)]
        BY <1>1, <1>2, <3>1, <3>3
      <4> QED
        BY <1>3, <3>3, <4>1, <4>2
    <3> QED
      BY <3>2, <3>3
  <2> QED
    BY <2>1, <2>3, <2>4
<1>5. R!RemoveAt(q, i) = a \o b
  BY DEF R!RemoveAt, a, b
<1>6. ASSUME NEW j \in DOMAIN q, j # i
      PROVE  \E k \in DOMAIN (a \o b) : (a \o b)[k] = q[j]
  <2>1. CASE j < i
    <3>1. j \in 1..(Len(q) - 1)
      BY <1>1, <2>1
    <3>2. (a \o b)[j] = q[j] /\ DOMAIN (a \o b) = 1..(Len(q) - 1)
      BY <1>1, <1>4, <2>1, <3>1, LenProperties
    <3> QED
      BY <3>1, <3>2
  <2>2. CASE j > i
    <3>1. j - 1 \in 1..(Len(q) - 1) /\ (a \o b)[j - 1] = q[j]
      BY <1>1, <1>4, <2>2
    <3>2. DOMAIN (a \o b) = 1..(Len(q) - 1)
      BY <1>4, LenProperties
    <3> QED
      BY <3>1, <3>2
  <2> QED
    BY <1>1, <1>6, <2>1, <2>2
<1>7. ASSUME NEW k \in DOMAIN (a \o b)
      PROVE  \E j \in DOMAIN q : j # i /\ q[j] = (a \o b)[k]
  <2>1. k \in 1..(Len(q) - 1)
    BY <1>4, LenProperties
  <2>2. CASE k < i
    <3>1. k \in 1..Len(q) /\ k # i
      BY <1>1, <2>1, <2>2
    <3>2. (a \o b)[k] = q[k]
      BY <1>4, <2>1, <2>2
    <3> QED
      BY <1>1, <3>1, <3>2
  <2>3. CASE ~(k < i)
    <3>1. k + 1 \in 1..Len(q) /\ k + 1 # i /\ (a \o b)[k] = q[k + 1]
      BY <1>1, <1>4, <2>1, <2>3
    <3> QED
      BY <1>1, <3>1
  <2> QED
    BY <2>2, <2>3
<1> QED
  BY <1>4, <1>5, <1>6, <1>7

(* A refresh begins anew: nothing is shown, and no read but the new one     *)
(* counts.                                                                  *)
LEMMA RefreshKeeps ==
  ASSUME ListInv, NEW q \in Seq(Requests), R!Refresh(q), UNCHANGED <<document, revived>>
  PROVE  ListInv'
<1> DEFINE old == [i \in DOMAIN q |-> [q[i] EXCEPT !.current = FALSE]]
           r   == R!Request("read", "")
<1>1. /\ pending' = Append(old, r) /\ shown' = R!Nothing /\ complete' = FALSE
      /\ interest' = interest
  BY DEF R!Refresh, R!Send
<1>2. old \in Seq(Requests) /\ \A i \in DOMAIN old : ~old[i].current
  <2>1. \A i \in DOMAIN q : q[i] \in Requests
    OBVIOUS
  <2>2. \A i \in DOMAIN q : /\ [q[i] EXCEPT !.current = FALSE] \in Requests
                            /\ ~[q[i] EXCEPT !.current = FALSE].current
    BY <2>1 DEF Requests
  <2>3. DOMAIN q = 1..Len(q) /\ Len(q) \in Nat
    OBVIOUS
  <2>4. [i \in 1..Len(q) |-> [q[i] EXCEPT !.current = FALSE]] \in Seq(Requests)
    BY <2>2, <2>3, IsASeq
  <2> QED
    BY <2>2, <2>3, <2>4
<1>3. r \in Requests /\ r.answer = "" /\ r.op = "read"
  BY RequestType DEF Operations
<1> HIDE DEF old, r
<1>4. /\ pending' \in Seq(Requests)
      /\ \A i \in DOMAIN pending' :
           ~pending'[i].current \/ pending'[i].answer = ""
  <2>1. PICK q1 \in Seq(Requests) : q1 = old
    BY <1>2
  <2>2. PICK r1 \in Requests : r1 = r
    BY <1>3
  <2>3. /\ Append(q1, r1) \in Seq(Requests)
        /\ \A i \in DOMAIN q1 : Append(q1, r1)[i] = q1[i]
        /\ \A i \in DOMAIN Append(q1, r1) :
             i \notin DOMAIN q1 => Append(q1, r1)[i] = r1
    BY AppendFacts
  <2> QED
    BY <1>1, <1>2, <1>3, <2>1, <2>2, <2>3
<1>5. shown' \in [ListUris -> Nat] /\ \A u \in ListUris : shown'[u] = 0
  BY <1>1 DEF R!Nothing
<1>6. ListTypeOK'
  BY <1>1, <1>4, <1>5 DEF ListInv, ListTypeOK
<1>7. CompleteInv' /\ ReadInv'
  BY <1>1, <1>4 DEF CompleteInv, ReadInv
<1>8. InterestInv'
  BY <1>1, <1>5 DEF InterestInv, ListInv, ListTypeOK
<1> QED
  BY <1>6, <1>7, <1>8 DEF ListInv

(* A request is sent; what is asked to leave counts for less at once. *)
LEMMA SendKeeps ==
  ASSUME ListInv, NEW op \in Operations, NEW u \in ListUris,
         pending' = Append(pending, R!Request(op, u)),
         UNCHANGED <<document, shown, complete, revived>>,
         interest' \in [ListUris -> Nat],
         \A v \in ListUris : interest'[v] = interest[v]
                         \/ (v = u /\ op \in {"erase", "move"})
  PROVE  ListInv'
<1>1. R!Request(op, u) \in Requests /\ R!Request(op, u).op = op
      /\ R!Request(op, u).answer = "" /\ R!Request(op, u).uri = u
      /\ R!Request(op, u).current
  BY DEF R!Request, Requests
<1>2. PICK r : r = R!Request(op, u)
  OBVIOUS
<1>3. /\ pending' \in Seq(Requests) /\ DOMAIN pending \subseteq DOMAIN pending'
      /\ \A i \in DOMAIN pending : pending'[i] = pending[i]
      /\ \A i \in DOMAIN pending' : i \notin DOMAIN pending => pending'[i] = r
      /\ \E i \in DOMAIN pending' : pending'[i] = r
  <2>1. pending \in Seq(Requests) /\ r \in Requests /\ pending' = Append(pending, r)
    BY <1>1, <1>2 DEF ListInv, ListTypeOK
  <2> QED
    BY <2>1, AppendFacts
<1>4. \A v \in ListUris : /\ Written(pending, v) => Written(pending', v)
                          /\ Leaving(pending, v) => Leaving(pending', v)
  BY <1>3 DEF Written, Leaving
<1>5. op \in {"erase", "move"} => Leaving(pending', u)
  <2>1. /\ r.op = op /\ r.uri = u /\ r.current
        /\ \E i \in DOMAIN pending' : pending'[i] = r
    BY <1>1, <1>2, <1>3
  <2> QED
    BY <2>1 DEF Leaving
<1>6. ListTypeOK'
  BY <1>3 DEF ListInv, ListTypeOK
<1>7. CompleteInv'
  BY <1>4 DEF ListInv, ListTypeOK, CompleteInv
<1>8. ReadInv'
  <2>1. r.answer = "" /\ document \subseteq ListUris
    BY <1>1, <1>2 DEF ListInv, ListTypeOK
  <2>2. ASSUME NEW i \in DOMAIN pending',
               pending'[i].op = "read" /\ pending'[i].current,
               pending'[i].answer # "", NEW v \in document' \ revived'
        PROVE  v \in pending'[i].entries \/ Written(pending', v)
    <3>1. i \in DOMAIN pending /\ pending'[i] = pending[i]
      BY <1>3, <2>1, <2>2
    <3>2. v \in pending[i].entries \/ Written(pending, v)
      BY <2>2, <3>1 DEF ListInv, ReadInv
    <3> QED
      BY <1>4, <2>1, <2>2, <3>1, <3>2
  <2> QED
    BY <2>2 DEF ReadInv
<1>9. InterestInv'
  BY <1>4, <1>5 DEF ListInv, InterestInv
<1> QED
  BY <1>6, <1>7, <1>8, <1>9 DEF ListInv

(* The server takes a request, or it gets lost. *)
LEMMA ServeKeeps ==
  ASSUME ListInv, NEW i \in DOMAIN pending, R!Serve(i)
  PROVE  ListInv'
<1>1. /\ pending[i].answer = "" /\ UNCHANGED <<shown, interest, complete>>
      /\ R!Takes(pending[i].op, pending[i].uri) \/ UNCHANGED <<document, revived>>
  BY DEF R!Serve
<1>2. PICK answer \in {"ok", "error"} : R!Answered(i, answer)
  BY DEF R!Serve
<1>3. PICK p, u : p = pending[i].op /\ u = pending[i].uri
  OBVIOUS
<1>4. PICK entries : entries = IF p = "read" THEN document ELSE {}
  OBVIOUS
<1>5. /\ pending \in Seq(Requests) /\ pending[i] \in Requests
      /\ document \subseteq ListUris /\ revived \subseteq ListUris
  BY DEF ListInv, ListTypeOK
<1>6. pending' = [pending EXCEPT ![i] = [pending[i] EXCEPT !.answer = answer,
                                                           !.entries = entries]]
  BY <1>2, <1>3, <1>4, <1>5 DEF R!Answered
<1>7. /\ pending' \in Seq(Requests) /\ DOMAIN pending' = DOMAIN pending
      /\ \A j \in DOMAIN pending : j # i => pending'[j] = pending[j]
      /\ pending'[i].op = p /\ pending'[i].uri = u
      /\ pending'[i].current = pending[i].current
      /\ pending'[i].answer = answer /\ pending'[i].entries = entries
  <2>1. PICK r : r = [pending[i] EXCEPT !.answer = answer, !.entries = entries]
    OBVIOUS
  <2>2. entries \subseteq ListUris
    BY <1>4, <1>5
  <2>3. /\ r \in Requests /\ r.op = p /\ r.uri = u
        /\ r.current = pending[i].current
        /\ r.answer = answer /\ r.entries = entries
    BY <1>3, <1>5, <2>1, <2>2 DEF Requests
  <2>4. pending' = [pending EXCEPT ![i] = r]
    BY <1>6, <2>1
  <2> QED
    BY <1>5, <2>3, <2>4
<1>8. \A v \in ListUris : /\ Written(pending, v) => Written(pending', v)
                          /\ Leaving(pending, v) => Leaving(pending', v)
  BY <1>1, <1>3, <1>7 DEF Written, Leaving
<1>9. /\ document' \subseteq ListUris /\ revived' \subseteq ListUris
      /\ \A v \in document' \ revived' :
           v \in document \ revived \/ Written(pending', v)
      /\ p = "read" => UNCHANGED <<document, revived>>
  <2>1. p = "write" => Written(pending', u)
    BY <1>7 DEF Written
  <2>2. p # "read" => u \in ListUris
    BY <1>3, <1>5 DEF Requests
  <2> QED
    BY <1>1, <1>3, <1>5, <2>1, <2>2 DEF R!Takes, Requests, Operations
<1>10. ListTypeOK'
  BY <1>1, <1>7, <1>9 DEF ListInv, ListTypeOK
<1>11. CompleteInv'
  BY <1>1, <1>5, <1>8, <1>9 DEF ListInv, CompleteInv
<1>12. ReadInv'
  <2> SUFFICES ASSUME NEW j \in DOMAIN pending, pending'[j].op = "read",
                      pending'[j].current, pending'[j].answer # "",
                      NEW v \in document' \ revived'
               PROVE  v \in pending'[j].entries \/ Written(pending', v)
    BY <1>7 DEF ReadInv
  <2>1. CASE j = i
    BY <1>4, <1>7, <1>9, <2>1
  <2>2. CASE j # i
    BY <1>5, <1>7, <1>8, <1>9, <2>2 DEF ListInv, ReadInv
  <2> QED
    BY <2>1, <2>2
<1>13. InterestInv'
  BY <1>1, <1>8 DEF ListInv, InterestInv
<1> QED
  BY <1>10, <1>11, <1>12, <1>13 DEF ListInv

(* What a list of requests without the i-th still says of the others. *)
LEMMA OthersKeep ==
  ASSUME NEW q \in Seq(Requests), NEW i \in DOMAIN q
  PROVE  /\ R!RemoveAt(q, i) \in Seq(Requests)
         /\ \A u : Written(q, u) =>
              Written(R!RemoveAt(q, i), u) \/ (q[i].op = "write" /\ q[i].answer # "")
         /\ \A u : Leaving(q, u) =>
              \/ Leaving(R!RemoveAt(q, i), u)
              \/ q[i].op \in {"erase", "move"} /\ q[i].current
         /\ \A k \in DOMAIN R!RemoveAt(q, i) :
              \E j \in DOMAIN q : q[j] = R!RemoveAt(q, i)[k]
<1>1. /\ R!RemoveAt(q, i) \in Seq(Requests)
      /\ \A j \in DOMAIN q : j # i =>
           \E k \in DOMAIN R!RemoveAt(q, i) : R!RemoveAt(q, i)[k] = q[j]
      /\ \A k \in DOMAIN R!RemoveAt(q, i) :
           \E j \in DOMAIN q : j # i /\ q[j] = R!RemoveAt(q, i)[k]
  BY RemoveAtFacts
<1>2. ASSUME NEW u, Written(q, u), ~(q[i].op = "write" /\ q[i].answer # "")
      PROVE  Written(R!RemoveAt(q, i), u)
  <2>1. PICK j \in DOMAIN q :
          q[j].op = "write" /\ q[j].uri = u /\ q[j].answer # ""
    BY <1>2 DEF Written
  <2>2. j # i
    BY <1>2, <2>1
  <2>3. PICK k \in DOMAIN R!RemoveAt(q, i) : R!RemoveAt(q, i)[k] = q[j]
    BY <1>1, <2>2
  <2> QED
    BY <2>1, <2>3 DEF Written
<1>3. ASSUME NEW u, Leaving(q, u),
             ~(q[i].op \in {"erase", "move"} /\ q[i].current)
      PROVE  Leaving(R!RemoveAt(q, i), u)
  <2>1. PICK j \in DOMAIN q : q[j].op \in {"erase", "move"} /\ q[j].uri = u
                              /\ q[j].current
    BY <1>3 DEF Leaving
  <2>2. j # i
    BY <1>3, <2>1
  <2>3. PICK k \in DOMAIN R!RemoveAt(q, i) : R!RemoveAt(q, i)[k] = q[j]
    BY <1>1, <2>2
  <2> QED
    BY <2>1, <2>3 DEF Leaving
<1> QED
  BY <1>1, <1>2, <1>3

(* An answer reaches the list. *)
LEMMA ResultKeeps ==
  ASSUME ListInv, NEW i \in DOMAIN pending, R!Result(i)
  PROVE  ListInv'
<1> DEFINE r      == pending[i]
           others == R!RemoveAt(pending, i)
<1>1. /\ pending \in Seq(Requests) /\ r \in Requests
      /\ shown \in [ListUris -> Nat] /\ interest \in [ListUris -> Nat]
      /\ document' = document /\ revived' = revived /\ r.answer # ""
  <2>1. /\ pending \in Seq(Requests)
        /\ shown \in [ListUris -> Nat] /\ interest \in [ListUris -> Nat]
    BY DEF ListInv, ListTypeOK
  <2>2. r \in Requests
    BY <2>1
  <2>3. document' = document /\ revived' = revived /\ r.answer # ""
    BY DEF R!Result
  <2> QED
    BY <2>1, <2>2, <2>3
<1>2. /\ others \in Seq(Requests)
      /\ \A u : Written(pending, u) =>
           Written(others, u) \/ (r.op = "write" /\ r.answer # "")
      /\ \A u : Leaving(pending, u) =>
           Leaving(others, u) \/ (r.op \in {"erase", "move"} /\ r.current)
      /\ \A k \in DOMAIN others : \E j \in DOMAIN pending : pending[j] = others[k]
  BY <1>1, OthersKeep
<1>3. \/ r.op = "read" /\ r.answer = "ok" /\ R!Received(r.entries)
         /\ complete' = (complete \/ r.current) /\ pending' = others
      \/ R!Reloads(r) /\ R!Refresh(others)
      \/ ~R!Reloads(r) /\ pending' = others /\ UNCHANGED <<shown, interest, complete>>
  BY DEF R!Result, R!Send
<1>4. PICK rest \in Seq(Requests) : rest = others
  BY <1>2
<1> HIDE DEF r, others
<1>5. CASE R!Reloads(r) /\ R!Refresh(others)
  BY <1>1, <1>4, <1>5, RefreshKeeps
<1>6. CASE ~R!Reloads(r) /\ pending' = others
  <2>1. /\ \A u : Written(pending, u) => Written(pending', u)
        /\ \A u : Leaving(pending, u) => Leaving(pending', u)
    BY <1>2, <1>6 DEF R!Reloads
  <2>2. /\ shown' \in [ListUris -> Nat] /\ interest' \in [ListUris -> Nat]
        /\ \A u \in ListUris : shown'[u] >= shown[u]
        /\ \A u \in ListUris : interest[u] >= shown[u] => interest'[u] >= shown'[u]
    <3>0. \A u \in ListUris : shown[u] \in Nat /\ interest[u] \in Nat
      BY <1>1
    <3>1. CASE UNCHANGED <<shown, interest, complete>>
      <4>1. \A u \in ListUris : shown[u] >= shown[u]
        BY <3>0
      <4> QED
        BY <1>1, <3>1, <4>1
    <3>2. CASE R!Received(r.entries)
      <4>2. PICK e : e = r.entries
        OBVIOUS
      <4>3. /\ shown' = [u \in ListUris |-> shown[u] + (IF u \in e THEN 1 ELSE 0)]
            /\ interest' =
                 [u \in ListUris |-> interest[u] + (IF u \in e THEN 1 ELSE 0)]
        BY <3>2, <4>2 DEF R!Received
      <4>4. \A u \in ListUris : /\ shown'[u] = shown[u] + (IF u \in e THEN 1 ELSE 0)
                                /\ interest'[u] =
                                     interest[u] + (IF u \in e THEN 1 ELSE 0)
        BY <4>3
      <4>5. shown' \in [ListUris -> Nat] /\ interest' \in [ListUris -> Nat]
        BY <3>0, <4>3
      <4>6. ASSUME NEW u \in ListUris
            PROVE  /\ shown'[u] >= shown[u]
                   /\ interest[u] >= shown[u] => interest'[u] >= shown'[u]
        BY <3>0, <4>4
      <4> QED
        BY <4>5, <4>6
    <3> QED
      BY <1>3, <1>6, <3>1, <3>2
  <2>3. complete' \in BOOLEAN
    <3>1. complete \in BOOLEAN /\ r.current \in BOOLEAN
      BY <1>1 DEF Requests, ListInv, ListTypeOK
    <3> QED
      BY <1>3, <1>6, <3>1
  <2>4. complete' =>
          \A u \in document \ revived : shown'[u] > 0 \/ Written(pending, u)
    <3>1. CASE complete
      <4>1. \A u \in document \ revived : shown[u] > 0 \/ Written(pending, u)
        BY <3>1 DEF ListInv, CompleteInv
      <4>2. \A u \in document \ revived : u \in ListUris
        BY DEF ListInv, ListTypeOK
      <4> SUFFICES ASSUME NEW u \in document \ revived, shown[u] > 0
                   PROVE  shown'[u] > 0
        BY <4>1
      <4>3. u \in ListUris /\ shown[u] \in Nat /\ shown'[u] \in Nat
        BY <1>1, <2>2, <4>2
      <4> QED
        BY <2>2, <4>3
    <3>2. CASE ~complete /\ complete'
      <4>1. /\ r.op = "read" /\ r.current /\ R!Received(r.entries)
        BY <1>3, <1>6, <3>2
      <4>2. \A u \in document \ revived : u \in r.entries \/ Written(pending, u)
        BY <1>1, <4>1 DEF r, ListInv, ReadInv
      <4>3. \A u \in document \ revived : u \in ListUris
        BY DEF ListInv, ListTypeOK
      <4>4. \A u \in ListUris : u \in r.entries => shown'[u] = shown[u] + 1
        BY <4>1 DEF R!Received
      <4> SUFFICES ASSUME NEW u \in document \ revived, u \in r.entries
                   PROVE  shown'[u] > 0
        BY <4>2
      <4>5. u \in ListUris /\ shown[u] \in Nat
        BY <1>1, <4>3
      <4> QED
        BY <4>4, <4>5
    <3> QED
      BY <3>1, <3>2
  <2>5. ListTypeOK'
    BY <1>1, <1>2, <1>6, <2>2, <2>3 DEF ListInv, ListTypeOK
  <2>6. CompleteInv'
    BY <1>1, <2>1, <2>4 DEF CompleteInv
  <2>7. ReadInv'
    BY <1>1, <1>2, <1>6, <2>1 DEF ListInv, ReadInv
  <2>8. InterestInv'
    BY <2>1, <2>2 DEF ListInv, InterestInv
  <2> QED
    BY <2>5, <2>6, <2>7, <2>8 DEF ListInv
<1>7. r.op = "read" => ~R!Reloads(r)
  BY DEF R!Reloads
<1> QED
  BY <1>3, <1>5, <1>6, <1>7

-----------------------------------------------------------------------------
(* Every step keeps the invariant, and it implies the property. *)

LEMMA ListInvInit == R!Init => ListInv
<1> SUFFICES ASSUME R!Init PROVE ListInv
  OBVIOUS
<1>1. R!Request("read", "") \in Requests /\ R!Request("read", "").answer = ""
  BY RequestType DEF Operations
<1>2. PICK r \in Requests : r = R!Request("read", "")
  BY <1>1
<1>3. /\ pending \in Seq(Requests)
      /\ \A i \in DOMAIN pending : pending[i].answer = ""
  <2>1. pending = <<r>> /\ r.answer = ""
    BY <1>1, <1>2 DEF R!Init
  <2>2. <<r>> \in Seq(Requests) /\ DOMAIN <<r>> = {1} /\ <<r>>[1] = r
    OBVIOUS
  <2> QED
    BY <2>1, <2>2
<1> QED
  <2>1. ListTypeOK
    BY <1>3 DEF R!Init, ListTypeOK, R!Nothing
  <2>2. CompleteInv /\ ReadInv
    BY <1>3 DEF R!Init, CompleteInv, ReadInv
  <2>3. InterestInv
    <3>1. \A u \in ListUris : interest[u] = 0 /\ shown[u] = 0
      BY DEF R!Init, R!Nothing
    <3> QED
      BY <3>1 DEF InterestInv
  <2> QED
    BY <2>1, <2>2, <2>3 DEF ListInv

LEMMA UnfetchedFacts ==
  ASSUME ListInv, NEW u \in ListUris, R!Unfetched(u)
  PROVE  /\ interest' \in [ListUris -> Nat]
         /\ \A v \in ListUris : v # u => interest'[v] = interest[v]
BY DEF ListInv, ListTypeOK, R!Unfetched

LEMMA ListInvStep == ListInv /\ [R!Next]_R!vars => ListInv'
<1> SUFFICES ASSUME ListInv, [R!Next]_R!vars PROVE ListInv'
  OBVIOUS
<1> USE DEF Operations
<1>1. CASE R!refresh
  <2>1. pending \in Seq(Requests)
    BY DEF ListInv, ListTypeOK
  <2> QED
    BY <1>1, <2>1, RefreshKeeps DEF R!refresh
<1>2. ASSUME NEW u \in ListUris, R!new_entry(u) PROVE ListInv'
  <2>1. /\ pending' = Append(pending, R!Request("write", u))
        /\ UNCHANGED <<document, shown, interest, complete, revived>>
    BY <1>2 DEF R!new_entry, R!Send
  <2>2. interest' \in [ListUris -> Nat]
    BY <2>1 DEF ListInv, ListTypeOK
  <2> QED
    BY <2>1, <2>2, SendKeeps
<1>3. ASSUME NEW u \in ListUris, R!remove(u) PROVE ListInv'
  <2>1. /\ pending' = Append(pending, R!Request("erase", u)) /\ R!Unfetched(u)
        /\ UNCHANGED <<document, shown, complete, revived>>
    BY <1>3 DEF R!remove, R!Send
  <2> QED
    BY <2>1, UnfetchedFacts, SendKeeps
<1>4. ASSUME NEW u \in ListUris, NEW op \in {"edit", "move"}, R!edit_presentity(u, op)
      PROVE  ListInv'
  <2>1. /\ pending' = Append(pending, R!Request(op, u))
        /\ UNCHANGED <<document, shown, complete, revived>>
        /\ IF op = "move" THEN R!Unfetched(u) ELSE UNCHANGED interest
    BY <1>4 DEF R!edit_presentity, R!Send
  <2>2. /\ interest' \in [ListUris -> Nat]
        /\ \A v \in ListUris : interest'[v] = interest[v] \/ (v = u /\ op = "move")
    BY <2>1, UnfetchedFacts DEF ListInv, ListTypeOK
  <2> QED
    BY <2>1, <2>2, SendKeeps
<1>5. ASSUME NEW i \in DOMAIN pending, R!Serve(i) PROVE ListInv'
  BY <1>5, ServeKeeps
<1>6. ASSUME NEW i \in DOMAIN pending, R!Result(i) PROVE ListInv'
  BY <1>6, ResultKeeps
<1>7. CASE UNCHANGED R!vars
  <2>1. ListTypeOK'
    BY <1>7 DEF R!vars, ListInv, ListTypeOK
  <2>2. CompleteInv'
    <3>1. /\ pending' = pending /\ document' = document /\ revived' = revived
          /\ shown' = shown /\ complete' = complete
      BY <1>7 DEF R!vars
    <3>2. CompleteInv
      BY DEF ListInv
    <3>3. \A u : Written(pending', u) <=> Written(pending, u)
      BY <3>1 DEF Written
    <3> QED
      BY <3>1, <3>2, <3>3 DEF CompleteInv
  <2>3. ReadInv'
    <3>1. pending' = pending /\ document' = document /\ revived' = revived
      BY <1>7 DEF R!vars
    <3>2. ReadInv
      BY DEF ListInv
    <3>3. \A u : Written(pending', u) <=> Written(pending, u)
      BY <3>1 DEF Written
    <3> QED
      BY <3>1, <3>2, <3>3 DEF ReadInv
  <2>4. InterestInv'
    BY <1>7 DEF R!vars, ListInv, InterestInv, Leaving
  <2> QED
    BY <2>1, <2>2, <2>3, <2>4 DEF ListInv
<1> QED
  BY <1>1, <1>2, <1>3, <1>4, <1>5, <1>6, <1>7 DEF R!Next

(* When nothing is awaited and the newest read went well, no entry of the   *)
(* server's document is missing in the heap, but those that an edit has put *)
(* there again, and the presence of everyone shown is asked for, however    *)
(* many entries and requests there are (RL::Heap).                          *)
THEOREM NothingMissing == R!Spec => []NothingIsMissing
<1>1. ListInv => NothingIsMissing
  BY DEF ListInv, CompleteInv, InterestInv, NothingIsMissing,
         R!NothingIsMissing, Written,
         Leaving
<1> QED
  BY ListInvInit, ListInvStep, <1>1, PTL DEF R!Spec

-----------------------------------------------------------------------------
(* The Jabber account.  What is on its way, and what it brings. *)

(* What a stanza says of the item of j, and of whether j is there; {} if it *)
(* says nothing.  A contact without an item is not seen.                    *)
ItemIn(s, j) ==
  CASE s[1] = "push"   -> IF s[2] = j THEN {s[3]} ELSE {}
    [] s[1] = "roster" -> {s[2][j]}
    [] OTHER           -> {}

FullIn(s, j) ==
  CASE s[1] = "push"      -> IF s[2] = j /\ s[3] = None THEN {"off"} ELSE {}
    [] s[1] = "roster"    -> IF s[2][j] = None THEN {"off"} ELSE {}
    [] s[1] = "presence"  -> IF s[2] = j /\ s[3] = "full"
                               THEN {IF s[4] THEN "on" ELSE "off"} ELSE {}
    [] s[1] = "presences" -> IF j \in s[2] THEN {"on"} ELSE {}

ItemsIn(q, j) == [i \in DOMAIN q |-> ItemIn(q[i], j)]
FullsIn(q, j) == [i \in DOMAIN q |-> FullIn(q[i], j)]

(* Who has v and hears all of f, in order, ends with w. *)
Leads(f, v, w) ==
  \/ v = w /\ \A i \in DOMAIN f : f[i] = {}
  \/ \E i \in DOMAIN f : /\ f[i] = {w}
                         /\ \A k \in DOMAIN f : k > i => f[k] = {}

(* The i-th stanza finds an item of j. *)
Introduced(q, j, i, v) ==
  \/ v # None /\ \A k \in DOMAIN q : k < i => ItemIn(q[k], j) = {}
  \/ \E k \in DOMAIN q :
       /\ k < i /\ ItemIn(q[k], j) \notin {{}, {None}}
       /\ \A l \in DOMAIN q : k < l /\ l < i => ItemIn(q[l], j) = {}

(* The item v and the presence a become w and b by the stanzas q; and when  *)
(* they tell that j is there, j has an item, without which nobody listens.  *)
Brings(q, j, v, a, w, b) ==
  /\ Leads(ItemsIn(q, j), v, w)
  /\ Leads(FullsIn(q, j), a, b)
  /\ \A i \in DOMAIN q : FullIn(q[i], j) = {"on"} => Introduced(q, j, i, v)

Told(j) == IF "full" \in heap.infos[j] THEN "on" ELSE "off"

There(j) == IF /\ server.roster[j] # None /\ server.roster[j].to
               /\ j \in server.online
              THEN "on" ELSE "off"

(* What is on its way brings the heap to what the server has. *)
RosterInv ==
  \A j \in Jids :
    /\ Brings(inbox, j, heap.items[j], Told(j), server.roster[j], There(j))
    /\ heap.items[j] = None => heap.infos[j] = {}

Stanzas ==
  {<<"push", j, x>> : j \in Jids, x \in J!Items \cup {None}}
    \cup {<<"presence", j, r, on>> : j \in Jids, r \in J!Resources, on \in BOOLEAN}
    \cup {<<"roster", f>> : f \in [Jids -> J!Items \cup {None}]}
    \cup {<<"presences", who>> : who \in SUBSET Jids}

Servers == [roster : [Jids -> J!Items \cup {None}], online : SUBSET Jids]

StreamTypeOK ==
  /\ jabber \in [conn : J!Connections, status : J!Statuses, handlers : BOOLEAN,
                 node : J!Nodes, saved : J!Nodes]
  /\ heap \in J!Heaps \cup {None}
  /\ inbox \in Seq(Stanzas)
  /\ server \in Servers

ConnectionInv == (jabber.conn = "up") <=> (heap # None)

HeapInv ==
  /\ StreamTypeOK /\ ConnectionInv
  /\ heap # None /\ jabber.handlers => RosterInv

-----------------------------------------------------------------------------
(* What is heard in the end, of two parts and of the rest. *)

Followed(f, g, h) ==
  \E m, n \in Nat :
    /\ DOMAIN f = 1..m /\ DOMAIN g = 1..n /\ DOMAIN h = 1..(m + n)
    /\ \A i \in 1..m : h[i] = f[i]
    /\ \A i \in 1..n : h[m + i] = g[i]

LEMMA LeadsJoin ==
  ASSUME NEW f, NEW g, NEW h, Followed(f, g, h),
         NEW u, NEW v, NEW w, Leads(f, u, v), Leads(g, v, w)
  PROVE  Leads(h, u, w)
<1>0. PICK m \in Nat, n \in Nat :
        /\ DOMAIN f = 1..m /\ DOMAIN g = 1..n /\ DOMAIN h = 1..(m + n)
        /\ \A i \in 1..m : h[i] = f[i]
        /\ \A i \in 1..n : h[m + i] = g[i]
  BY DEF Followed
<1>1. \A k \in 1..(m + n) : k \in 1..m \/ (k - m \in 1..n /\ h[k] = g[k - m])
  <2>1. \A k \in 1..(m + n) : ~(k \in 1..m) => k - m \in 1..n /\ m + (k - m) = k
    OBVIOUS
  <2> QED
    BY <1>0, <2>1
<1>2. CASE v = w /\ \A i \in DOMAIN g : g[i] = {}
  <2>1. CASE u = v /\ \A i \in DOMAIN f : f[i] = {}
    BY <1>0, <1>1, <1>2, <2>1 DEF Leads
  <2>2. ASSUME NEW i \in DOMAIN f, f[i] = {v},
               \A k \in DOMAIN f : k > i => f[k] = {}
        PROVE  Leads(h, u, w)
    <3>1. i \in DOMAIN h /\ h[i] = {w}
      BY <1>0, <1>2, <2>2
    <3>2. \A k \in DOMAIN h : k > i => h[k] = {}
      BY <1>0, <1>1, <1>2, <2>2
    <3> QED
      BY <3>1, <3>2 DEF Leads
  <2> QED
    BY <2>1, <2>2 DEF Leads
<1>3. ASSUME NEW i \in DOMAIN g, g[i] = {w}, \A k \in DOMAIN g : k > i => g[k] = {}
      PROVE  Leads(h, u, w)
  <2>1. m + i \in DOMAIN h /\ h[m + i] = {w}
    BY <1>0, <1>3
  <2>2. ASSUME NEW k \in DOMAIN h, k > m + i
        PROVE  h[k] = {}
    <3>1. ~(k \in 1..m) /\ k - m > i
      BY <1>0, <2>2
    <3> QED
      BY <1>0, <1>1, <1>3, <3>1
  <2> QED
    BY <2>1, <2>2 DEF Leads
<1> QED
  BY <1>2, <1>3 DEF Leads

LEMMA LeadsTail ==
  ASSUME NEW n \in Nat, NEW f, NEW h,
         DOMAIN f = 1..(n + 1), DOMAIN h = 1..n,
         \A i \in 1..n : h[i] = f[i + 1],
         NEW v, NEW w, Leads(f, v, w),
         NEW x, (f[1] = {} /\ x = v) \/ f[1] = {x}
  PROVE  Leads(h, x, w)
<1>0. 1 \in DOMAIN f
  OBVIOUS
<1>1. CASE v = w /\ \A i \in DOMAIN f : f[i] = {}
  <2>1. x = w
    BY <1>0, <1>1
  <2>2. \A i \in DOMAIN h : h[i] = {}
    <3>1. \A i \in 1..n : i + 1 \in 1..(n + 1)
      OBVIOUS
    <3> QED
      BY <1>1, <3>1
  <2> QED
    BY <2>1, <2>2 DEF Leads
<1>2. ASSUME NEW i \in DOMAIN f, f[i] = {w},
             \A k \in DOMAIN f : k > i => f[k] = {}
      PROVE  Leads(h, x, w)
  <2>1. \A k \in DOMAIN h : k + 1 > i => h[k] = {}
    <3>1. \A k \in 1..n : k + 1 \in 1..(n + 1)
      OBVIOUS
    <3> QED
      BY <1>2, <3>1
  <2>2. CASE i = 1
    <3>1. x = w
      BY <1>2, <2>2
    <3>2. \A k \in DOMAIN h : h[k] = {}
      BY <2>1, <2>2
    <3> QED
      BY <3>1, <3>2 DEF Leads
  <2>3. CASE i # 1
    <3>1. i - 1 \in DOMAIN h /\ h[i - 1] = {w}
      <4>1. i - 1 \in 1..n /\ (i - 1) + 1 = i
        BY <2>3
      <4> QED
        BY <1>2, <4>1
    <3>2. \A k \in DOMAIN h : k > i - 1 => h[k] = {}
      BY <2>1
    <3> QED
      BY <3>1, <3>2 DEF Leads
  <2> QED
    BY <2>2, <2>3
<1> QED
  BY <1>1, <1>2 DEF Leads

LEMMA BringsJoin ==
  ASSUME NEW T, NEW q \in Seq(T), NEW t \in Seq(T), NEW j,
         NEW u, NEW a, NEW v, NEW b, NEW w, NEW c,
         Brings(q, j, u, a, v, b), Brings(t, j, v, b, w, c)
  PROVE  Brings(q \o t, j, u, a, w, c)
<1> DEFINE m == Len(q)
           n == Len(t)
           p == q \o t
<1>1. /\ m \in Nat /\ n \in Nat /\ DOMAIN q = 1..m /\ DOMAIN t = 1..n
      /\ DOMAIN p = 1..(m + n)
      /\ \A i \in 1..m : p[i] = q[i]
      /\ \A i \in 1..n : p[m + i] = t[i]
  <2>1. /\ p \in Seq(T) /\ Len(p) = m + n
        /\ \A i \in 1..(m + n) : p[i] = IF i <= m THEN q[i] ELSE t[i - m]
    BY ConcatProperties
  <2>2. m \in Nat /\ n \in Nat /\ DOMAIN q = 1..m /\ DOMAIN t = 1..n
    BY LenProperties
  <2>3. DOMAIN p = 1..(m + n)
    BY <2>1, LenProperties
  <2> HIDE DEF m, n, p
  <2>4. \A i \in 1..n : m + i \in 1..(m + n) /\ ~(m + i <= m) /\ (m + i) - m = i
    BY <2>2
  <2>5. \A i \in 1..m : i \in 1..(m + n) /\ i <= m
    BY <2>2
  <2> QED
    BY <2>1, <2>2, <2>3, <2>4, <2>5
<1> HIDE DEF m, n, p
<1>2. Leads(ItemsIn(p, j), u, w)
  <2>1. /\ DOMAIN ItemsIn(p, j) = 1..(m + n)
        /\ DOMAIN ItemsIn(q, j) = 1..m /\ DOMAIN ItemsIn(t, j) = 1..n
        /\ \A i \in 1..m : ItemsIn(p, j)[i] = ItemsIn(q, j)[i]
        /\ \A i \in 1..n : ItemsIn(p, j)[m + i] = ItemsIn(t, j)[i]
    <3>1. /\ \A i \in 1..m : i \in 1..(m + n)
          /\ \A i \in 1..n : m + i \in 1..(m + n)
      BY <1>1
    <3> QED
      BY <1>1, <3>1 DEF ItemsIn
  <2>2. Leads(ItemsIn(q, j), u, v) /\ Leads(ItemsIn(t, j), v, w)
    BY DEF Brings
  <2>3. Followed(ItemsIn(q, j), ItemsIn(t, j), ItemsIn(p, j))
    BY <1>1, <2>1 DEF Followed
  <2> QED
    BY <2>2, <2>3, LeadsJoin
<1>3. Leads(FullsIn(p, j), a, c)
  <2>1. /\ DOMAIN FullsIn(p, j) = 1..(m + n)
        /\ DOMAIN FullsIn(q, j) = 1..m /\ DOMAIN FullsIn(t, j) = 1..n
        /\ \A i \in 1..m : FullsIn(p, j)[i] = FullsIn(q, j)[i]
        /\ \A i \in 1..n : FullsIn(p, j)[m + i] = FullsIn(t, j)[i]
    <3>1. /\ \A i \in 1..m : i \in 1..(m + n)
          /\ \A i \in 1..n : m + i \in 1..(m + n)
      BY <1>1
    <3> QED
      BY <1>1, <3>1 DEF FullsIn
  <2>2. Leads(FullsIn(q, j), a, b) /\ Leads(FullsIn(t, j), b, c)
    BY DEF Brings
  <2>3. Followed(FullsIn(q, j), FullsIn(t, j), FullsIn(p, j))
    BY <1>1, <2>1 DEF Followed
  <2> QED
    BY <2>2, <2>3, LeadsJoin
<1>4. ASSUME NEW i \in 1..m, FullIn(p[i], j) = {"on"}
      PROVE  Introduced(p, j, i, u)
  <2>1. Introduced(q, j, i, u)
    BY <1>1, <1>4 DEF Brings
  <2>2. \A k \in DOMAIN p : k < i => k \in DOMAIN q /\ p[k] = q[k]
    BY <1>1
  <2>3. \A k \in DOMAIN q : k \in DOMAIN p /\ p[k] = q[k]
    BY <1>1
  <2>4. CASE u # None /\ \A k \in DOMAIN q : k < i => ItemIn(q[k], j) = {}
    BY <2>2, <2>4 DEF Introduced
  <2>5. ASSUME NEW k \in DOMAIN q, k < i, ItemIn(q[k], j) \notin {{}, {None}},
               \A l \in DOMAIN q : k < l /\ l < i => ItemIn(q[l], j) = {}
        PROVE  Introduced(p, j, i, u)
    <3>1. k \in DOMAIN p /\ ItemIn(p[k], j) \notin {{}, {None}}
      BY <2>3, <2>5
    <3>2. \A l \in DOMAIN p : k < l /\ l < i => ItemIn(p[l], j) = {}
      BY <2>2, <2>5
    <3> QED
      BY <2>5, <3>1, <3>2 DEF Introduced
  <2> QED
    BY <2>1, <2>4, <2>5 DEF Introduced
<1>5. ASSUME NEW i \in 1..n, FullIn(p[m + i], j) = {"on"}
      PROVE  Introduced(p, j, m + i, u)
  <2>1. Introduced(t, j, i, v)
    BY <1>1, <1>5 DEF Brings
  <2>2. \A k \in DOMAIN p :
          \/ k \in 1..m /\ p[k] = q[k]
          \/ k - m \in 1..n /\ p[k] = t[k - m]
    <3>1. \A k \in 1..(m + n) :
            k \in 1..m \/ (k - m \in 1..n /\ m + (k - m) = k)
      BY <1>1
    <3> QED
      BY <1>1, <3>1
  <2>3. ASSUME v # None, \A k \in DOMAIN t : k < i => ItemIn(t[k], j) = {}
        PROVE  Introduced(p, j, m + i, u)
    <3>1. \A k \in DOMAIN p : k \notin 1..m /\ k < m + i => ItemIn(p[k], j) = {}
      <4>1. \A k \in DOMAIN p : k < m + i => k - m < i
        BY <1>1
      <4> QED
        BY <1>1, <2>2, <2>3, <4>1
    <3>2. CASE u = v /\ \A k \in DOMAIN q : ItemIn(q[k], j) = {}
      <4>1. \A k \in DOMAIN p : k < m + i => ItemIn(p[k], j) = {}
        BY <1>1, <3>1, <3>2
      <4> QED
        BY <2>3, <3>2, <4>1 DEF Introduced
    <3>3. ASSUME NEW k \in DOMAIN q, ItemIn(q[k], j) = {v},
                 \A l \in DOMAIN q : l > k => ItemIn(q[l], j) = {}
          PROVE  Introduced(p, j, m + i, u)
      <4>1. k \in DOMAIN p /\ p[k] = q[k] /\ k < m + i
        BY <1>1
      <4>2. ItemIn(p[k], j) \notin {{}, {None}}
        BY <2>3, <3>3, <4>1
      <4>3. \A l \in DOMAIN p : k < l /\ l < m + i => ItemIn(p[l], j) = {}
        BY <1>1, <3>1, <3>3
      <4> QED
        BY <4>1, <4>2, <4>3 DEF Introduced
    <3> QED
      BY <3>2, <3>3 DEF Brings, Leads, ItemsIn
  <2>4. ASSUME NEW k \in DOMAIN t, k < i, ItemIn(t[k], j) \notin {{}, {None}},
               \A l \in DOMAIN t : k < l /\ l < i => ItemIn(t[l], j) = {}
        PROVE  Introduced(p, j, m + i, u)
    <3>1. m + k \in DOMAIN p /\ p[m + k] = t[k] /\ m + k < m + i
      BY <1>1, <2>4
    <3>2. ASSUME NEW l \in DOMAIN p, m + k < l, l < m + i
          PROVE  ItemIn(p[l], j) = {}
      <4>1. l \notin 1..m /\ k < l - m /\ l - m < i
        BY <1>1, <3>2
      <4> QED
        BY <1>1, <2>2, <2>4, <4>1
    <3> QED
      BY <2>4, <3>1, <3>2 DEF Introduced
  <2> QED
    BY <2>1, <2>3, <2>4 DEF Introduced
<1>6. ASSUME NEW i \in DOMAIN p, FullIn(p[i], j) = {"on"}
      PROVE  Introduced(p, j, i, u)
  <2>1. i \in 1..m \/ (i - m \in 1..n /\ m + (i - m) = i)
    BY <1>1
  <2>2. CASE i \in 1..m
    BY <1>4, <1>6, <2>2
  <2>3. CASE i - m \in 1..n /\ m + (i - m) = i
    <3>1. PICK k \in 1..n : m + k = i
      BY <2>3
    <3> QED
      BY <1>5, <1>6, <3>1
  <2> QED
    BY <2>1, <2>2, <2>3
<1> QED
  BY <1>2, <1>3, <1>6 DEF Brings, p


LEMMA BringsTail ==
  ASSUME NEW T, NEW q \in Seq(T), q # <<>>, NEW j,
         NEW v, NEW a, NEW w, NEW b, Brings(q, j, v, a, w, b),
         NEW x, NEW y,
         (ItemIn(Head(q), j) = {} /\ x = v) \/ ItemIn(Head(q), j) = {x},
         (FullIn(Head(q), j) = {} /\ y = a) \/ FullIn(Head(q), j) = {y}
  PROVE  Brings(Tail(q), j, x, y, w, b)
<1> DEFINE p == Tail(q)
           n == Len(q) - 1
<1>1. /\ n \in Nat /\ DOMAIN q = 1..(n + 1) /\ DOMAIN p = 1..n
      /\ \A i \in 1..n : i + 1 \in 1..(n + 1) /\ p[i] = q[i + 1]
      /\ Head(q) = q[1] /\ 1 \in 1..(n + 1)
  <2>1. Len(q) \in Nat \ {0} /\ DOMAIN q = 1..Len(q)
    BY LenProperties, EmptySeq
  <2>2. p \in Seq(T) /\ Len(p) = Len(q) - 1 /\ \A i \in 1..Len(p) : p[i] = q[i + 1]
    BY HeadTailProperties
  <2>3. DOMAIN p = 1..Len(p)
    BY <2>2, LenProperties
  <2>4. Head(q) = q[1]
    OBVIOUS
  <2> QED
    BY <2>1, <2>2, <2>3, <2>4
<1> HIDE DEF p, n
<1>2. Leads(ItemsIn(p, j), x, w)
  <2>1. PICK f, h : f = ItemsIn(q, j) /\ h = ItemsIn(p, j)
    OBVIOUS
  <2>2. /\ DOMAIN f = 1..(n + 1) /\ DOMAIN h = 1..n
        /\ \A i \in 1..n : h[i] = f[i + 1]
        /\ f[1] = ItemIn(q[1], j)
    BY <1>1, <2>1 DEF ItemsIn
  <2>3. Leads(f, v, w)
    BY <2>1 DEF Brings
  <2>4. (f[1] = {} /\ x = v) \/ f[1] = {x}
    BY <1>1, <2>2
  <2>5. Leads(h, x, w)
    BY <1>1, <2>2, <2>3, <2>4, LeadsTail
  <2> QED
    BY <2>1, <2>5
<1>3. Leads(FullsIn(p, j), y, b)
  <2>1. PICK f, h : f = FullsIn(q, j) /\ h = FullsIn(p, j)
    OBVIOUS
  <2>2. /\ DOMAIN f = 1..(n + 1) /\ DOMAIN h = 1..n
        /\ \A i \in 1..n : h[i] = f[i + 1]
        /\ f[1] = FullIn(q[1], j)
    BY <1>1, <2>1 DEF FullsIn
  <2>3. Leads(f, a, b)
    BY <2>1 DEF Brings
  <2>4. (f[1] = {} /\ y = a) \/ f[1] = {y}
    BY <1>1, <2>2
  <2>5. Leads(h, y, b)
    BY <1>1, <2>2, <2>3, <2>4, LeadsTail
  <2> QED
    BY <2>1, <2>5
<1>4. ASSUME NEW i \in DOMAIN p, FullIn(p[i], j) = {"on"}
      PROVE  Introduced(p, j, i, x)
  <2>1. i \in 1..n /\ i + 1 \in DOMAIN q /\ Introduced(q, j, i + 1, v)
    BY <1>1, <1>4 DEF Brings
  <2>2. CASE v # None /\ \A k \in DOMAIN q : k < i + 1 => ItemIn(q[k], j) = {}
    <3>1. x = v
      <4>1. 1 \in DOMAIN q /\ 1 < i + 1
        BY <1>1, <2>1
      <4>2. ItemIn(Head(q), j) = {}
        BY <1>1, <2>2, <4>1
      <4> QED
        BY <4>2
    <3>2. \A k \in DOMAIN p : k < i => ItemIn(p[k], j) = {}
      <4>1. \A k \in 1..n : k < i => k + 1 < i + 1
        BY <1>1, <2>1
      <4> QED
        BY <1>1, <2>2, <4>1
    <3> QED
      BY <2>2, <3>1, <3>2 DEF Introduced
  <2>3. ASSUME NEW k \in DOMAIN q, k < i + 1, ItemIn(q[k], j) \notin {{}, {None}},
               \A l \in DOMAIN q : k < l /\ l < i + 1 => ItemIn(q[l], j) = {}
        PROVE  Introduced(p, j, i, x)
    <3>1. \A l \in DOMAIN p : k < l + 1 /\ l < i => ItemIn(p[l], j) = {}
      <4>1. \A l \in 1..n : l < i => l + 1 < i + 1
        BY <1>1, <2>1
      <4> QED
        BY <1>1, <2>3, <4>1
    <3>2. CASE k = 1
      <4>1. x # None
        BY <1>1, <2>3, <3>2
      <4>2. \A l \in DOMAIN p : k < l + 1
        BY <1>1, <3>2
      <4> QED
        BY <3>1, <4>1, <4>2 DEF Introduced
    <3>3. CASE k # 1
      <4>1. PICK m \in 1..n : m + 1 = k
        <5>1. k - 1 \in 1..n /\ (k - 1) + 1 = k
          BY <1>1, <3>3
        <5> QED
          BY <5>1
      <4>2. p[m] = q[k] /\ m < i
        BY <1>1, <2>1, <2>3, <4>1
      <4>3. \A l \in DOMAIN p : m < l => k < l + 1
        BY <1>1, <4>1
      <4> QED
        BY <1>1, <2>3, <3>1, <4>1, <4>2, <4>3 DEF Introduced
    <3> QED
      BY <3>2, <3>3
  <2> QED
    BY <2>1, <2>2, <2>3 DEF Introduced
<1> QED
  BY <1>2, <1>3, <1>4 DEF Brings, p

(* The first of them tells that j is there: j has an item already. *)
LEMMA BringsFirst ==
  ASSUME NEW T, NEW q \in Seq(T), q # <<>>, NEW j,
         NEW v, NEW a, NEW w, NEW b, Brings(q, j, v, a, w, b),
         FullIn(Head(q), j) = {"on"}
  PROVE  v # None
<1>1. 1 \in DOMAIN q /\ Head(q) = q[1] /\ \A k \in DOMAIN q : ~(k < 1)
  <2>1. Len(q) \in Nat \ {0} /\ DOMAIN q = 1..Len(q)
    BY LenProperties, EmptySeq
  <2>2. Head(q) = q[1]
    OBVIOUS
  <2> QED
    BY <2>1, <2>2
<1> QED
  BY <1>1 DEF Brings, Introduced

LEMMA BringsEnd ==
  ASSUME NEW j, NEW v, NEW a, NEW w, NEW b, Brings(<<>>, j, v, a, w, b)
  PROVE  v = w /\ a = b
<1>1. DOMAIN ItemsIn(<<>>, j) = {} /\ DOMAIN FullsIn(<<>>, j) = {}
  BY DEF ItemsIn, FullsIn
<1> QED
  BY <1>1 DEF Brings, Leads

LEMMA BringsNothing ==
  ASSUME NEW t, NEW j, NEW v, NEW a,
         \A i \in DOMAIN t : ItemIn(t[i], j) = {} /\ FullIn(t[i], j) = {}
  PROVE  Brings(t, j, v, a, v, a)
BY DEF Brings, Leads, ItemsIn, FullsIn

LEMMA BringsOne ==
  ASSUME NEW s, NEW j, NEW v, NEW a, NEW w, NEW b,
         (ItemIn(s, j) = {} /\ w = v) \/ ItemIn(s, j) = {w},
         (FullIn(s, j) = {} /\ b = a) \/ FullIn(s, j) = {b},
         FullIn(s, j) = {"on"} => v # None
  PROVE  Brings(<<s>>, j, v, a, w, b)
<1> DEFINE t == <<s>>
<1>1. DOMAIN t = {1} /\ t[1] = s
  OBVIOUS
<1> HIDE DEF t
<1>2. Leads(ItemsIn(t, j), v, w)
  BY <1>1 DEF Leads, ItemsIn
<1>3. Leads(FullsIn(t, j), a, b)
  BY <1>1 DEF Leads, FullsIn
<1>4. \A i \in DOMAIN t : FullIn(t[i], j) = {"on"} => Introduced(t, j, i, v)
  BY <1>1 DEF Introduced
<1> QED
  BY <1>2, <1>3, <1>4 DEF Brings, t

-----------------------------------------------------------------------------
(* What the server sends in one go tells what it does. *)

LEMMA PushSays ==
  ASSUME NEW j, NEW k, NEW x
  PROVE  /\ j = k => ItemIn(J!Push(j, x), k) = {x}
         /\ j # k => ItemIn(J!Push(j, x), k) = {} /\ FullIn(J!Push(j, x), k) = {}
         /\ x # None => FullIn(J!Push(j, x), k) = {}
         /\ j = k /\ x = None => FullIn(J!Push(j, x), k) = {"off"}
BY DEF J!Push, ItemIn, FullIn

LEMMA PresenceSays ==
  ASSUME NEW j, NEW k, NEW r, NEW on
  PROVE  /\ ItemIn(J!Presence(j, r, on), k) = {}
         /\ j # k \/ r # "full" => FullIn(J!Presence(j, r, on), k) = {}
         /\ j = k /\ r = "full" =>
              FullIn(J!Presence(j, r, on), k) = {IF on THEN "on" ELSE "off"}
BY DEF J!Presence, ItemIn, FullIn

LEMMA BringsPush ==
  ASSUME NEW j, NEW k, NEW x, NEW v, NEW a
  PROVE  Brings(<<J!Push(j, x)>>, k, v, a,
                IF j = k THEN x ELSE v,
                IF j = k /\ x = None THEN "off" ELSE a)
<1>1. CASE j # k
  BY <1>1, PushSays, BringsOne
<1>2. CASE j = k /\ x = None
  BY <1>2, PushSays, BringsOne
<1>3. CASE j = k /\ x # None
  BY <1>3, PushSays, BringsOne
<1> QED
  BY <1>1, <1>2, <1>3

LEMMA BringsPresence ==
  ASSUME NEW j, NEW k, NEW on \in BOOLEAN, NEW v, NEW a,
         j = k /\ on => v # None
  PROVE  Brings(<<J!Presence(j, "full", on)>>, k, v, a, v,
                IF j = k THEN IF on THEN "on" ELSE "off" ELSE a)
<1>1. CASE j # k
  BY <1>1, PresenceSays, BringsOne
<1>2. CASE j = k /\ on
  BY <1>2, PresenceSays, BringsOne
<1>3. CASE j = k /\ ~on
  BY <1>3, PresenceSays, BringsOne
<1> QED
  BY <1>1, <1>2, <1>3

LEMMA BringsPresenceIf ==
  ASSUME NEW j, NEW k, NEW x, NEW on \in BOOLEAN, NEW v, NEW a,
         j = k /\ on => v # None
  PROVE  Brings(J!PresenceIf(j, x, on), k, v, a, v,
                IF j = k /\ x # None /\ x.to /\ j \in server.online
                  THEN IF on THEN "on" ELSE "off" ELSE a)
<1>1. CASE x # None /\ x.to /\ j \in server.online
  BY <1>1, BringsPresence DEF J!PresenceIf
<1>2. CASE ~(x # None /\ x.to /\ j \in server.online)
  <2>1. J!PresenceIf(j, x, on) = <<>>
    BY <1>2 DEF J!PresenceIf
  <2> QED
    BY <1>2, <2>1, BringsNothing
<1> QED
  BY <1>1, <1>2

LEMMA StanzasSent ==
  ASSUME NEW j \in Jids
  PROVE  /\ \A x \in J!Items \cup {None} : <<J!Push(j, x)>> \in Seq(Stanzas)
         /\ \A r \in J!Resources, on \in BOOLEAN :
              <<J!Presence(j, r, on)>> \in Seq(Stanzas)
         /\ \A x : \A on \in BOOLEAN : J!PresenceIf(j, x, on) \in Seq(Stanzas)
         /\ <<>> \in Seq(Stanzas)
<1>1. \A x \in J!Items \cup {None} : J!Push(j, x) \in Stanzas
  BY DEF J!Push, Stanzas
<1>2. \A r \in J!Resources, on \in BOOLEAN : J!Presence(j, r, on) \in Stanzas
  BY DEF J!Presence, Stanzas
<1>3. \A s \in Stanzas : <<s>> \in Seq(Stanzas)
  OBVIOUS
<1>4. "full" \in J!Resources
  BY DEF J!Resources
<1> QED
  BY <1>1, <1>2, <1>3, <1>4 DEF J!PresenceIf

(* The server changes, and says so. *)
Reports(t) ==
  \A k \in Jids : Brings(t, k, server.roster[k], There(k),
                         server'.roster[k], There(k)')

Sent == \E t \in Seq(Stanzas) : J!Send(t) /\ server' \in Servers /\ Reports(t)

LEMMA SetItemSets ==
  ASSUME server \in Servers, NEW j \in Jids, NEW x \in J!Items \cup {None},
         J!SetItem(j, x)
  PROVE  /\ server' \in Servers /\ server'.online = server.online
         /\ \A k \in Jids : server'.roster[k] = IF k = j THEN x ELSE server.roster[k]
         /\ \A k \in Jids \ {j} : There(k)' = There(k)
         /\ There(j)' = IF x # None /\ x.to /\ j \in server.online
                          THEN "on" ELSE "off"
<1>1. /\ server' \in Servers /\ server'.online = server.online
      /\ \A k \in Jids : server'.roster[k] = IF k = j THEN x ELSE server.roster[k]
  BY DEF J!SetItem, Servers
<1> QED
  BY <1>1 DEF There

LEMMA NoneIsNoItem ==
  ASSUME J!JabberAssumption PROVE None \notin J!Items
BY DEF J!JabberAssumption

LEMMA AddsSent ==
  ASSUME J!JabberAssumption, server \in Servers, NEW j \in Jids,
         NEW by \in {"me", "another"}, J!Adds(j, by)
  PROVE  Sent
<1> DEFINE x == IF server.roster[j] = None
                  THEN [to |-> FALSE, ask |-> FALSE, by |-> by]
                  ELSE server.roster[j]
<1>1. J!SetItem(j, x) /\ J!Send(<<J!Push(j, x)>>)
  BY DEF J!Adds
<1>2. x \in J!Items /\ x # None
  <2>1. x \in J!Items
    BY DEF Servers, J!Items
  <2> QED
    BY <2>1, NoneIsNoItem
<1>3. x.to = (server.roster[j] # None /\ server.roster[j].to)
  BY DEF Servers, J!Items
<1> HIDE DEF x
<1>4. ASSUME NEW k \in Jids
      PROVE  Brings(<<J!Push(j, x)>>, k, server.roster[k], There(k),
                    server'.roster[k], There(k)')
  <2>1. There(j)' = There(j)
    BY <1>1, <1>2, <1>3, SetItemSets DEF There
  <2>2. /\ server'.roster[k] = IF j = k THEN x ELSE server.roster[k]
        /\ There(k)' = There(k)
    BY <1>1, <1>2, <2>1, SetItemSets
  <2> QED
    BY <1>2, <2>2, BringsPush
<1> QED
  BY <1>1, <1>2, <1>4, SetItemSets, StanzasSent DEF Sent, Reports

LEMMA AsksSent ==
  ASSUME J!JabberAssumption, server \in Servers, NEW j \in Jids, J!Asks(j, "me")
  PROVE  Sent
<1> DEFINE x == J!Asked(server.roster[j], "me")
<1>1. J!SetItem(j, x) /\ J!Send(<<J!Push(j, x)>>)
  BY DEF J!Asks
<1>2. x \in J!Items /\ x # None
  <2>1. x \in J!Items
    BY DEF Servers, J!Items, J!Asked
  <2> QED
    BY <2>1, NoneIsNoItem
<1>3. x.to = (server.roster[j] # None /\ server.roster[j].to)
  BY DEF Servers, J!Items, J!Asked
<1> HIDE DEF x
<1>4. ASSUME NEW k \in Jids
      PROVE  Brings(<<J!Push(j, x)>>, k, server.roster[k], There(k),
                    server'.roster[k], There(k)')
  <2>1. There(j)' = There(j)
    BY <1>1, <1>2, <1>3, SetItemSets DEF There
  <2>2. /\ server'.roster[k] = IF j = k THEN x ELSE server.roster[k]
        /\ There(k)' = There(k)
    BY <1>1, <1>2, <2>1, SetItemSets
  <2> QED
    BY <1>2, <2>2, BringsPush
<1> QED
  BY <1>1, <1>2, <1>4, SetItemSets, StanzasSent DEF Sent, Reports

LEMMA RemovesSent ==
  ASSUME J!JabberAssumption, server \in Servers, NEW j \in Jids, J!Removes(j)
  PROVE  Sent
<1> DEFINE t == J!PresenceIf(j, server.roster[j], FALSE)
<1>1. J!SetItem(j, None) /\ J!Send(<<J!Push(j, None)>> \o t)
  BY DEF J!Removes
<1>2. <<J!Push(j, None)>> \in Seq(Stanzas) /\ t \in Seq(Stanzas)
  BY StanzasSent
<1>3. ASSUME NEW k \in Jids
      PROVE  Brings(<<J!Push(j, None)>> \o t, k, server.roster[k], There(k),
                    server'.roster[k], There(k)')
  <2> DEFINE v == IF j = k THEN None ELSE server.roster[k]
             a == IF j = k THEN "off" ELSE There(k)
  <2>1. server'.roster[k] = v /\ There(k)' = a
    BY <1>1, SetItemSets
  <2>2. Brings(<<J!Push(j, None)>>, k, server.roster[k], There(k), v, a)
    BY BringsPush
  <2>3. Brings(t, k, v, a, v,
               IF j = k /\ server.roster[j] # None /\ server.roster[j].to
                        /\ j \in server.online
                 THEN IF FALSE THEN "on" ELSE "off" ELSE a)
    <3> HIDE DEF v, a
    <3> QED
      BY BringsPresenceIf
  <2>4. Brings(t, k, v, a, v, a)
    BY <2>3, Zenon
  <2> HIDE DEF v, a, t
  <2>5. Brings(<<J!Push(j, None)>> \o t, k, server.roster[k], There(k), v, a)
    BY <1>2, <2>2, <2>4, BringsJoin
  <2> QED
    BY <2>1, <2>5
<1>4. <<J!Push(j, None)>> \o t \in Seq(Stanzas)
  BY <1>2, ConcatProperties
<1> QED
  BY <1>1, <1>3, <1>4, SetItemSets DEF Sent, Reports

LEMMA ApprovesSent ==
  ASSUME J!JabberAssumption, server \in Servers, NEW j \in Jids,
         server.roster[j] # None, J!Approves(j)
  PROVE  Sent
<1> DEFINE x == [server.roster[j] EXCEPT !.to = TRUE, !.ask = FALSE]
           s == J!Presence(j, "bare", TRUE)
           t == J!PresenceIf(j, x, TRUE)
<1>1. J!SetItem(j, x) /\ J!Send(<<s, J!Push(j, x)>> \o t)
  BY DEF J!Approves
<1>2. x \in J!Items /\ x # None /\ x.to
  <2>1. x \in J!Items /\ x.to
    BY DEF Servers, J!Items
  <2> QED
    BY <2>1, NoneIsNoItem
<1>3. /\ <<s>> \in Seq(Stanzas) /\ <<J!Push(j, x)>> \in Seq(Stanzas)
      /\ t \in Seq(Stanzas)
  <2>1. "bare" \in J!Resources
    BY DEF J!Resources
  <2> QED
    BY <1>2, <2>1, StanzasSent
<1> HIDE DEF x
<1>4. ASSUME NEW k \in Jids
      PROVE  Brings((<<s>> \o <<J!Push(j, x)>>) \o t, k, server.roster[k],
                    There(k), server'.roster[k], There(k)')
  <2> DEFINE v == IF j = k THEN x ELSE server.roster[k]
             b == IF j = k /\ x # None /\ x.to /\ j \in server.online
                    THEN IF TRUE THEN "on" ELSE "off" ELSE There(k)
  <2>1. server'.roster[k] = v /\ There(k)' = b
    <3>1. j = k => There(k)' = IF j \in server.online THEN "on" ELSE "off"
      BY <1>1, <1>2, SetItemSets
    <3>2. j = k /\ j \notin server.online => There(k) = "off"
      BY DEF There
    <3> QED
      BY <1>1, <1>2, <3>1, <3>2, SetItemSets
  <2>2. Brings(<<s>>, k, server.roster[k], There(k), server.roster[k], There(k))
    <3>1. ItemIn(s, k) = {} /\ FullIn(s, k) = {}
      BY PresenceSays
    <3> QED
      BY <3>1, BringsOne
  <2>3. Brings(<<J!Push(j, x)>>, k, server.roster[k], There(k), v, There(k))
    BY <1>2, BringsPush
  <2>4. Brings(t, k, v, There(k), v, b)
    <3>1. j = k => v # None
      BY <1>2
    <3> HIDE DEF v
    <3> QED
      BY <3>1, BringsPresenceIf
  <2> HIDE DEF v, b, t, s
  <2>5. Brings(<<s>> \o <<J!Push(j, x)>>, k, server.roster[k], There(k), v, There(k))
    BY <1>3, <2>2, <2>3, BringsJoin
  <2>6. <<s>> \o <<J!Push(j, x)>> \in Seq(Stanzas)
    BY <1>3, ConcatProperties
  <2>7. Brings((<<s>> \o <<J!Push(j, x)>>) \o t, k, server.roster[k], There(k), v, b)
    BY <1>3, <2>4, <2>5, <2>6, BringsJoin
  <2> QED
    BY <2>1, <2>7
<1>5. (<<s>> \o <<J!Push(j, x)>>) \o t \in Seq(Stanzas)
  BY <1>3, ConcatProperties
<1>6. <<s, J!Push(j, x)>> \o t = (<<s>> \o <<J!Push(j, x)>>) \o t
  <2> HIDE DEF s, t
  <2> QED
    OBVIOUS
<1> HIDE DEF s, t
<1>7. server' \in Servers
  BY <1>1, <1>2, SetItemSets
<1>8. J!Send((<<s>> \o <<J!Push(j, x)>>) \o t)
  BY <1>1, <1>6
<1> QED
  BY <1>4, <1>5, <1>7, <1>8 DEF Sent, Reports

LEMMA StopsSent ==
  ASSUME J!JabberAssumption, server \in Servers, NEW j \in Jids,
         server.roster[j] # None,
         NEW said \in {<<>>, <<J!Presence(j, "bare", TRUE)>>}, J!Stops(j, said)
  PROVE  Sent
<1> DEFINE x == [server.roster[j] EXCEPT !.to = FALSE, !.ask = FALSE]
           t == J!PresenceIf(j, server.roster[j], FALSE)
<1>1. J!SetItem(j, x) /\ J!Send((said \o t) \o <<J!Push(j, x)>>)
  BY DEF J!Stops
<1>2. x \in J!Items /\ x # None /\ ~x.to
  <2>1. x \in J!Items /\ ~x.to
    BY DEF Servers, J!Items
  <2> QED
    BY <2>1, NoneIsNoItem
<1>3. /\ said \in Seq(Stanzas) /\ <<J!Push(j, x)>> \in Seq(Stanzas)
      /\ t \in Seq(Stanzas)
  <2>1. "bare" \in J!Resources
    BY DEF J!Resources
  <2> QED
    BY <1>2, <2>1, StanzasSent
<1> HIDE DEF x
<1>4. ASSUME NEW k \in Jids
      PROVE  Brings((said \o t) \o <<J!Push(j, x)>>, k, server.roster[k],
                    There(k), server'.roster[k], There(k)')
  <2> DEFINE v == server.roster[k]
             w == IF j = k THEN x ELSE v
             b == IF j = k /\ server.roster[j] # None /\ server.roster[j].to
                           /\ j \in server.online
                    THEN IF FALSE THEN "on" ELSE "off" ELSE There(k)
  <2>1. server'.roster[k] = w /\ There(k)' = b
    <3>1. j = k => There(k)' = "off"
      BY <1>1, <1>2, SetItemSets
    <3>2. j = k => b = "off"
      BY DEF There
    <3> QED
      BY <1>1, <1>2, <3>1, <3>2, SetItemSets
  <2>2. Brings(said, k, v, There(k), v, There(k))
    <3>1. CASE said = <<>>
      BY <3>1, BringsNothing
    <3>2. CASE said = <<J!Presence(j, "bare", TRUE)>>
      <4>1. /\ ItemIn(J!Presence(j, "bare", TRUE), k) = {}
            /\ FullIn(J!Presence(j, "bare", TRUE), k) = {}
        BY PresenceSays
      <4> QED
        BY <3>2, <4>1, BringsOne
    <3> QED
      BY <3>1, <3>2
  <2>3. Brings(t, k, v, There(k), v, b)
    <3> HIDE DEF v
    <3> QED
      BY BringsPresenceIf
  <2> HIDE DEF v, b
  <2>4. Brings(<<J!Push(j, x)>>, k, v, b, w, b)
    BY <1>2, BringsPush
  <2> HIDE DEF w, t
  <2>5. Brings(said \o t, k, v, There(k), v, b)
    BY <1>3, <2>2, <2>3, BringsJoin
  <2>6. said \o t \in Seq(Stanzas)
    BY <1>3, ConcatProperties
  <2>7. Brings((said \o t) \o <<J!Push(j, x)>>, k, v, There(k), w, b)
    BY <1>3, <2>4, <2>5, <2>6, BringsJoin
  <2> QED
    BY <2>1, <2>7 DEF v
<1>5. (said \o t) \o <<J!Push(j, x)>> \in Seq(Stanzas)
  BY <1>3, ConcatProperties
<1> HIDE DEF t
<1>6. server' \in Servers
  BY <1>1, <1>2, SetItemSets
<1> QED
  BY <1>1, <1>4, <1>5, <1>6 DEF Sent, Reports

LEMMA OnlineSent ==
  ASSUME J!JabberAssumption, server \in Servers, NEW j \in Jids,
         server' = [server EXCEPT !.online = (@ \ {j}) \cup ({j} \ @)],
         J!Send(IF server.roster[j] # None /\ server.roster[j].to
                THEN <<J!Presence(j, "full", j \notin server.online)>> ELSE <<>>)
  PROVE  Sent
<1>0. PICK on \in BOOLEAN : on = (j \notin server.online)
  OBVIOUS
<1>1. /\ server' \in Servers /\ server'.roster = server.roster
      /\ (j \in server'.online) = on
      /\ \A k \in Jids \ {j} : (k \in server'.online) = (k \in server.online)
  BY <1>0 DEF Servers
<1>2. CASE server.roster[j] # None /\ server.roster[j].to
  <2>1. J!Send(<<J!Presence(j, "full", on)>>)
    BY <1>0, <1>2
  <2>2. <<J!Presence(j, "full", on)>> \in Seq(Stanzas)
    <3>1. "full" \in J!Resources
      BY DEF J!Resources
    <3> QED
      BY <1>1, <3>1, StanzasSent
  <2>3. ASSUME NEW k \in Jids
        PROVE  Brings(<<J!Presence(j, "full", on)>>, k, server.roster[k],
                      There(k), server'.roster[k], There(k)')
    <3>1. There(k)' = IF j = k
                        THEN IF on THEN "on" ELSE "off" ELSE There(k)
      BY <1>1, <1>2 DEF There
    <3>2. j = k /\ on => server.roster[k] # None
      BY <1>2
    <3>3. Brings(<<J!Presence(j, "full", on)>>, k, server.roster[k], There(k),
                 server.roster[k],
                 IF j = k THEN IF on THEN "on" ELSE "off" ELSE There(k))
      BY <3>2, BringsPresence
    <3> QED
      BY <1>1, <3>1, <3>3
  <2> QED
    BY <1>1, <2>1, <2>2, <2>3 DEF Sent, Reports
<1>3. CASE ~(server.roster[j] # None /\ server.roster[j].to)
  <2>1. J!Send(<<>>)
    BY <1>3
  <2>2. ASSUME NEW k \in Jids
        PROVE  Brings(<<>>, k, server.roster[k], There(k),
                      server'.roster[k], There(k)')
    <3>1. There(k)' = There(k)
      BY <1>1, <1>3 DEF There
    <3>2. Brings(<<>>, k, server.roster[k], There(k), server.roster[k], There(k))
      BY BringsNothing
    <3> QED
      BY <1>1, <3>1, <3>2
  <2> QED
    BY <1>1, <2>1, <2>2, StanzasSent DEF Sent, Reports
<1> QED
  BY <1>2, <1>3

(* What was sent joins what is on its way. *)
LEMMA SentKeeps ==
  ASSUME HeapInv, Sent, UNCHANGED jabber,
         (heap' = None /\ heap = None)
           \/ /\ heap # None /\ heap' # None /\ heap' \in J!Heaps
              /\ heap'.items = heap.items /\ heap'.infos = heap.infos
  PROVE  HeapInv'
<1>1. PICK t \in Seq(Stanzas) : J!Send(t) /\ server' \in Servers /\ Reports(t)
  BY DEF Sent
<1>2. StreamTypeOK /\ ConnectionInv /\ jabber' = jabber
  BY DEF HeapInv
<1>3. inbox \o t \in Seq(Stanzas) /\ inbox \in Seq(Stanzas)
  BY <1>2, ConcatProperties DEF StreamTypeOK
<1>4. StreamTypeOK'
  BY <1>1, <1>2, <1>3 DEF StreamTypeOK, J!Send
<1>5. ConnectionInv'
  BY <1>2 DEF ConnectionInv
<1>6. ASSUME heap' # None, jabber'.handlers
      PROVE  RosterInv'
  <2>1. inbox' = inbox \o t /\ RosterInv
    BY <1>1, <1>2, <1>6 DEF HeapInv, ConnectionInv, J!Send
  <2>2. ASSUME NEW j \in Jids
        PROVE  /\ Brings(inbox', j, heap'.items[j], Told(j)', server'.roster[j],
                         There(j)')
               /\ heap'.items[j] = None => heap'.infos[j] = {}
    <3>1. Told(j)' = Told(j) /\ heap'.items[j] = heap.items[j]
      BY <1>6 DEF Told
    <3>2. /\ Brings(inbox, j, heap.items[j], Told(j), server.roster[j], There(j))
          /\ heap.items[j] = None => heap.infos[j] = {}
      BY <2>1 DEF RosterInv
    <3>3. Brings(t, j, server.roster[j], There(j), server'.roster[j], There(j)')
      BY <1>1 DEF Reports
    <3>4. Brings(inbox \o t, j, heap.items[j], Told(j), server'.roster[j], There(j)')
      BY <1>3, <3>2, <3>3, BringsJoin
    <3> QED
      BY <1>6, <2>1, <3>1, <3>2, <3>4
  <2> QED
    BY <2>2 DEF RosterInv
<1> QED
  BY <1>4, <1>5, <1>6 DEF HeapInv

-----------------------------------------------------------------------------
(* The heap *)

LEMMA ListedFacts ==
  ASSUME NEW S, IsFiniteSet(S), NEW q, q = J!SetToSeq(S)
  PROVE  /\ q \in Seq(S)
         /\ \A x \in S : \E i \in DOMAIN q : q[i] = x
         /\ \A i, k \in DOMAIN q : q[i] = q[k] => i = k
<1> DEFINE n == Cardinality(S)
<1>1. n \in Nat
  BY FS_CardinalityType
<1>2. PICK f \in Bijection(1..n, S) : TRUE
  BY FS_CardinalityType DEF ExistsBijection
<1>3. f \in [1..n -> S] /\ J!IsInjective(f)
  BY <1>2 DEF Bijection, Injection, IsInjective, J!IsInjective
<1>4. q \in [1..n -> S] /\ J!IsInjective(q)
  <2>1. J!Cardinality(S) = n
    BY DEF J!Cardinality, Cardinality
  <2> QED
    BY <1>3, <2>1 DEF J!SetToSeq
<1> HIDE DEF n
<1>5. q \in Injection(1..n, S)
  BY <1>4 DEF Injection, IsInjective, J!IsInjective
<1>6. IsFiniteSet(1..n) /\ Cardinality(1..n) = n
  BY <1>1, FS_Interval
<1>7. q \in Surjection(1..n, S)
  BY <1>5, <1>6, FS_Injection DEF n
<1>8. \A x \in S : \E i \in 1..n : q[i] = x
  BY <1>7 DEF Surjection
<1>9. \A i, k \in 1..n : q[i] = q[k] => i = k
  BY <1>4 DEF J!IsInjective
<1>10. DOMAIN q = 1..n /\ q \in Seq(S)
  BY <1>1, <1>4
<1> QED
  BY <1>8, <1>9, <1>10

(* Each of them is asked for once, and the server says so. *)
LEMMA BringsAsked ==
  ASSUME J!JabberAssumption, NEW asked \in SUBSET Jids,
         NEW f \in [asked -> J!Items], NEW k \in Jids, NEW v, NEW a,
         NEW S, \A x : x \in S <=> \E j \in asked : x = J!Push(j, f[j]),
         NEW q, q = J!SetToSeq(S)
  PROVE  /\ q \in Seq(Stanzas)
         /\ Brings(q, k, v, a, IF k \in asked THEN f[k] ELSE v, a)
<1>1. IsFiniteSet(S)
  <2>1. IsFiniteSet(asked)
    <3>1. J!IsFiniteSet(Jids)
      BY DEF J!JabberAssumption
    <3>2. IsFiniteSet(Jids)
      BY <3>1 DEF J!IsFiniteSet, IsFiniteSet
    <3> QED
      BY <3>2, FS_Subset
  <2>2. [j \in asked |-> J!Push(j, f[j])] \in Surjection(asked, S)
    BY DEF Surjection
  <2> QED
    BY <2>1, <2>2, FS_Surjection
<1>2. S \subseteq Stanzas
  BY DEF J!Push, Stanzas
<1>3. /\ q \in Seq(S)
      /\ \A x \in S : \E i \in DOMAIN q : q[i] = x
      /\ \A i, l \in DOMAIN q : q[i] = q[l] => i = l
  BY <1>1, ListedFacts
<1>4. \A i \in DOMAIN q : \E j \in asked : q[i] = J!Push(j, f[j])
  <2>1. \A i \in DOMAIN q : q[i] \in S
    BY <1>3, ElementOfSeq, LenProperties
  <2> QED
    BY <2>1
<1>5. q \in Seq(Stanzas)
  BY <1>2, <1>3, SeqMonotonic
<1>6. \A i \in DOMAIN q : FullIn(q[i], k) = {}
  <2>1. \A j \in asked : FullIn(J!Push(j, f[j]), k) = {}
    BY PushSays, NoneIsNoItem
  <2> QED
    BY <1>4, <2>1
<1>7. CASE k \notin asked
  <2>1. \A i \in DOMAIN q : ItemIn(q[i], k) = {}
    BY <1>4, <1>7, PushSays
  <2> QED
    BY <1>5, <1>6, <1>7, <2>1, BringsNothing
<1>8. CASE k \in asked
  <2>1. PICK i \in DOMAIN q : q[i] = J!Push(k, f[k])
    BY <1>3, <1>8
  <2>2. ItemIn(q[i], k) = {f[k]}
    <3>1. ItemIn(J!Push(k, f[k]), k) = {f[k]}
      BY PushSays
    <3> QED
      BY <2>1, <3>1
  <2>3. ASSUME NEW l \in DOMAIN q, l # i
        PROVE  ItemIn(q[l], k) = {}
    <3>1. PICK j \in asked : q[l] = J!Push(j, f[j])
      BY <1>4
    <3>2. j # k
      BY <1>3, <2>1, <2>3, <3>1
    <3>3. ItemIn(J!Push(j, f[j]), k) = {}
      BY <3>2, PushSays
    <3> QED
      BY <3>1, <3>3
  <2>4. \A l \in DOMAIN q : l > i => l # i
    <3>1. q \in Seq(S) /\ DOMAIN q = 1..Len(q)
      BY <1>3, LenProperties
    <3>2. i \in Int
      BY <3>1, LenProperties
    <3> QED
      BY <3>1, <3>2
  <2>5. Leads(ItemsIn(q, k), v, f[k])
    BY <2>2, <2>3, <2>4 DEF Leads, ItemsIn
  <2>6. Leads(FullsIn(q, k), a, a)
    BY <1>6 DEF Leads, FullsIn
  <2> QED
    BY <1>5, <1>6, <1>8, <2>5, <2>6 DEF Brings
<1> QED
  BY <1>7, <1>8

LEMMA PresenceKeeps ==
  ASSUME HeapInv, heap # None, jabber.handlers, inbox # <<>>,
         NEW who \in SUBSET Jids, NEW r \in J!Resources, NEW on \in BOOLEAN,
         \A k \in Jids : ItemIn(Head(inbox), k) = {},
         \A k \in Jids : FullIn(Head(inbox), k) =
           IF k \in who /\ r = "full" THEN {IF on THEN "on" ELSE "off"} ELSE {},
         J!handle_presence(who, r, on), UNCHANGED jabber, J!JabberAssumption
  PROVE  HeapInv'
<1>1. StreamTypeOK /\ ConnectionInv /\ RosterInv
  BY DEF HeapInv
<1>2. inbox \in Seq(Stanzas) /\ heap \in J!Heaps
  BY <1>1 DEF StreamTypeOK
<1>3. /\ heap' \in J!Heaps /\ heap' # None /\ heap'.items = heap.items
      /\ \A k \in Jids : heap'.infos[k] =
           IF k \notin who \/ heap.items[k] = None THEN heap.infos[k]
             ELSE IF on THEN heap.infos[k] \cup {r} ELSE heap.infos[k] \ {r}
  <2>1. /\ heap' \in J!Heaps /\ heap'.items = heap.items
        /\ \A k \in Jids : heap'.infos[k] =
             IF k \notin who \/ heap.items[k] = None THEN heap.infos[k]
               ELSE IF on THEN heap.infos[k] \cup {r} ELSE heap.infos[k] \ {r}
    BY <1>2 DEF J!handle_presence, J!Heaps
  <2> QED
    BY <2>1 DEF J!JabberAssumption
<1>4. Tail(inbox) \in Seq(Stanzas)
  BY <1>2, HeadTailProperties
<1>5. StreamTypeOK' /\ ConnectionInv'
  BY <1>1, <1>3, <1>4 DEF StreamTypeOK, ConnectionInv, J!handle_presence
<1>6. ASSUME NEW k \in Jids
      PROVE  /\ Brings(inbox', k, heap'.items[k], Told(k)', server'.roster[k],
                       There(k)')
             /\ heap'.items[k] = None => heap'.infos[k] = {}
  <2>1. /\ Brings(inbox, k, heap.items[k], Told(k), server.roster[k], There(k))
        /\ heap.items[k] = None => heap.infos[k] = {}
    BY <1>1 DEF RosterInv
  <2>2. There(k)' = There(k) /\ server' = server /\ inbox' = Tail(inbox)
    BY DEF There, J!handle_presence
  <2>3. (FullIn(Head(inbox), k) = {} /\ Told(k)' = Told(k))
          \/ FullIn(Head(inbox), k) = {Told(k)'}
    <3>1. CASE k \notin who \/ r # "full"
      <4>1. "full" \in heap'.infos[k] <=> "full" \in heap.infos[k]
        <5>1. CASE k \notin who \/ heap.items[k] = None
          BY <1>3, <5>1
        <5>2. CASE ~(k \notin who \/ heap.items[k] = None)
          <6>1. r # "full"
            BY <3>1, <5>2
          <6>2. heap'.infos[k] \in {heap.infos[k] \cup {r}, heap.infos[k] \ {r}}
            BY <1>3, <5>2
          <6> QED
            BY <6>1, <6>2
        <5> QED
          BY <5>1, <5>2
      <4>2. Told(k)' = Told(k)
        BY <4>1 DEF Told
      <4> QED
        BY <3>1, <4>2
    <3>2. CASE k \in who /\ r = "full" /\ heap.items[k] = None
      <4>1. Told(k)' = "off"
        BY <1>3, <2>1, <3>2 DEF Told
      <4>2. ~on
        BY <1>2, <2>1, <3>2, BringsFirst
      <4> QED
        BY <3>2, <4>1, <4>2
    <3>3. CASE k \in who /\ r = "full" /\ heap.items[k] # None
      <4>1. Told(k)' = IF on THEN "on" ELSE "off"
        BY <1>3, <3>3 DEF Told
      <4> QED
        BY <3>3, <4>1
    <3> QED
      BY <3>1, <3>2, <3>3
  <2>4. Brings(Tail(inbox), k, heap.items[k], Told(k)', server.roster[k], There(k))
    <3>1. ItemIn(Head(inbox), k) = {}
      OBVIOUS
    <3> QED
      BY <1>2, <2>1, <2>3, <3>1, BringsTail
  <2> QED
    BY <1>3, <2>1, <2>2, <2>4
<1> QED
  BY <1>5, <1>6 DEF HeapInv, RosterInv

LEMMA ParseKeeps ==
  ASSUME J!JabberAssumption, HeapInv, heap # None, inbox # <<>>,
         NEW D \in SUBSET Jids, NEW items \in [D -> J!Items \cup {None}],
         \A k \in Jids : ItemIn(Head(inbox), k) =
           IF k \in D THEN {items[k]} ELSE {},
         \A k \in Jids : FullIn(Head(inbox), k) =
           IF k \in D /\ items[k] = None THEN {"off"} ELSE {},
         J!parse_roster(items), UNCHANGED jabber
  PROVE  HeapInv'
<1>1. StreamTypeOK /\ ConnectionInv
  BY DEF HeapInv
<1>2. inbox \in Seq(Stanzas) /\ heap \in J!Heaps /\ server \in Servers
  BY <1>1 DEF StreamTypeOK
<1>3. PICK asked \in SUBSET Jids :
        /\ heap' = [heap EXCEPT
             !.items = [j \in Jids |-> IF j \in D THEN items[j] ELSE @[j]],
             !.infos = [j \in Jids |-> IF j \in D /\ items[j] = None
                                         THEN {} ELSE @[j]],
             !.items_added_by_me = @ \ asked]
        /\ server' = [server EXCEPT !.roster = [j \in Jids |->
                        IF j \in asked THEN J!Asked(@[j], "me") ELSE @[j]]]
        /\ inbox' = Tail(inbox) \o
                      J!SetToSeq({J!Push(j, server'.roster[j]) : j \in asked})
  <2>1. J!ToAsk(items) \subseteq Jids
    BY DEF J!ToAsk
  <2> QED
    BY <2>1 DEF J!parse_roster
<1> DEFINE S == {J!Push(j, server'.roster[j]) : j \in asked}
           q == J!SetToSeq(S)
<1>4. /\ heap' \in J!Heaps
      /\ \A k \in Jids :
           /\ heap'.items[k] = IF k \in D THEN items[k] ELSE heap.items[k]
           /\ heap'.infos[k] = IF k \in D /\ items[k] = None
                                 THEN {} ELSE heap.infos[k]
  BY <1>2, <1>3 DEF J!Heaps
<1>5. heap' # None
  BY <1>4 DEF J!JabberAssumption
<1>6. server' = [server EXCEPT !.roster = [j \in Jids |->
                   IF j \in asked THEN J!Asked(@[j], "me") ELSE @[j]]]
  BY <1>3
<1>7. \A x \in J!Items \cup {None} :
        /\ J!Asked(x, "me") \in J!Items
        /\ J!Asked(x, "me").to = (x # None /\ x.to)
  BY DEF J!Asked, J!Items
<1>8. /\ server' \in Servers /\ server'.online = server.online
      /\ \A k \in Jids : server'.roster[k] =
           IF k \in asked THEN J!Asked(server.roster[k], "me") ELSE server.roster[k]
  BY <1>2, <1>6, <1>7 DEF Servers
<1>9. inbox' = Tail(inbox) \o q
  BY <1>3
<1>10. Tail(inbox) \in Seq(Stanzas)
  BY <1>2, HeadTailProperties
<1>11. ASSUME NEW k \in Jids
       PROVE  /\ q \in Seq(Stanzas)
              /\ Brings(q, k, server.roster[k], There(k),
                        server'.roster[k], There(k)')
  <2>1. PICK f \in [asked -> J!Items] : \A j \in asked : f[j] = server'.roster[j]
    <3>1. \A j \in asked : server'.roster[j] \in J!Items
      BY <1>2, <1>3, <1>7, <1>8 DEF Servers
    <3>2. [j \in asked |-> server'.roster[j]] \in [asked -> J!Items]
      BY <3>1
    <3> QED
      BY <3>2
  <2>2. PICK T : T = S
    OBVIOUS
  <2>3. \A x : x \in T <=> \E j \in asked : x = J!Push(j, f[j])
    BY <2>1, <2>2
  <2>4. q = J!SetToSeq(T)
    BY <2>2
  <2> HIDE DEF S, q
  <2>5. /\ q \in Seq(Stanzas)
        /\ Brings(q, k, server.roster[k], There(k),
                  IF k \in asked THEN f[k] ELSE server.roster[k], There(k))
    <3>1. PICK p, v, a : p = q /\ v = server.roster[k] /\ a = There(k)
      OBVIOUS
    <3>2. p = J!SetToSeq(T)
      BY <2>4, <3>1
    <3>3. /\ p \in Seq(Stanzas)
          /\ Brings(p, k, v, a, IF k \in asked THEN f[k] ELSE v, a)
      BY <1>3, <2>3, <3>2, BringsAsked
    <3> QED
      BY <3>1, <3>3
  <2>6. server'.roster[k] = IF k \in asked THEN f[k] ELSE server.roster[k]
    BY <1>8, <2>1
  <2>7. There(k)' = There(k)
    <3>1. server.roster[k] \in J!Items \cup {None}
      BY <1>2 DEF Servers
    <3>2. (server'.roster[k] # None /\ server'.roster[k].to)
            = (server.roster[k] # None /\ server.roster[k].to)
      BY <1>7, <1>8, <3>1, NoneIsNoItem
    <3> QED
      BY <1>8, <3>2 DEF There
  <2> QED
    BY <2>5, <2>6, <2>7
<1>12. inbox' \in Seq(Stanzas)
  <2>1. CASE Jids = {}
    <3>1. asked = {}
      BY <1>3, <2>1
    <3>2. S = {}
      BY <3>1
    <3>3. q \in Seq({})
      BY <3>2, ListedFacts, FS_EmptySet
    <3> HIDE DEF q
    <3>4. q \in Seq(Stanzas)
      BY <3>3, SeqMonotonic
    <3> QED
      BY <1>9, <1>10, <3>4, ConcatProperties
  <2>2. CASE Jids # {}
    <3>1. q \in Seq(Stanzas)
      BY <1>11, <2>2
    <3> HIDE DEF q
    <3> QED
      BY <1>9, <1>10, <3>1, ConcatProperties
  <2> QED
    BY <2>1, <2>2
<1> HIDE DEF S, q
<1>13. StreamTypeOK' /\ ConnectionInv'
  BY <1>1, <1>4, <1>5, <1>8, <1>12 DEF StreamTypeOK, ConnectionInv
<1>14. ASSUME jabber'.handlers, NEW k \in Jids
       PROVE  /\ Brings(inbox', k, heap'.items[k], Told(k)', server'.roster[k],
                        There(k)')
              /\ heap'.items[k] = None => heap'.infos[k] = {}
  <2>1. /\ Brings(inbox, k, heap.items[k], Told(k), server.roster[k], There(k))
        /\ heap.items[k] = None => heap.infos[k] = {}
    BY <1>14 DEF HeapInv, RosterInv
  <2>2. (ItemIn(Head(inbox), k) = {} /\ heap'.items[k] = heap.items[k])
          \/ ItemIn(Head(inbox), k) = {heap'.items[k]}
    BY <1>4
  <2>3. (FullIn(Head(inbox), k) = {} /\ Told(k)' = Told(k))
          \/ FullIn(Head(inbox), k) = {Told(k)'}
    BY <1>4 DEF Told
  <2>4. Brings(Tail(inbox), k, heap'.items[k], Told(k)', server.roster[k], There(k))
    BY <1>2, <2>1, <2>2, <2>3, BringsTail
  <2>5. Brings(Tail(inbox) \o q, k, heap'.items[k], Told(k)',
               server'.roster[k], There(k)')
    BY <1>10, <1>11, <2>4, BringsJoin
  <2> QED
    BY <1>4, <1>9, <2>1, <2>5
<1> QED
  BY <1>13, <1>14 DEF HeapInv, RosterInv

LEMMA StanzaKeeps ==
  ASSUME J!JabberAssumption, HeapInv, J!Stanza
  PROVE  HeapInv'
<1> DEFINE s == Head(inbox)
<1>1. /\ inbox \in Seq(Stanzas) /\ inbox # <<>> /\ heap # None
      /\ heap \in J!Heaps /\ UNCHANGED jabber /\ StreamTypeOK /\ ConnectionInv
  BY DEF HeapInv, StreamTypeOK, J!Stanza
<1>2. s \in Stanzas /\ Tail(inbox) \in Seq(Stanzas)
  BY <1>1, HeadTailProperties
<1>3. \/ s[1] = "roster" /\ J!parse_roster(s[2])
      \/ s[1] # "roster" /\ ~jabber.handlers /\ J!Ignore
      \/ jabber.handlers /\ s[1] = "push" /\ J!parse_roster([j \in {s[2]} |-> s[3]])
      \/ jabber.handlers /\ s[1] = "presence" /\ J!handle_presence({s[2]}, s[3], s[4])
      \/ jabber.handlers /\ s[1] = "presences" /\ J!handle_presence(s[2], "full", TRUE)
  BY DEF J!Stanza
<1>4. CASE s[1] = "roster" /\ J!parse_roster(s[2])
  <2>1. s[2] \in [Jids -> J!Items \cup {None}]
    BY <1>2, <1>4 DEF Stanzas
  <2>2. /\ \A k \in Jids : ItemIn(s, k) = {s[2][k]}
        /\ \A k \in Jids : FullIn(s, k) = IF s[2][k] = None THEN {"off"} ELSE {}
    BY <1>4 DEF ItemIn, FullIn
  <2>3. PICK D, items : D = Jids /\ items = s[2]
    OBVIOUS
  <2>4. /\ D \in SUBSET Jids /\ items \in [D -> J!Items \cup {None}]
        /\ J!parse_roster(items)
    BY <1>4, <2>1, <2>3
  <2>5. /\ \A k \in Jids : ItemIn(s, k) = IF k \in D THEN {items[k]} ELSE {}
        /\ \A k \in Jids : FullIn(s, k) = IF k \in D /\ items[k] = None
                                            THEN {"off"} ELSE {}
    BY <2>2, <2>3
  <2> QED
    BY <1>1, <2>4, <2>5, ParseKeeps
<1>5. CASE s[1] # "roster" /\ ~jabber.handlers /\ J!Ignore
  BY <1>1, <1>2, <1>5 DEF HeapInv, StreamTypeOK, ConnectionInv, J!Ignore
<1>6. CASE /\ jabber.handlers /\ s[1] = "push"
           /\ J!parse_roster([j \in {s[2]} |-> s[3]])
  <2>1. s[2] \in Jids /\ s[3] \in J!Items \cup {None}
    BY <1>2, <1>6 DEF Stanzas
  <2>2. PICK D, items : D = {s[2]} /\ items = [j \in D |-> s[3]]
    OBVIOUS
  <2>3. /\ D \in SUBSET Jids /\ items \in [D -> J!Items \cup {None}]
        /\ J!parse_roster(items)
    BY <1>6, <2>1, <2>2
  <2>4. /\ \A k \in Jids : ItemIn(s, k) = IF k \in D THEN {items[k]} ELSE {}
        /\ \A k \in Jids : FullIn(s, k) = IF k \in D /\ items[k] = None
                                            THEN {"off"} ELSE {}
    BY <1>6, <2>2 DEF ItemIn, FullIn
  <2> QED
    BY <1>1, <2>3, <2>4, ParseKeeps
<1>7. CASE /\ jabber.handlers /\ s[1] = "presence"
           /\ J!handle_presence({s[2]}, s[3], s[4])
  <2>1. s[2] \in Jids /\ s[3] \in J!Resources /\ s[4] \in BOOLEAN
    BY <1>2, <1>7 DEF Stanzas
  <2>2. /\ \A k \in Jids : ItemIn(s, k) = {}
        /\ \A k \in Jids : FullIn(s, k) =
             IF k \in {s[2]} /\ s[3] = "full"
               THEN {IF s[4] THEN "on" ELSE "off"} ELSE {}
    BY <1>7 DEF ItemIn, FullIn
  <2> QED
    BY <1>1, <1>7, <2>1, <2>2, PresenceKeeps
<1>8. CASE /\ jabber.handlers /\ s[1] = "presences"
           /\ J!handle_presence(s[2], "full", TRUE)
  <2>1. s[2] \in SUBSET Jids /\ "full" \in J!Resources
    BY <1>2, <1>8 DEF Stanzas, J!Resources
  <2>2. /\ \A k \in Jids : ItemIn(s, k) = {}
        /\ \A k \in Jids : FullIn(s, k) =
             IF k \in s[2] /\ "full" = "full"
               THEN {IF TRUE THEN "on" ELSE "off"} ELSE {}
    BY <1>8 DEF ItemIn, FullIn
  <2> QED
    BY <1>1, <1>8, <2>1, <2>2, PresenceKeeps
<1> QED
  BY <1>3, <1>4, <1>5, <1>6, <1>7, <1>8

-----------------------------------------------------------------------------
(* The account *)

JabberAccounts ==
  [conn : J!Connections, status : J!Statuses, handlers : BOOLEAN,
   node : J!Nodes, saved : J!Nodes]

(* No connection, no roster. *)
LEMMA DownKeeps ==
  ASSUME HeapInv, UNCHANGED server, heap' = None, inbox' \in Seq(Stanzas),
         jabber' \in JabberAccounts, jabber'.conn # "up"
  PROVE  HeapInv'
BY DEF HeapInv, StreamTypeOK, ConnectionInv, JabberAccounts

LEMMA AccountFacts ==
  ASSUME NEW a \in JabberAccounts
  PROVE  /\ J!Save(a) \in JabberAccounts /\ J!Save(a).conn = a.conn
         /\ J!Down(a) \in JabberAccounts /\ J!Down(a).conn = "closed"
         /\ \A b \in J!Opened(a) : b \in JabberAccounts /\ b.conn \in {"opening", a.conn}
         /\ \A x \in BOOLEAN : /\ [a EXCEPT !.node.startup = x] \in JabberAccounts
                               /\ [a EXCEPT !.node.startup = x].conn = a.conn
         /\ \A x \in BOOLEAN : /\ [a EXCEPT !.node.edited = x] \in JabberAccounts
                               /\ [a EXCEPT !.node.edited = x].conn = a.conn
<1>1. J!Save(a) \in JabberAccounts /\ J!Save(a).conn = a.conn
  BY DEF JabberAccounts, J!Save
<1>2. J!Down(a) \in JabberAccounts /\ J!Down(a).conn = "closed"
  BY DEF JabberAccounts, J!Down, J!Connections, J!Statuses
<1>3. \A b \in J!Opened(a) : b \in JabberAccounts /\ b.conn \in {"opening", a.conn}
  BY DEF JabberAccounts, J!Opened, J!Connections, J!Statuses
<1>4. a.node \in J!Nodes
  BY DEF JabberAccounts
<1>5. \A x \in BOOLEAN : [a.node EXCEPT !.startup = x] \in J!Nodes
  BY <1>4 DEF J!Nodes
<1>6. \A x \in BOOLEAN : [a.node EXCEPT !.edited = x] \in J!Nodes
  BY <1>4 DEF J!Nodes
<1>7. \A x \in BOOLEAN : /\ [a EXCEPT !.node.startup = x] \in JabberAccounts
                         /\ [a EXCEPT !.node.startup = x].conn = a.conn
  BY <1>5 DEF JabberAccounts
<1>8. \A x \in BOOLEAN : /\ [a EXCEPT !.node.edited = x] \in JabberAccounts
                         /\ [a EXCEPT !.node.edited = x].conn = a.conn
  BY <1>6 DEF JabberAccounts
<1> QED
  BY <1>1, <1>2, <1>3, <1>7, <1>8

LEMMA DisabledFacts ==
  ASSUME NEW a \in JabberAccounts
  PROVE  J!Disabled(a) \in JabberAccounts /\ J!Disabled(a).conn = "closed"
<1>1. PICK b : b = [a EXCEPT !.node.startup = FALSE]
  OBVIOUS
<1>2. b \in JabberAccounts /\ b.conn = a.conn
  BY <1>1, AccountFacts
<1>3. PICK c : c = J!Save(b)
  OBVIOUS
<1>4. c \in JabberAccounts /\ c.conn = a.conn
  BY <1>2, <1>3, AccountFacts
<1>5. J!Disabled(a) = IF a.conn = "closed" THEN c ELSE J!Down(c)
  BY <1>1, <1>3 DEF J!Disabled
<1>6. J!Down(c) \in JabberAccounts /\ J!Down(c).conn = "closed"
  BY <1>4, AccountFacts
<1> QED
  BY <1>4, <1>5, <1>6

LEMMA EnableKeeps ==
  ASSUME J!JabberAssumption, HeapInv, J!enable PROVE HeapInv'
<1>1. jabber \in JabberAccounts /\ inbox \in Seq(Stanzas) /\ heap = None
  BY DEF HeapInv, StreamTypeOK, ConnectionInv, J!enable,
         J!lm_connection_is_open, JabberAccounts
<1>2. PICK a \in J!Opened(jabber) :
        jabber' = J!Save([a EXCEPT !.node.startup = TRUE])
  BY DEF J!enable
<1>3. a \in JabberAccounts /\ a.conn # "up"
  BY <1>1, <1>2, AccountFacts DEF J!enable, J!lm_connection_is_open
<1>4. PICK b : b = [a EXCEPT !.node.startup = TRUE]
  OBVIOUS
<1>5. b \in JabberAccounts /\ b.conn # "up"
  BY <1>3, <1>4, AccountFacts
<1>6. jabber' \in JabberAccounts /\ jabber'.conn # "up"
  BY <1>2, <1>4, <1>5, AccountFacts
<1> QED
  BY <1>1, <1>6, DownKeeps DEF J!enable, JabberAccounts

LEMMA DisableKeeps ==
  ASSUME J!JabberAssumption, HeapInv, J!disable PROVE HeapInv'
<1>1. jabber \in JabberAccounts
  BY DEF HeapInv, StreamTypeOK, JabberAccounts
<1>2. jabber' \in JabberAccounts /\ jabber'.conn # "up"
  BY <1>1, DisabledFacts DEF J!disable
<1> QED
  BY <1>2, DownKeeps DEF J!disable, J!handle_down, JabberAccounts

LEMMA EditKeeps ==
  ASSUME J!JabberAssumption, HeapInv, J!on_edit_form_submitted PROVE HeapInv'
<1>1. jabber \in JabberAccounts
  BY DEF HeapInv, StreamTypeOK, JabberAccounts
<1>2. PICK d : d = J!Disabled(jabber)
  OBVIOUS
<1>3. d \in JabberAccounts /\ d.conn = "closed"
  BY <1>1, <1>2, DisabledFacts
<1>4. PICK x \in BOOLEAN : x = ~jabber.node.edited
  OBVIOUS
<1>5. PICK a : a = [d EXCEPT !.node.edited = x]
  OBVIOUS
<1>6. a \in JabberAccounts /\ a.conn = "closed"
  BY <1>3, <1>5, AccountFacts
<1>7. \/ \E b \in J!Opened(a) : jabber' = J!Save([b EXCEPT !.node.startup = TRUE])
      \/ jabber' = a
  BY <1>2, <1>4, <1>5 DEF J!on_edit_form_submitted
<1>8. ASSUME NEW b \in J!Opened(a),
             jabber' = J!Save([b EXCEPT !.node.startup = TRUE])
      PROVE  jabber' \in JabberAccounts /\ jabber'.conn # "up"
  <2>1. b \in JabberAccounts /\ b.conn # "up"
    BY <1>6, AccountFacts
  <2>2. PICK c : c = [b EXCEPT !.node.startup = TRUE]
    OBVIOUS
  <2>3. c \in JabberAccounts /\ c.conn # "up"
    BY <2>1, <2>2, AccountFacts
  <2> QED
    BY <1>8, <2>2, <2>3, AccountFacts
<1>9. jabber' \in JabberAccounts /\ jabber'.conn # "up"
  BY <1>6, <1>7, <1>8
<1> QED
  BY <1>9, DownKeeps DEF J!on_edit_form_submitted, J!handle_down, JabberAccounts

LEMMA OpenedKeeps ==
  ASSUME J!JabberAssumption, HeapInv, J!on_connection_opened PROVE HeapInv'
<1>1. jabber \in JabberAccounts /\ inbox \in Seq(Stanzas) /\ heap = None
  BY DEF HeapInv, StreamTypeOK, ConnectionInv, J!on_connection_opened, JabberAccounts
<1>2. jabber' \in JabberAccounts /\ jabber'.conn # "up"
  BY <1>1 DEF J!on_connection_opened, JabberAccounts, J!Connections, J!Statuses
<1> QED
  BY <1>1, <1>2, DownKeeps DEF J!on_connection_opened, JabberAccounts

LEMMA DisconnectedKeeps ==
  ASSUME J!JabberAssumption, HeapInv, J!on_disconnected PROVE HeapInv'
<1>1. jabber \in JabberAccounts
  BY DEF HeapInv, StreamTypeOK, JabberAccounts
<1>2. jabber' \in JabberAccounts /\ jabber'.conn # "up"
  BY <1>1, AccountFacts DEF J!on_disconnected
<1> QED
  BY <1>2, DownKeeps DEF J!on_disconnected, J!handle_down, JabberAccounts

LEMMA RemoveKeeps ==
  ASSUME J!JabberAssumption, HeapInv, J!remove PROVE HeapInv'
<1>1. jabber \in JabberAccounts
  BY DEF HeapInv, StreamTypeOK, JabberAccounts
<1>2. J!Disabled(jabber) \in JabberAccounts
  BY <1>1, DisabledFacts
<1>3. jabber' \in JabberAccounts /\ jabber'.conn # "up"
  BY <1>2 DEF J!remove, JabberAccounts, J!Connections, J!Statuses
<1> QED
  BY <1>3, DownKeeps DEF J!remove, J!handle_down, JabberAccounts

(* The first answer and the presences bring an empty heap to what there is. *)
LEMMA FirstBrings ==
  ASSUME J!JabberAssumption, server \in Servers
  PROVE  /\ J!FirstStanzas \in Seq(Stanzas)
         /\ \A k \in Jids : Brings(J!FirstStanzas, k, None, "off",
                                   server.roster[k], There(k))
<1> DEFINE seen == {j \in server.online : /\ server.roster[j] # None
                                          /\ server.roster[j].to}
           s == <<"roster", server.roster>>
           t == IF seen = {} THEN <<>> ELSE <<<<"presences", seen>>>>
<1>1. J!FirstStanzas = <<s>> \o t
  BY DEF J!FirstStanzas
<1>2. s \in Stanzas /\ seen \in SUBSET Jids /\ <<"presences", seen>> \in Stanzas
  <2>1. server.roster \in [Jids -> J!Items \cup {None}] /\ seen \in SUBSET Jids
    BY DEF Servers
  <2> HIDE DEF seen
  <2>2. s \in {<<"roster", f>> : f \in [Jids -> J!Items \cup {None}]}
    BY <2>1
  <2>3. <<"presences", seen>> \in {<<"presences", who>> : who \in SUBSET Jids}
    BY <2>1
  <2> QED
    BY <2>1, <2>2, <2>3 DEF Stanzas
<1>3. <<s>> \in Seq(Stanzas) /\ t \in Seq(Stanzas)
  BY <1>2
<1>4. ASSUME NEW k \in Jids
      PROVE  Brings(<<s>> \o t, k, None, "off", server.roster[k], There(k))
  <2>1. /\ ItemIn(s, k) = {server.roster[k]}
        /\ FullIn(s, k) = IF server.roster[k] = None THEN {"off"} ELSE {}
    BY DEF ItemIn, FullIn
  <2>2. Brings(<<s>>, k, None, "off", server.roster[k], "off")
    BY <2>1, BringsOne
  <2>3. Brings(t, k, server.roster[k], "off", server.roster[k], There(k))
    <3>0. There(k) = IF k \in seen THEN "on" ELSE "off"
      BY <1>2 DEF There
    <3>1. CASE seen = {}
      BY <3>0, <3>1, BringsNothing
    <3>2. CASE seen # {}
      <4>1. /\ ItemIn(<<"presences", seen>>, k) = {}
            /\ FullIn(<<"presences", seen>>, k) = IF k \in seen THEN {"on"} ELSE {}
        BY DEF ItemIn, FullIn
      <4>2. k \in seen => server.roster[k] # None
        OBVIOUS
      <4>3. t = <<<<"presences", seen>>>>
        BY <3>2
      <4> HIDE DEF seen, t
      <4> QED
        BY <3>0, <4>1, <4>2, <4>3, BringsOne
    <3> QED
      BY <3>1, <3>2
  <2> HIDE DEF s, t
  <2> QED
    BY <1>3, <2>2, <2>3, BringsJoin
<1> HIDE DEF s, t
<1>5. <<s>> \o t \in Seq(Stanzas)
  BY <1>3, ConcatProperties
<1> QED
  BY <1>1, <1>4, <1>5

LEMMA AuthenticateKeeps ==
  ASSUME J!JabberAssumption, HeapInv, J!on_authenticate PROVE HeapInv'
<1>1. jabber \in JabberAccounts /\ server \in Servers
  BY DEF HeapInv, StreamTypeOK, JabberAccounts
<1>2. CASE J!handle_up /\ jabber' = [jabber EXCEPT !.conn = "up",
                                                   !.status = "Connected"]
  <2>1. /\ heap' \in J!Heaps
        /\ \A k \in Jids : heap'.items[k] = None /\ heap'.infos[k] = {}
    BY <1>2 DEF J!handle_up, J!Heaps
  <2>2. heap' # None
    BY <2>1 DEF J!JabberAssumption
  <2>3. jabber' \in JabberAccounts /\ jabber'.conn = "up"
    BY <1>1, <1>2 DEF JabberAccounts, J!Connections, J!Statuses
  <2>4. inbox' = J!FirstStanzas /\ server' = server
    BY <1>2 DEF J!handle_up, J!on_authenticate
  <2>5. J!FirstStanzas \in Seq(Stanzas)
    BY <1>1, FirstBrings
  <2>6. StreamTypeOK' /\ ConnectionInv'
    BY <1>1, <2>1, <2>2, <2>3, <2>4, <2>5 DEF StreamTypeOK, ConnectionInv,
       JabberAccounts
  <2>7. ASSUME NEW k \in Jids
        PROVE  /\ Brings(inbox', k, heap'.items[k], Told(k)', server'.roster[k],
                         There(k)')
               /\ heap'.items[k] = None => heap'.infos[k] = {}
    <3>1. heap'.items[k] = None /\ heap'.infos[k] = {} /\ Told(k)' = "off"
      BY <2>1 DEF Told
    <3>2. There(k)' = There(k)
      BY <2>4 DEF There
    <3>3. Brings(J!FirstStanzas, k, None, "off", server.roster[k], There(k))
      BY <1>1, FirstBrings
    <3> QED
      BY <2>4, <3>1, <3>2, <3>3
  <2> QED
    BY <2>6, <2>7 DEF HeapInv, RosterInv
<1>3. CASE /\ J!handle_down
           /\ jabber' = [J!Down(jabber) EXCEPT !.status = "Could not authenticate"]
  <2>1. J!Down(jabber) \in JabberAccounts /\ J!Down(jabber).conn = "closed"
    BY <1>1, AccountFacts
  <2>2. jabber' \in JabberAccounts /\ jabber'.conn # "up"
    BY <1>3, <2>1 DEF JabberAccounts, J!Statuses
  <2>3. heap' = None /\ inbox' = <<>> /\ server' = server
    BY <1>3 DEF J!handle_down, J!on_authenticate
  <2> QED
    BY <2>2, <2>3, DownKeeps
<1> QED
  BY <1>2, <1>3 DEF J!on_authenticate

-----------------------------------------------------------------------------
(* The user and the others *)

LEMMA ServersTyped ==
  ASSUME HeapInv PROVE server \in Servers
BY DEF HeapInv, StreamTypeOK

LEMMA AddItemKeeps ==
  ASSUME J!JabberAssumption, HeapInv, NEW j \in Jids, J!add_item_form_submitted(j)
  PROVE  HeapInv'
<1>1. Sent
  BY AddsSent, ServersTyped DEF J!add_item_form_submitted
<1>2. heap \in J!Heaps /\ heap # None
  BY DEF HeapInv, StreamTypeOK, J!add_item_form_submitted
<1>3. /\ heap' \in J!Heaps /\ heap'.items = heap.items
      /\ heap'.infos = heap.infos
  BY <1>2 DEF J!add_item_form_submitted, J!Heaps
<1>4. heap' # None
  BY <1>3 DEF J!JabberAssumption
<1> QED
  BY <1>1, <1>2, <1>3, <1>4, SentKeeps DEF J!add_item_form_submitted

LEMMA QuietKeeps ==
  ASSUME J!JabberAssumption, HeapInv, UNCHANGED <<jabber, heap>>,
         Sent \/ UNCHANGED <<server, inbox>>
  PROVE  HeapInv'
<1>1. CASE Sent
  <2>1. heap \in J!Heaps \cup {None}
    BY DEF HeapInv, StreamTypeOK
  <2> QED
    BY <1>1, <2>1, SentKeeps
<1>2. CASE UNCHANGED <<server, inbox>>
  BY <1>2 DEF HeapInv, StreamTypeOK, ConnectionInv, RosterInv, Told, There
<1> QED
  BY <1>1, <1>2

LEMMA AskKeeps ==
  ASSUME J!JabberAssumption, HeapInv, NEW j \in Jids, J!ask_to(j)
  PROVE  HeapInv'
BY AsksSent, ServersTyped, QuietKeeps DEF J!ask_to

LEMMA StopKeeps ==
  ASSUME J!JabberAssumption, HeapInv, NEW j \in Jids, J!stop_to(j)
  PROVE  HeapInv'
BY StopsSent, ServersTyped, QuietKeeps DEF J!stop_to

LEMMA EditPresentityKeeps ==
  ASSUME J!JabberAssumption, HeapInv, NEW j \in Jids,
         J!edit_presentity_form_submitted(j)
  PROVE  HeapInv'
BY AddsSent, ServersTyped, QuietKeeps DEF J!edit_presentity_form_submitted

LEMMA RemovePresentityKeeps ==
  ASSUME J!JabberAssumption, HeapInv, NEW j \in Jids, J!remove_presentity(j)
  PROVE  HeapInv'
BY RemovesSent, ServersTyped, QuietKeeps DEF J!remove_presentity

LEMMA OutsideKeeps ==
  ASSUME J!JabberAssumption, HeapInv, NEW j \in Jids, J!Outside(j)
  PROVE  HeapInv'
<1>1. server \in Servers
  BY ServersTyped
<1>2. CASE J!Contact(j)
  <2>1. ASSUME server.roster[j] # None, J!Approves(j) PROVE Sent
    BY <1>1, <2>1, ApprovesSent
  <2>2. ASSUME server.roster[j] # None, J!Stops(j, <<J!Presence(j, "bare", TRUE)>>)
        PROVE  Sent
    BY <1>1, <2>2, StopsSent
  <2>3. ASSUME server' = [server EXCEPT !.online = (@ \ {j}) \cup ({j} \ @)],
               J!Send(IF server.roster[j] # None /\ server.roster[j].to
                 THEN <<J!Presence(j, "full", j \notin server.online)>> ELSE <<>>)
        PROVE  Sent
    BY <1>1, <2>3, OnlineSent
  <2>4. Sent
    BY <1>2, <2>1, <2>2, <2>3 DEF J!Contact
  <2> QED
    BY <2>4, QuietKeeps DEF J!Outside
<1>3. CASE J!Adds(j, "another")
  <2>1. Sent
    BY <1>1, <1>3, AddsSent
  <2> QED
    BY <2>1, QuietKeeps DEF J!Outside
<1>4. CASE J!Removes(j)
  BY <1>1, <1>4, RemovesSent, QuietKeeps DEF J!Outside
<1> QED
  BY <1>2, <1>3, <1>4 DEF J!Outside

LEMMA HeapInvInit ==
  ASSUME J!JabberAssumption, J!Init PROVE HeapInv
<1> DEFINE Node(startup) == [startup |-> startup, edited |-> FALSE]
           Closed(handlers, startup) ==
             [conn |-> "closed", status |-> "Inactive", node |-> Node(startup),
              saved |-> Node(startup), handlers |-> handlers]
<1>1. PICK handlers \in BOOLEAN, startup \in BOOLEAN :
        jabber \in IF startup THEN J!Opened(Closed(handlers, startup))
                               ELSE {Closed(handlers, startup)}
  BY DEF J!Init
<1> DEFINE a == Closed(handlers, startup)
<1>2. a \in JabberAccounts /\ a.conn = "closed"
  <2>1. Node(startup) \in J!Nodes
    BY DEF J!Nodes
  <2> QED
    BY <1>1, <2>1 DEF JabberAccounts, J!Connections, J!Statuses
<1> HIDE DEF a
<1>3. jabber \in JabberAccounts /\ jabber.conn # "up"
  BY <1>1, <1>2, AccountFacts DEF a
<1>4. heap = None /\ inbox = <<>> /\ server \in Servers
  BY DEF J!Init, Servers
<1>5. inbox \in Seq(Stanzas)
  BY <1>4
<1> QED
  BY <1>3, <1>4, <1>5 DEF HeapInv, StreamTypeOK, ConnectionInv, JabberAccounts

LEMMA HeapInvStep ==
  ASSUME J!JabberAssumption, HeapInv, [J!Next]_J!vars
  PROVE  HeapInv'
<1>1. CASE J!User
  BY <1>1, EnableKeeps, DisableKeeps, EditKeeps, RemoveKeeps, AddItemKeeps,
     AskKeeps, StopKeeps, EditPresentityKeeps, RemovePresentityKeeps
  DEF J!User
<1>2. CASE J!on_connection_opened \/ J!on_authenticate \/ J!on_disconnected \/ J!Stanza
  BY <1>2, OpenedKeeps, AuthenticateKeeps, DisconnectedKeeps, StanzaKeeps
<1>3. CASE \E j \in Jids : J!Outside(j)
  BY <1>3, OutsideKeeps
<1>4. CASE UNCHANGED J!vars
  BY <1>4, QuietKeeps DEF J!vars
<1> QED
  BY <1>1, <1>2, <1>3, <1>4 DEF J!Next

(* The heap of a Jabber account is there exactly while it is connected, and *)
(* once all that came was handled it has the roster of the server, and the  *)
(* full resource of exactly those who are there and are seen, for any       *)
(* number of contacts, whoever changes the roster, and however long the     *)
(* stream is; unless the account was made from the form.  What a bare       *)
(* address leaves is not part of it (LM::HeapRoster, LM::Cluster).          *)
THEOREM RosterCorrect ==
  J!JabberAssumption => (J!Spec => []RosterIsTheServers)
<1> SUFFICES ASSUME J!JabberAssumption PROVE J!Spec => []RosterIsTheServers
  OBVIOUS
<1>1. J!Init => HeapInv
  BY HeapInvInit
<1>2. HeapInv /\ [J!Next]_J!vars => HeapInv'
  BY HeapInvStep
<1>3. HeapInv => RosterIsTheServers
  <2> SUFFICES ASSUME HeapInv PROVE RosterIsTheServers
    OBVIOUS
  <2>1. (jabber.conn = "up") = (heap # None)
    BY DEF HeapInv, ConnectionInv
  <2>2. ASSUME heap # None, jabber.handlers, inbox = <<>>
        PROVE  /\ heap.items = server.roster
               /\ {j \in Jids : "full" \in heap.infos[j]}
                    = {j \in server.online : server.roster[j] # None
                                             /\ server.roster[j].to}
    <3>1. heap \in J!Heaps /\ server \in Servers
      BY <2>2 DEF HeapInv, StreamTypeOK
    <3>2. \A j \in Jids : heap.items[j] = server.roster[j] /\ Told(j) = There(j)
      BY <2>2, BringsEnd DEF HeapInv, RosterInv
    <3>3. heap.items = server.roster
      BY <3>1, <3>2 DEF J!Heaps, Servers
    <3>4. \A j \in Jids : "full" \in heap.infos[j] <=>
            /\ server.roster[j] # None /\ server.roster[j].to
            /\ j \in server.online
      BY <3>2 DEF Told, There
    <3>5. server.online \subseteq Jids
      BY <3>1 DEF Servers
    <3> QED
      BY <3>3, <3>4, <3>5
  <2> QED
    BY <2>1, <2>2 DEF RosterIsTheServers, J!RosterIsTheServers
<1> QED
  BY <1>1, <1>2, <1>3, PTL DEF J!Spec
=============================================================================
