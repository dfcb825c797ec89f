------------------------ MODULE ConsoleAccountsProofs ------------------------
(***************************************************************************)
(* For any users, requests and session lifetimes: the console keeps an     *)
(* administrator, and a session lives no longer than its account and its   *)
(* password allow, however the steps of requests mix.                      *)
(***************************************************************************)
EXTENDS ConsoleAccounts, FiniteSetTheorems, TLAPS

(* A password change still has this row to end.                            *)
Covers(r, t) ==
  /\ req[r].user = rows[t].user
  /\ req[r].at = "others" \/ (req[r].at = "own" /\ req[r].token = t)

Current(t) ==
  LET u == rows[t].user IN
  \/ rows[t].raced \/ u \in cut
  \/ /\ Live(u)
     /\ rows[t].made = account[u].password \/ \E r \in Requests : Covers(r, t)

IInv == TypeOK /\ \A t \in DOMAIN rows : Current(t)

-----------------------------------------------------------------------------

LEMMA InitIInv == Init => IInv
  <1> SUFFICES ASSUME Init PROVE IInv
    OBVIOUS
  <1>1. DOMAIN rows = {} /\ rows \in [DOMAIN rows -> Row] /\ minted = 0
    BY DEF Init
  <1>2. PICK seed \in Seeds :
          account = [u \in {seed} \ {None} |->
                       [role |-> "admin", off |-> FALSE, password |-> 0, must |-> TRUE]]
    BY DEF Init
  <1>3. [role |-> "admin", off |-> FALSE, password |-> 0, must |-> TRUE] \in AccountRecord
    BY DEF AccountRecord, Roles
  <1>4. DOMAIN account \subseteq Users /\ account \in [DOMAIN account -> AccountRecord]
    BY <1>2, <1>3, ConsoleAssumption
  <1>5. Nobody \in Principal
    BY DEF Nobody, Principal, Roles
  <1>6. NoRequest \in Request
    BY <1>5 DEF NoRequest, Request, Roles
  <1>7. NoRequest.at = "idle"
    BY DEF NoRequest
  <1>8. req \in [Requests -> Request] /\ \A r \in Requests : req[r].at = "idle"
    BY <1>6, <1>7 DEF Init
  <1>9. TypeOK
    BY <1>1, <1>4, <1>8 DEF Init, TypeOK
  <1> QED
    BY <1>1, <1>9 DEF IInv

(* Requests at rest are requests.                                          *)
LEMMA NoRequestType ==
  /\ NoRequest \in Request /\ NoRequest.at = "idle"
  /\ Nobody \in Principal /\ Nobody.kind = "none"
  <1>1. Nobody \in Principal /\ Nobody.kind = "none"
    BY DEF Nobody, Principal, Roles
  <1> QED
    BY <1>1 DEF NoRequest, Request, Roles

LEMMA GoStep ==
  ASSUME req \in [Requests -> Request], NEW r \in Requests, NEW new \in Request, Go(r, new)
  PROVE  /\ req' \in [Requests -> Request] /\ req'[r] = new
         /\ \A q \in Requests \ {r} : req'[q] = req[q]
  BY DEF Go

LEMMA KeepStep ==
  ASSUME DOMAIN rows \subseteq 1..minted, rows \in [DOMAIN rows -> Row], NEW tokens, Keep(tokens)
  PROVE  /\ DOMAIN rows' = tokens \cap DOMAIN rows
         /\ rows' \in [DOMAIN rows' -> Row]
         /\ \A t \in DOMAIN rows' : rows'[t] = rows[t]
  BY DEF Keep, Restrict

(* What a request carries on with while the store stands still.            *)
Plain(r) == Enter(r) \/ Resolve(r) \/ Answer(r) \/ HashNew(r) \/ Login(r) \/ Confirm(r)

LEMMA PlainStep ==
  ASSUME IInv, NEW r \in Requests, Plain(r)
  PROVE  \E new \in Request :
           /\ Go(r, new)
           /\ ~Changing(r) /\ new.at \notin {"others", "own"}
           /\ new.at \in {"mint", "set"} => Exists(new.user)
  <1> USE NoRequestType
  <1>0. TypeOK /\ req[r] \in Request /\ time \in Nat /\ minted \in Nat
    BY DEF IInv, TypeOK
  <1>1. CASE Enter(r)
    <2> DEFINE New(token, machine) ==
          [NoRequest EXCEPT !.at = "resolve", !.token = token, !.machine = machine,
                            !.fresh = account = << >>]
    <2>1. PICK token \in 0..minted, machine \in {m \in BOOLEAN : m => Machine # "none"} :
            Go(r, New(token, machine))
      BY <1>1 DEF Enter
    <2>2. New(token, machine) \in Request /\ New(token, machine).at = "resolve"
      <3>1. (account = << >>) \in BOOLEAN
        OBVIOUS
      <3>2. token \in Nat
        BY <1>0
      <3> QED
        BY <3>1, <3>2 DEF Request
    <2>3. ~Changing(r)
      BY <1>1 DEF Enter, Changing
    <2> HIDE DEF New
    <2> QED
      BY <2>1, <2>2, <2>3
  <1>2. CASE Resolve(r)
    <2>1. MachineOrNobody(r) \in Principal
      BY <1>0, ConsoleAssumption DEF MachineOrNobody, Nobody, Principal, Roles, Request
    <2>2. ASSUME NEW t \in DOMAIN rows, Live(rows[t].user)
          PROVE  SessionOf(rows[t].user) \in Principal
      BY <1>0, <2>2 DEF SessionOf, Live, Exists, TypeOK, Principal, AccountRecord
    <2> DEFINE New(at, who) == [req[r] EXCEPT !.at = at, !.principal = who, !.machine = FALSE]
               Read(new) == [new EXCEPT !.read = time]
    <2>3. \A at \in {"admitted", "drop", "touch"}, who \in Principal :
            /\ New(at, who) \in Request /\ New(at, who).at = at
            /\ Read(New(at, who)) \in Request /\ Read(New(at, who)).at = at
      <3> SUFFICES ASSUME NEW at \in {"admitted", "drop", "touch"}, NEW who \in Principal
                   PROVE  /\ New(at, who) \in Request /\ New(at, who).at = at
                          /\ Read(New(at, who)) \in Request /\ Read(New(at, who)).at = at
        OBVIOUS
      <3>1. New(at, who) \in Request /\ New(at, who).at = at
        BY <1>0 DEF Request
      <3>2. time \in Nat
        BY <1>0 DEF TypeOK
      <3> HIDE DEF New
      <3> QED
        BY <3>1, <3>2 DEF Request
    <2>4. ~Changing(r)
      BY <1>2 DEF Resolve, Changing
    <2> DEFINE t == req[r].token
    <2>5. \/ Go(r, New("admitted", MachineOrNobody(r)))
          \/ Go(r, New("drop", MachineOrNobody(r)))
          \/ t \in DOMAIN rows /\ Live(rows[t].user) /\ Go(r, Read(New("touch", SessionOf(rows[t].user))))
          \/ t \in DOMAIN rows /\ Live(rows[t].user) /\ Go(r, New("admitted", SessionOf(rows[t].user)))
      <3> HIDE DEF New, Read, t
      <3>1. CASE t \notin DOMAIN rows
        BY <1>2, <3>1 DEF Resolve, New, t
      <3>2. CASE t \in DOMAIN rows /\ (~InLifetime(rows[t]) \/ ~Live(rows[t].user))
        BY <1>2, <3>2 DEF Resolve, New, t
      <3>3. CASE t \in DOMAIN rows /\ InLifetime(rows[t]) /\ Live(rows[t].user) /\ time > rows[t].seen
        BY <1>2, <3>3 DEF Resolve, New, Read, t
      <3>4. CASE t \in DOMAIN rows /\ InLifetime(rows[t]) /\ Live(rows[t].user) /\ ~(time > rows[t].seen)
        BY <1>2, <3>4 DEF Resolve, New, t
      <3> QED
        BY <3>1, <3>2, <3>3, <3>4
    <2> HIDE DEF New, Read, t
    <2> QED
      BY <2>1, <2>2, <2>3, <2>4, <2>5
  <1>3. CASE Answer(r)
    BY <1>3 DEF Answer, Done, Changing
  <1>4. CASE HashNew(r)
    <2>1. PICK u \in Users, at \in {"create", "createFirst"}, role \in Roles :
            Go(r, [NoRequest EXCEPT !.at = at, !.user = u, !.role = role])
      BY <1>4 DEF HashNew, Roles
    <2>2. [NoRequest EXCEPT !.at = at, !.user = u, !.role = role] \in Request
      BY DEF Request
    <2> QED
      BY <1>4, <2>1, <2>2 DEF HashNew, Admitted, MayWrite, Changing, Request
  <1>5. CASE Login(r)
    <2>1. PICK u \in Users :
            /\ Live(u)
            /\ Go(r, [NoRequest EXCEPT !.at = "mint", !.user = u, !.password = account[u].password])
      BY <1>5 DEF Login
    <2>2. account[u].password \in Nat
      BY <1>0, <2>1 DEF TypeOK, Live, Exists, AccountRecord
    <2>3. [NoRequest EXCEPT !.at = "mint", !.user = u, !.password = account[u].password] \in Request
      BY <2>2 DEF Request
    <2> QED
      BY <1>5, <2>1, <2>3 DEF Login, Admitted, Changing, Live, Request
  <1>6. CASE Confirm(r)
    <2>1. req[r].principal.user \in Users /\ Live(req[r].principal.user) /\ req[r].token \in Nat
      BY <1>0, <1>6 DEF Confirm, Live, Exists, TypeOK, Request
    <2>2. [NoRequest EXCEPT !.at = "set", !.user = req[r].principal.user, !.token = req[r].token] \in Request
      BY <2>1 DEF Request
    <2> QED
      BY <1>6, <2>1, <2>2 DEF Confirm, SignedIn, Admitted, Changing, Live, Request
  <1> QED
    BY <1>1, <1>2, <1>3, <1>4, <1>5, <1>6 DEF Plain

(* What holds of every step of one request, its type and its place.         *)
Becomes(r, new) ==
  /\ req' \in [Requests -> Request] /\ req'[r] = new /\ new \in Request
  /\ \A q \in Requests \ {r} : req'[q] = req[q]
  /\ new.at \in {"mint", "set", "others", "own"} => new.user \in DOMAIN account'

LEMMA TypeStep ==
  ASSUME IInv, NEW r \in Requests, NEW new, Becomes(r, new),
         UNCHANGED time, minted' \in Nat, changes' \in Nat, cut' \subseteq Users \cup {None},
         DOMAIN account \subseteq DOMAIN account', DOMAIN account' \subseteq Users,
         account' \in [DOMAIN account' -> AccountRecord],
         DOMAIN rows' \subseteq 1..minted', rows' \in [DOMAIN rows' -> Row]
  PROVE  TypeOK'
  <1>1. TypeOK
    BY DEF IInv
  <1>2. ASSUME NEW q \in Requests, req'[q].at \in {"mint", "set", "others", "own"}
        PROVE  req'[q].user \in DOMAIN account'
    <2>1. CASE q = r
      BY <1>2, <2>1 DEF Becomes
    <2>2. CASE q # r
      BY <1>1, <1>2, <2>2 DEF Becomes, TypeOK, Exists
    <2> QED
      BY <2>1, <2>2
  <1>3. \A q \in Requests :
          (req[q].at \in {"mint", "set", "others", "own"})' => Exists(req[q].user)'
    BY <1>2 DEF Exists
  <1> QED
    BY <1>1, <1>3 DEF TypeOK, Becomes

(* A request that steps without the store, and covers nothing.             *)
LEMMA QuietStep ==
  ASSUME IInv, NEW r \in Requests, NEW new \in Request, Go(r, new),
         UNCHANGED <<time, store, minted, changes, cut>>,
         ~Changing(r), new.at \notin {"others", "own"},
         new.at \in {"mint", "set"} => Exists(new.user)
  PROVE  IInv'
  <1>1. TypeOK
    BY DEF IInv
  <1>2. Becomes(r, new)
    BY <1>1, GoStep DEF TypeOK, Becomes, Exists, store
  <1>3. TypeOK'
    BY <1>1, <1>2, TypeStep DEF TypeOK, store
  <1>4. ASSUME NEW t \in DOMAIN rows'
        PROVE  Current(t)'
    <2>1. t \in DOMAIN rows /\ Current(t)
      BY <1>4 DEF IInv, store
    <2>2. \A q \in Requests : Covers(q, t) => Covers(q, t)'
      BY <1>2 DEF Becomes, Covers, Changing, store
    <2> QED
      BY <2>1, <2>2 DEF Current, Live, Exists, store
  <1> QED
    BY <1>3, <1>4 DEF IInv

(* Rows go, and the request that takes them covered only those it took.    *)
LEMMA EndRowsStep ==
  ASSUME IInv, NEW r \in Requests, NEW new \in Request, Go(r, new), NEW tokens, Keep(tokens),
         UNCHANGED <<time, account, minted, changes, cut>>,
         new.at \in {"mint", "set", "others", "own"} => Exists(new.user),
         \A t \in tokens \cap DOMAIN rows : Covers(r, t) =>
            /\ new.user = req[r].user
            /\ new.at = "own" /\ new.token = t
  PROVE  IInv'
  <1>1. TypeOK
    BY DEF IInv
  <1>2. Becomes(r, new)
    BY <1>1, GoStep DEF TypeOK, Becomes, Exists
  <1>3. /\ DOMAIN rows' = tokens \cap DOMAIN rows
        /\ rows' \in [DOMAIN rows' -> Row]
        /\ \A t \in DOMAIN rows' : rows'[t] = rows[t]
    BY <1>1, KeepStep DEF TypeOK
  <1>4. TypeOK'
    BY <1>1, <1>2, <1>3, TypeStep DEF TypeOK
  <1>5. ASSUME NEW t \in DOMAIN rows'
        PROVE  Current(t)'
    <2>1. t \in DOMAIN rows /\ Current(t) /\ rows'[t] = rows[t] /\ t \in tokens \cap DOMAIN rows
      BY <1>3, <1>5 DEF IInv
    <2>2. ASSUME NEW q \in Requests, Covers(q, t) PROVE Covers(q, t)'
      <3>1. CASE q = r
        BY <1>2, <2>1, <2>2, <3>1 DEF Becomes, Covers
      <3>2. CASE q # r
        BY <1>2, <2>1, <2>2, <3>2 DEF Becomes, Covers
      <3> QED
        BY <3>1, <3>2
    <2> QED
      BY <2>1, <2>2 DEF Current, Live, Exists
  <1> QED
    BY <1>4, <1>5 DEF IInv

LEMMA DropStep ==
  ASSUME IInv, NEW r \in Requests, Drop(r) \/ Logout(r) PROVE IInv'
  <1>1. TypeOK /\ req[r] \in Request /\ ~\E t \in DOMAIN rows : Covers(r, t)
    BY DEF IInv, TypeOK, Drop, Logout, SignedIn, Admitted, Covers
  <1>2. CASE Drop(r)
    <2>1. [req[r] EXCEPT !.at = "admitted"] \in Request /\ [req[r] EXCEPT !.at = "admitted"].at = "admitted"
      BY <1>1 DEF Request
    <2>2. /\ Keep(Tokens \ {req[r].token}) /\ Go(r, [req[r] EXCEPT !.at = "admitted"])
          /\ UNCHANGED <<time, account, minted, changes, cut>>
      BY <1>2 DEF Drop
    <2> QED
      BY <1>1, <2>1, <2>2, EndRowsStep
  <1>3. CASE Logout(r)
    BY <1>1, <1>3, NoRequestType, EndRowsStep DEF Logout, Done
  <1> QED
    BY <1>2, <1>3

LEMMA DestroyStep ==
  ASSUME IInv, NEW r \in Requests, DestroyOthers(r) \/ DestroyOwn(r) PROVE IInv'
  <1>1. TypeOK /\ req[r] \in Request /\ Exists(req[r].user)
    BY DEF IInv, TypeOK, DestroyOthers, DestroyOwn
  <1>2. CASE DestroyOthers(r)
    <2> DEFINE new == [req[r] EXCEPT !.at = "own"]
               tokens == {t \in DOMAIN rows : rows[t].user # req[r].user \/ t = req[r].token}
    <2>1. new \in Request /\ new.at = "own" /\ new.user = req[r].user /\ new.token = req[r].token
      BY <1>1 DEF Request
    <2>2. Keep(tokens) /\ Go(r, new) /\ UNCHANGED <<time, account, minted, changes, cut>>
      BY <1>2 DEF DestroyOthers
    <2>3. \A t \in tokens \cap DOMAIN rows : Covers(r, t) => new.token = t
      BY <2>1 DEF Covers
    <2> HIDE DEF new, tokens
    <2> QED
      BY <1>1, <2>1, <2>2, <2>3, EndRowsStep
  <1>3. CASE DestroyOwn(r)
    <2> DEFINE new == [req[r] EXCEPT !.at = "mint"]
               tokens == Tokens \ {req[r].token}
    <2>1. new \in Request /\ new.at = "mint" /\ new.user = req[r].user /\ new.token = req[r].token
      BY <1>1 DEF Request
    <2>2. /\ Keep(tokens) /\ Go(r, new) /\ UNCHANGED <<time, account, minted, changes, cut>>
          /\ req[r].at = "own"
      BY <1>3 DEF DestroyOwn
    <2>3. \A t \in tokens \cap DOMAIN rows : ~Covers(r, t)
      BY <2>2 DEF Covers
    <2> HIDE DEF new, tokens
    <2> QED
      BY <1>1, <2>1, <2>2, <2>3, EndRowsStep
  <1> QED
    BY <1>2, <1>3

(* Only a row that is there is touched, and only its last use changes.      *)
LEMMA TouchStep ==
  ASSUME IInv, NEW r \in Requests, Touch(r) PROVE IInv'
  <1>1. TypeOK /\ req[r] \in Request /\ req[r].read \in Nat
    BY DEF IInv, TypeOK, Request
  <1> DEFINE new == [req[r] EXCEPT !.at = "admitted", !.read = 0]
  <1>2. new \in Request /\ new.at = "admitted"
    BY <1>1 DEF Request
  <1>3. Go(r, new) /\ req[r].at = "touch" /\ UNCHANGED <<time, account, minted, changes, cut>>
    BY DEF Touch
  <1> HIDE DEF new
  <1>4. Becomes(r, new)
    BY <1>1, <1>2, <1>3, GoStep DEF TypeOK, Becomes
  <1>5. /\ DOMAIN rows' = DOMAIN rows
        /\ \A t \in DOMAIN rows : rows'[t] = [rows[t] EXCEPT !.seen = req[r].read] \/ rows'[t] = rows[t]
    BY DEF Touch
  <1>6. ASSUME NEW t \in DOMAIN rows
        PROVE  /\ rows'[t] \in Row /\ rows'[t].user = rows[t].user
               /\ rows'[t].made = rows[t].made /\ rows'[t].raced = rows[t].raced
    <2>1. rows[t] \in Row
      BY <1>1 DEF TypeOK
    <2>2. /\ [rows[t] EXCEPT !.seen = req[r].read] \in Row
          /\ [rows[t] EXCEPT !.seen = req[r].read].user = rows[t].user
          /\ [rows[t] EXCEPT !.seen = req[r].read].made = rows[t].made
          /\ [rows[t] EXCEPT !.seen = req[r].read].raced = rows[t].raced
      BY <1>1, <2>1 DEF Row
    <2> QED
      BY <1>5, <2>1, <2>2
  <1>7. rows' \in [DOMAIN rows' -> Row]
    <2>1. rows' = [t \in DOMAIN rows |-> rows'[t]]
      BY DEF Touch
    <2> QED
      BY <1>5, <1>6, <2>1
  <1>8. TypeOK'
    BY <1>1, <1>3, <1>4, <1>5, <1>7, TypeStep DEF TypeOK
  <1>9. ASSUME NEW t \in DOMAIN rows'
        PROVE  Current(t)'
    <2>1. t \in DOMAIN rows /\ Current(t)
      BY <1>5, <1>9 DEF IInv
    <2>2. \A q \in Requests : Covers(q, t) => Covers(q, t)'
      BY <1>3, <1>4, <1>6, <2>1 DEF Becomes, Covers
    <2> QED
      BY <1>3, <1>6, <2>1, <2>2 DEF Current, Live, Exists
  <1> QED
    BY <1>8, <1>9 DEF IInv

(* Accounts change in ways that leave every session as current as it was.   *)
Kept(u) == Live(u) => Live(u)' /\ account'[u].password = account[u].password

LEMMA AccountStep ==
  ASSUME IInv, NEW r \in Requests, NEW new \in Request, Go(r, new), NEW tokens, Keep(tokens),
         UNCHANGED <<time, minted, changes, cut>>, ~Changing(r),
         new.at \in {"mint", "set", "others", "own"} => new.user \in DOMAIN account',
         DOMAIN account \subseteq DOMAIN account', DOMAIN account' \subseteq Users,
         account' \in [DOMAIN account' -> AccountRecord],
         \A t \in tokens \cap DOMAIN rows : Kept(rows[t].user)
  PROVE  IInv'
  <1>1. TypeOK
    BY DEF IInv
  <1>2. Becomes(r, new)
    BY <1>1, GoStep DEF TypeOK, Becomes
  <1>3. /\ DOMAIN rows' = tokens \cap DOMAIN rows
        /\ rows' \in [DOMAIN rows' -> Row]
        /\ \A t \in DOMAIN rows' : rows'[t] = rows[t]
    BY <1>1, KeepStep DEF TypeOK
  <1>4. TypeOK'
    BY <1>1, <1>2, <1>3, TypeStep DEF TypeOK
  <1>5. ASSUME NEW t \in DOMAIN rows'
        PROVE  Current(t)'
    <2>1. t \in DOMAIN rows /\ Current(t) /\ rows'[t] = rows[t] /\ Kept(rows[t].user)
      BY <1>3, <1>5 DEF IInv
    <2>2. \A q \in Requests : Covers(q, t) => Covers(q, t)'
      BY <1>2, <2>1 DEF Becomes, Covers, Changing
    <2> QED
      BY <2>1, <2>2 DEF Current, Live, Exists, Kept
  <1> QED
    BY <1>4, <1>5 DEF IInv

LEMMA CreateStep ==
  ASSUME IInv, NEW r \in Requests, CreateUser(r) PROVE IInv'
  <1>1. TypeOK /\ req[r] \in Request /\ ~Changing(r)
    BY DEF IInv, TypeOK, CreateUser, Changing
  <1>2. CASE Exists(req[r].user)
    <2>1. Go(r, NoRequest) /\ UNCHANGED <<time, store, minted, changes, cut>>
      BY <1>2 DEF CreateUser, Done, store
    <2> QED
      BY <1>1, <2>1, NoRequestType, QuietStep
  <1>3. CASE ~Exists(req[r].user)
    <2> DEFINE u == req[r].user
               made == [role |-> req[r].role, off |-> FALSE, password |-> 0, must |-> FALSE]
               mint == [req[r] EXCEPT !.at = "mint"]
    <2>1. made \in AccountRecord
      BY <1>1 DEF AccountRecord, Request
    <2>2. account' = [x \in DOMAIN account \cup {u} |-> IF x = u THEN made ELSE account[x]]
      BY <1>3 DEF CreateUser
    <2>3. mint \in Request /\ mint.at = "mint" /\ mint.user = u
      BY <1>1 DEF Request
    <2>4. Go(r, mint) \/ Go(r, NoRequest)
      BY <1>3 DEF CreateUser, Done
    <2>5. UNCHANGED <<time, rows, minted, changes, cut>>
      BY DEF CreateUser
    <2> HIDE DEF made, mint
    <2>6. PICK new \in Request : Go(r, new) /\ (new = mint \/ new = NoRequest)
      BY <2>3, <2>4, NoRequestType
    <2>7. /\ u \in Users \cup {None} /\ DOMAIN account' = DOMAIN account \cup {u}
          /\ account' \in [DOMAIN account' -> AccountRecord]
      BY <1>1, <2>1, <2>2 DEF TypeOK, Request
    <2>8. u \in Users
      BY <1>1 DEF CreateUser, Request
    <2>9. Becomes(r, new)
      BY <1>1, <2>3, <2>6, <2>7, GoStep, NoRequestType DEF TypeOK, Becomes
    <2>10. TypeOK'
      BY <1>1, <2>5, <2>7, <2>8, <2>9, TypeStep DEF TypeOK
    <2>11. ASSUME NEW t \in DOMAIN rows'
           PROVE  Current(t)'
      <3>1. t \in DOMAIN rows /\ Current(t)
        BY <2>5, <2>11 DEF IInv
      <3>2. \A q \in Requests : Covers(q, t) => Covers(q, t)'
        BY <1>1, <2>5, <2>9 DEF Becomes, Covers, Changing
      <3>3. \A x \in DOMAIN account : x \in DOMAIN account' /\ account'[x] = account[x]
        BY <1>3, <2>2, <2>7 DEF Exists
      <3> QED
        BY <2>5, <3>1, <3>2, <3>3 DEF Current, Live, Exists
    <2> QED
      BY <2>10, <2>11 DEF IInv
  <1> QED
    BY <1>2, <1>3

(* A new session is of a live account's present password, or is raced.      *)
LEMMA MintStep ==
  ASSUME IInv, NEW r \in Requests, Mint(r)
  PROVE  IInv' /\ (1..minted) \cap DOMAIN rows' \subseteq DOMAIN rows
  <1> DEFINE n == minted + 1
             u == req[r].user
             kept == {x \in DOMAIN rows : InLifetime(rows[x])}
             raced == account[u].off \/ account[u].password # req[r].password
             row == [user |-> u, created |-> time, seen |-> time, made |-> req[r].password,
                     raced |-> raced]
  <1>1. TypeOK /\ req[r] \in Request /\ Exists(u) /\ u \in Users
    BY DEF IInv, TypeOK, Mint, Exists
  <1>2. req[r].password \in Nat /\ time \in Nat /\ raced \in BOOLEAN /\ minted \in Nat
    <2>1. account[u] \in AccountRecord
      BY <1>1 DEF TypeOK, Exists
    <2>2. account[u].off \in BOOLEAN
      BY <2>1 DEF AccountRecord
    <2>3. raced \in BOOLEAN
      BY <2>2
    <2> HIDE DEF raced
    <2> QED
      BY <1>1, <2>3 DEF TypeOK, Request
  <1>3. rows' = [x \in kept \cup {n} |-> IF x = n THEN row ELSE rows[x]]
    BY DEF Mint
  <1>4. ~raced => ~account[u].off /\ account[u].password = req[r].password
    OBVIOUS
  <1>5. /\ Go(r, NoRequest) /\ minted' = n /\ UNCHANGED <<time, account, changes, cut>>
        /\ ~Changing(r)
    BY DEF Mint, Done, Changing
  <1> HIDE DEF raced
  <1>6. row \in Row /\ row.user = u /\ row.made = req[r].password /\ row.raced = raced
    BY <1>1, <1>2 DEF Row
  <1> HIDE DEF row, kept
  <1>7. kept \subseteq DOMAIN rows
    BY DEF kept
  <1>8. n \notin DOMAIN rows /\ n \in 1..n /\ 1..minted \subseteq 1..n /\ n \notin 1..minted /\ n \in Nat
    BY <1>1, <1>2 DEF TypeOK
  <1> HIDE DEF n, u
  <1>9. /\ DOMAIN rows' = kept \cup {n} /\ rows' \in [DOMAIN rows' -> Row]
        /\ rows'[n] = row /\ \A t \in kept : rows'[t] = rows[t]
    BY <1>1, <1>3, <1>6, <1>7, <1>8 DEF TypeOK
  <1>10. Becomes(r, NoRequest)
    BY <1>1, <1>5, GoStep, NoRequestType DEF TypeOK, Becomes
  <1>11. TypeOK'
    BY <1>1, <1>5, <1>7, <1>8, <1>9, <1>10, TypeStep DEF TypeOK
  <1>12. ASSUME NEW t, t = n
         PROVE  Current(t)'
    <2>1. rows'[t] = row
      BY <1>9, <1>12
    <2>2. CASE raced
      BY <1>6, <2>1, <2>2 DEF Current
    <2>3. CASE ~raced
      BY <1>1, <1>4, <1>5, <1>6, <2>1, <2>3 DEF Current, Live, Exists
    <2> QED
      BY <2>2, <2>3
  <1>13. ASSUME NEW t \in kept
         PROVE  Current(t)'
    <2>1. t \in DOMAIN rows /\ Current(t) /\ rows'[t] = rows[t]
      BY <1>7, <1>9 DEF IInv
    <2>2. \A q \in Requests : Covers(q, t) => Covers(q, t)'
      BY <1>5, <1>10, <2>1 DEF Becomes, Covers, Changing
    <2> QED
      BY <1>5, <2>1, <2>2 DEF Current, Live, Exists
  <1> QED
    BY <1>7, <1>8, <1>9, <1>11, <1>12, <1>13 DEF IInv

(* The request that set a password covers every session of the account.     *)
LEMMA SetStep ==
  ASSUME IInv, NEW r \in Requests, SetPassword(r) PROVE IInv'
  <1> DEFINE u == req[r].user
             n == changes + 1
             new == [req[r] EXCEPT !.at = "others", !.password = n]
  <1>1. TypeOK /\ req[r] \in Request /\ Exists(u) /\ n \in Nat /\ ~Changing(r)
    BY DEF IInv, TypeOK, SetPassword, Changing
  <1>2. new \in Request /\ new.at = "others" /\ new.user = u
    BY <1>1 DEF Request
  <1>3. /\ Go(r, new) /\ changes' = n /\ UNCHANGED <<time, rows, minted, cut>>
        /\ account' = [account EXCEPT ![u].password = n, ![u].must = FALSE]
    BY DEF SetPassword
  <1>4. account[u] \in AccountRecord
    BY <1>1 DEF TypeOK, Exists
  <1>5. [account[u] EXCEPT !.password = n, !.must = FALSE] \in AccountRecord
    BY <1>1, <1>4 DEF AccountRecord
  <1>6. [account[u] EXCEPT !.password = n, !.must = FALSE].off = account[u].off
    BY <1>4 DEF AccountRecord
  <1>7. /\ DOMAIN account' = DOMAIN account
        /\ account'[u] = [account[u] EXCEPT !.password = n, !.must = FALSE]
        /\ \A x \in DOMAIN account \ {u} : account'[x] = account[x]
        /\ account' = [x \in DOMAIN account |-> account'[x]]
    BY <1>1, <1>3, <1>4 DEF TypeOK, Exists, AccountRecord
  <1> HIDE DEF new, n
  <1>8. account' \in [DOMAIN account' -> AccountRecord]
    <2>1. \A x \in DOMAIN account : account'[x] \in AccountRecord
      BY <1>1, <1>5, <1>7 DEF TypeOK
    <2> QED
      BY <1>7, <2>1
  <1>9. Becomes(r, new)
    BY <1>1, <1>2, <1>3, <1>7, GoStep DEF TypeOK, Becomes, Exists
  <1>10. TypeOK'
    BY <1>1, <1>3, <1>7, <1>8, <1>9, TypeStep DEF TypeOK
  <1>11. ASSUME NEW t \in DOMAIN rows'
         PROVE  Current(t)'
    <2>1. t \in DOMAIN rows /\ Current(t)
      BY <1>3, <1>11 DEF IInv
    <2>2. \A q \in Requests : Covers(q, t) => Covers(q, t)'
      BY <1>1, <1>3, <1>9 DEF Becomes, Covers, Changing
    <2>3. \A x : Live(x) => Live(x)'
      BY <1>1, <1>6, <1>7 DEF Live, Exists
    <2>4. CASE rows[t].user = u
      <3>1. Covers(r, t)'
        BY <1>2, <1>3, <1>9, <2>4 DEF Becomes, Covers
      <3> QED
        BY <1>3, <2>1, <2>3, <3>1 DEF Current
    <2>5. CASE rows[t].user # u
      <3>1. Live(rows[t].user) => account'[rows[t].user] = account[rows[t].user]
        BY <1>7, <2>5 DEF Live, Exists
      <3> QED
        BY <1>3, <2>1, <2>2, <2>3, <3>1 DEF Current
    <2> QED
      BY <2>4, <2>5
  <1> QED
    BY <1>10, <1>11 DEF IInv

(* Switching an account off changes one record, and so does switching it on. *)
LEMMA SwitchStep ==
  ASSUME TypeOK, NEW u \in DOMAIN account, NEW off \in BOOLEAN,
         account' = [account EXCEPT ![u].off = off]
  PROVE  /\ DOMAIN account' = DOMAIN account /\ account' \in [DOMAIN account' -> AccountRecord]
         /\ \A x \in DOMAIN account \ {u} : account'[x] = account[x]
         /\ account'[u].password = account[u].password /\ account'[u].off = off
         /\ account'[u].role = account[u].role
  <1> DEFINE switched == [account[u] EXCEPT !.off = off]
  <1>1. account[u] \in AccountRecord
    BY DEF TypeOK
  <1>2. /\ switched \in AccountRecord /\ switched.password = account[u].password
        /\ switched.off = off /\ switched.role = account[u].role
    BY <1>1 DEF AccountRecord
  <1>3. account' = [account EXCEPT ![u] = switched]
    OBVIOUS
  <1> HIDE DEF switched
  <1> QED
    BY <1>2, <1>3 DEF TypeOK

LEMMA DisableStep ==
  ASSUME IInv, NEW r \in Requests, Disable(r) PROVE IInv'
  <1>1. TypeOK /\ ~Changing(r)
    BY DEF IInv, Disable, MayWrite, Admitted, Changing
  <1>2. PICK u \in DOMAIN account :
          /\ account' = [account EXCEPT ![u].off = TRUE]
          /\ Keep({t \in DOMAIN rows : rows[t].user # u})
    BY DEF Disable
  <1>3. /\ DOMAIN account' = DOMAIN account /\ account' \in [DOMAIN account' -> AccountRecord]
        /\ \A x \in DOMAIN account \ {u} : account'[x] = account[x]
    BY <1>1, <1>2, SwitchStep
  <1>4. \A t \in {t \in DOMAIN rows : rows[t].user # u} \cap DOMAIN rows : Kept(rows[t].user)
    <2>1. \A x : x # u => Kept(x)
      BY <1>3 DEF Kept, Live, Exists
    <2> QED
      BY <2>1
  <1>5. Go(r, NoRequest) /\ UNCHANGED <<time, minted, changes, cut>>
    BY DEF Disable, Done
  <1>6. DOMAIN account \subseteq Users
    BY <1>1 DEF TypeOK
  <1> DEFINE tokens == {t \in DOMAIN rows : rows[t].user # u}
  <1>7. Keep(tokens) /\ \A t \in tokens \cap DOMAIN rows : Kept(rows[t].user)
    BY <1>2, <1>4
  <1> HIDE DEF tokens
  <1> QED
    BY <1>1, <1>3, <1>5, <1>6, <1>7, AccountStep, NoRequestType

LEMMA EnableStep ==
  ASSUME IInv, NEW r \in Requests, Enable(r) PROVE IInv'
  <1>1. TypeOK /\ ~Changing(r)
    BY DEF IInv, Enable, MayWrite, Admitted, Changing
  <1>2. PICK u \in DOMAIN account : account' = [account EXCEPT ![u].off = FALSE]
    BY DEF Enable
  <1>3. /\ DOMAIN account' = DOMAIN account /\ account' \in [DOMAIN account' -> AccountRecord]
        /\ \A x \in DOMAIN account \ {u} : account'[x] = account[x]
        /\ account'[u].password = account[u].password /\ account'[u].off = FALSE
    BY <1>1, <1>2, SwitchStep
  <1>4. \A x : Kept(x)
    BY <1>3 DEF Kept, Live, Exists
  <1>5. Go(r, NoRequest) /\ UNCHANGED <<time, rows, minted, changes, cut>>
    BY DEF Enable, Done
  <1>6. DOMAIN account \subseteq Users /\ rows = [t \in DOMAIN rows |-> rows[t]]
    BY <1>1 DEF TypeOK
  <1>7. Keep(DOMAIN rows)
    BY <1>5, <1>6 DEF Keep, Restrict
  <1> QED
    BY <1>1, <1>3, <1>4, <1>5, <1>6, <1>7, AccountStep, NoRequestType

(* A change that is cut short leaves its account among those cut.           *)
LEMMA CutStep ==
  ASSUME IInv, NEW stopped \in SUBSET Requests,
         cut' = cut \cup {req[r].user : r \in {x \in stopped : Changing(x)}},
         req' = [r \in Requests |-> IF r \in stopped THEN NoRequest ELSE req[r]],
         UNCHANGED <<time, store, minted, changes>>
  PROVE  IInv'
  <1>1. TypeOK
    BY DEF IInv
  <1>2. req' \in [Requests -> Request]
    BY <1>1, NoRequestType DEF TypeOK
  <1>3. cut \subseteq cut' /\ cut' \subseteq Users \cup {None}
    BY <1>1 DEF TypeOK, Request
  <1>4. \A r \in Requests : req'[r].at \in {"mint", "set", "others", "own"} =>
           req'[r].user \in DOMAIN account'
    BY <1>1, NoRequestType DEF TypeOK, Exists, store
  <1>5. TypeOK'
    BY <1>1, <1>2, <1>3, <1>4 DEF TypeOK, store, Exists
  <1>6. ASSUME NEW t \in DOMAIN rows'
        PROVE  Current(t)'
    <2>1. t \in DOMAIN rows /\ Current(t) /\ rows' = rows /\ account' = account
      BY <1>6 DEF IInv, store
    <2>2. ASSUME NEW q \in Requests, Covers(q, t)
          PROVE  Covers(q, t)' \/ rows[t].user \in cut'
      BY <2>1, <2>2 DEF Covers, Changing
    <2> QED
      BY <1>3, <2>1, <2>2 DEF Current, Live, Exists
  <1> QED
    BY <1>5, <1>6 DEF IInv

LEMMA FaultStep ==
  ASSUME IInv, (\E r \in Requests : WriteFails(r)) \/ Restart PROVE IInv'
  <1>1. TypeOK
    BY DEF IInv
  <1>2. CASE Restart
    BY <1>2, CutStep DEF Restart
  <1>3. ASSUME NEW r \in Requests, WriteFails(r) PROVE IInv'
    <2>1. req' = [q \in Requests |-> IF q \in {r} THEN NoRequest ELSE req[q]]
      BY <1>1, <1>3 DEF WriteFails, Done, Go, TypeOK
    <2> QED
      BY <1>3, <2>1, CutStep DEF WriteFails
  <1> QED
    BY <1>2, <1>3

LEMMA TickStep ==
  ASSUME IInv, time' = time \/ time' = time + 1, UNCHANGED <<store, minted, changes, cut, req>>
  PROVE  IInv'
  <1>1. TypeOK'
    BY DEF IInv, TypeOK, Exists, store
  <1>2. ASSUME NEW t \in DOMAIN rows' PROVE Current(t)'
    BY <1>2 DEF IInv, Current, Covers, Live, Exists, store
  <1> QED
    BY <1>1, <1>2 DEF IInv

LEMMA NextIInv == IInv /\ [Next]_vars => IInv'
  <1> SUFFICES ASSUME IInv, [Next]_vars PROVE IInv'
    OBVIOUS
  <1>1. ASSUME NEW r \in Requests, Plain(r) PROVE IInv'
    <2>1. PICK new \in Request :
            /\ Go(r, new) /\ ~Changing(r) /\ new.at \notin {"others", "own"}
            /\ new.at \in {"mint", "set"} => Exists(new.user)
      BY <1>1, PlainStep
    <2>2. UNCHANGED <<time, store, minted, changes, cut>>
      BY <1>1 DEF Plain, Enter, Resolve, Answer, HashNew, Login, Confirm
    <2> QED
      BY <2>1, <2>2, QuietStep
  <1>2. CASE UNCHANGED vars
    BY <1>2, TickStep DEF vars, store
  <1>3. CASE Tick
    BY <1>3, TickStep DEF Tick
  <1> QED
    BY <1>1, <1>2, <1>3, DropStep, TouchStep, CreateStep, MintStep, SetStep, DestroyStep,
       DisableStep, EnableStep, FaultStep DEF Next, Plain

LEMMA Inductive == Spec => []IInv
  BY InitIInv, NextIInv, PTL DEF Spec

-----------------------------------------------------------------------------

\* The accounts, the session rows and what each request carries stay what the
\* store and the handlers hold.
THEOREM Typed == Spec => []TypeOK
  <1>1. IInv => TypeOK
    BY DEF IInv
  <1> QED
    BY <1>1, Inductive, PTL

\* No session outlives its account's password, or its account, but for a sign-in
\* already verified and a change cut short.
THEOREM SessionsAreCurrent == Spec => []RowsAreCurrent
  <1>1. IInv => RowsAreCurrent
    BY DEF IInv, RowsAreCurrent, Current, Covers, Changing
  <1> QED
    BY <1>1, Inductive, PTL

(* Only an account being switched off leaves the administrators.            *)
LEMMA AdminsKept ==
  ASSUME IInv, [Next]_vars, NEW a \in LiveAdmins,
         ~\E r \in Requests : Disable(r)
  PROVE  a \in LiveAdmins'
  <1>1. TypeOK
    BY DEF IInv
  <1>2. CASE UNCHANGED account
    BY <1>2 DEF LiveAdmins
  <1>3. ASSUME NEW r \in Requests, CreateUser(r) PROVE a \in LiveAdmins'
    BY <1>3 DEF CreateUser, LiveAdmins, Exists
  <1>4. ASSUME NEW r \in Requests, SetPassword(r) PROVE a \in LiveAdmins'
    <2>1. account[a] \in AccountRecord
      BY <1>1 DEF LiveAdmins, TypeOK
    <2>2. /\ DOMAIN account' = DOMAIN account
          /\ \/ account'[a] = account[a]
             \/ account'[a] = [account[a] EXCEPT !.password = changes + 1, !.must = FALSE]
      BY <1>1, <1>4 DEF SetPassword, LiveAdmins, TypeOK, AccountRecord
    <2>3. account'[a].role = account[a].role /\ account'[a].off = account[a].off
      BY <2>1, <2>2 DEF AccountRecord
    <2> QED
      BY <2>2, <2>3 DEF LiveAdmins
  <1>5. ASSUME NEW r \in Requests, Enable(r) PROVE a \in LiveAdmins'
    <2>1. PICK u \in DOMAIN account : account' = [account EXCEPT ![u].off = FALSE]
      BY <1>5 DEF Enable
    <2> QED
      BY <1>1, <2>1, SwitchStep DEF LiveAdmins
  <1>6. \A r \in Requests :
          Plain(r) \/ Drop(r) \/ Touch(r) \/ Mint(r) \/ Logout(r) \/ DestroyOthers(r)
            \/ DestroyOwn(r) \/ WriteFails(r) => UNCHANGED account
    BY DEF Plain, Enter, Resolve, Answer, HashNew, Login, Confirm, Drop, Touch, Mint, Logout,
           DestroyOthers, DestroyOwn, WriteFails, store
  <1>7. Restart \/ Tick \/ UNCHANGED vars => UNCHANGED account
    BY DEF Restart, Tick, vars, store
  <1> QED
    BY <1>2, <1>3, <1>4, <1>5, <1>6, <1>7 DEF Next, Plain

\* However many administrators are switched off at once, one stays: the count
\* and the switch are one update of the store.
THEOREM AnAdminStays == Spec => LiveAdminStays
  <1>1. ASSUME IInv, [Next]_vars, LiveAdmins # {} PROVE LiveAdmins' # {}
    <2>1. CASE ~\E r \in Requests : Disable(r)
      BY <1>1, <2>1, AdminsKept
    <2>2. ASSUME NEW r \in Requests, Disable(r) PROVE LiveAdmins' # {}
      <3>1. TypeOK
        BY <1>1 DEF IInv
      <3>2. PICK u \in DOMAIN account :
              MayDisable(u) /\ account' = [account EXCEPT ![u].off = TRUE]
        BY <2>2 DEF Disable
      <3>3. \E a \in LiveAdmins : a # u
        <4>1. CASE account[u].role # "admin"
          BY <1>1, <4>1 DEF LiveAdmins
        <4>2. CASE Cardinality(LiveAdmins) > 1
          <5>1. Cardinality({u}) = 1
            BY FS_Singleton
          <5>2. LiveAdmins # {u}
            BY <4>2, <5>1
          <5> QED
            BY <1>1, <5>2
        <4> QED
          BY <3>2, <4>1, <4>2 DEF MayDisable
      <3>4. PICK a \in DOMAIN account \ {u} : account[a].role = "admin" /\ ~account[a].off
        BY <3>3 DEF LiveAdmins
      <3>5. DOMAIN account' = DOMAIN account /\ account'[a] = account[a]
        BY <3>1, <3>2, <3>4, SwitchStep
      <3>6. a \in LiveAdmins'
        BY <3>4, <3>5 DEF LiveAdmins
      <3> QED
        BY <3>6
    <2> QED
      BY <2>1, <2>2
  <1> QED
    BY <1>1, Inductive, PTL DEF Spec, LiveAdminStays

\* No request writes back a session it read before it ended.
THEOREM EndedStayEnded == Spec => EndedStaysEnded
  <1>1. ASSUME IInv, [Next]_vars PROVE (1..minted) \cap DOMAIN rows' \subseteq DOMAIN rows
    <2>1. ASSUME NEW r \in Requests, Mint(r)
          PROVE  (1..minted) \cap DOMAIN rows' \subseteq DOMAIN rows
      BY <1>1, <2>1, MintStep
    <2>2. \A tokens : Keep(tokens) => DOMAIN rows' \subseteq DOMAIN rows
      BY DEF Keep, Restrict
    <2>3. \A r \in Requests :
            Plain(r) \/ CreateUser(r) \/ SetPassword(r) \/ Enable(r) \/ WriteFails(r) => UNCHANGED rows
      BY DEF Plain, Enter, Resolve, Answer, HashNew, Login, Confirm, CreateUser, SetPassword,
             Enable, WriteFails, store
    <2>4. Restart \/ Tick \/ UNCHANGED vars => UNCHANGED rows
      BY DEF Restart, Tick, vars, store
    <2>5. \A r \in Requests :
            Drop(r) \/ Logout(r) \/ DestroyOthers(r) \/ DestroyOwn(r) \/ Disable(r) =>
              \E tokens : Keep(tokens)
      BY DEF Drop, Logout, DestroyOthers, DestroyOwn, Disable
    <2>6. \A r \in Requests : Touch(r) => DOMAIN rows' = DOMAIN rows
      BY DEF Touch
    <2> QED
      BY <1>1, <2>1, <2>2, <2>3, <2>4, <2>5, <2>6 DEF Next, Plain
  <1> QED
    BY <1>1, Inductive, PTL DEF Spec, EndedStaysEnded
=============================================================================
