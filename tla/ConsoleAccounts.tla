--------------------------- MODULE ConsoleAccounts ---------------------------
(***************************************************************************)
(* The operator console's accounts and sign-in sessions: requests run      *)
(* concurrently over one store whose reads are snapshots and whose updates *)
(* are serialised and persisted (dashboard/src/console-auth.ts,            *)
(* console-session.ts, console-users.ts, console-store.ts).                *)
(*                                                                         *)
(* A user is a normalised username.  A password is a version of its        *)
(* account's password; a password hash takes long, so the steps before and *)
(* after one are separate actions.  Tokens are numbered as they are minted *)
(* and a client may present any of them again.  A tick is half of the idle *)
(* window, far more than the touch floor.                                  *)
(***************************************************************************)
EXTENDS Naturals, FiniteSets, Functions

CONSTANTS Users,      \* usernames
          Requests,   \* requests the console works on at once
          Seeds,      \* who may be the account made from CONSOLE_ADMIN_PASSWORD;
                      \* None: no such password is set
          Machine,    \* role of the machine credential: viewer, admin or none
          Private,    \* private mode: loopback bind and no credential
          Loopback,   \* nothing outside the box reaches the console
          Idle, Absolute, \* session lifetimes, in ticks
          MaxTime,    \* bound on the clock
          MaxTokens,  \* bound on the sessions minted
          MaxChanges, \* bound on the password changes
          None

ASSUME ConsoleAssumption ==
  /\ Seeds \subseteq Users \cup {None} /\ None \notin Users
  /\ Machine \in {"viewer", "admin", "none"}
  /\ Private \in BOOLEAN /\ Loopback \in BOOLEAN
  /\ Private => Loopback /\ Machine = "none"
  /\ {Idle, Absolute, MaxTime, MaxTokens, MaxChanges} \subseteq Nat

VARIABLES
  time,
  account,  \* users: username -> role, off (disabledAt), password, must (mustChangePassword)
  rows,     \* sessions: token -> user, created, seen; made and raced are history
  minted,   \* tokens issued so far
  changes,  \* passwords set so far
  cut,      \* history: accounts whose password change stopped half way
  req       \* what each request is doing

store == <<account, rows>>
vars == <<time, account, rows, minted, changes, cut, req>>

Roles == {"admin", "viewer"}
Tokens == 1..MaxTokens

Nobody == [kind |-> "none", user |-> None, role |-> "viewer", must |-> FALSE]
NoRequest == [at |-> "idle", token |-> 0, machine |-> FALSE, fresh |-> FALSE,
              principal |-> Nobody, read |-> 0, user |-> None, role |-> "viewer", password |-> 0]

Init ==
  /\ time = 0 /\ minted = 0 /\ changes = 0 /\ cut = {}
  /\ \E seed \in Seeds :
       account = [u \in {seed} \ {None} |->
                    [role |-> "admin", off |-> FALSE, password |-> 0, must |-> TRUE]]
  /\ rows = << >>
  /\ req = [r \in Requests |-> NoRequest]

Exists(u) == u \in DOMAIN account
Live(u) == Exists(u) /\ ~account[u].off
LiveAdmins == {u \in DOMAIN account : account[u].role = "admin" /\ ~account[u].off}
InLifetime(row) == time < row.seen + Idle /\ time < row.created + Absolute

Go(r, new) == req' = [req EXCEPT ![r] = new]
Done(r) == Go(r, NoRequest)
Keep(tokens) == rows' = Restrict(rows, tokens \cap DOMAIN rows)

-----------------------------------------------------------------------------
(* consoleAuth: who is asking.                                             *)

\* the request comes in; the first read is needsSetup.  Which page or form it is
\* for matters from "admitted" on.
Enter(r) ==
  /\ req[r].at = "idle"
  /\ \E token \in 0..minted, machine \in {m \in BOOLEAN : m => Machine # "none"} :
       Go(r, [NoRequest EXCEPT !.at = "resolve", !.token = token, !.machine = machine,
                               !.fresh = account = << >>])
  /\ UNCHANGED <<time, store, minted, changes, cut>>

\* without a session the machine credential counts; it is an administrator
\* while there were no accounts (legacy)
MachineOrNobody(r) ==
  IF req[r].machine
  THEN [Nobody EXCEPT !.kind = "machine", !.role = IF req[r].fresh THEN "admin" ELSE Machine]
  ELSE Nobody

SessionOf(u) ==
  [kind |-> "session", user |-> u, role |-> account[u].role, must |-> account[u].must]

\* resolveSession reads the store; a row that ran out or whose account is off
\* is dropped next, one that was last seen a while ago is touched next
Resolve(r) ==
  LET t == req[r].token
      new(at, who) == [req[r] EXCEPT !.at = at, !.principal = who, !.machine = FALSE]
  IN
  /\ req[r].at = "resolve"
  /\ Go(r, IF t \notin DOMAIN rows THEN new("admitted", MachineOrNobody(r))
           ELSE IF ~InLifetime(rows[t]) \/ ~Live(rows[t].user) THEN new("drop", MachineOrNobody(r))
           ELSE IF time > rows[t].seen
           THEN [new("touch", SessionOf(rows[t].user)) EXCEPT !.read = time]
           ELSE new("admitted", SessionOf(rows[t].user)))
  /\ UNCHANGED <<time, store, minted, changes, cut>>

Drop(r) ==
  /\ req[r].at = "drop"
  /\ Keep(Tokens \ {req[r].token})
  /\ Go(r, [req[r] EXCEPT !.at = "admitted"])
  /\ UNCHANGED <<time, account, minted, changes, cut>>

\* Mutant: the row that was read is written back, there or not.
TouchBack(r) ==
  LET t == req[r].token
      row(x) == IF x \in DOMAIN rows THEN rows[x]
                ELSE [user |-> req[r].principal.user, created |-> 0, seen |-> 0,
                      made |-> 0, raced |-> FALSE]
  IN
  /\ req[r].at = "touch"
  /\ rows' = [x \in DOMAIN rows \cup {t} |-> IF x = t THEN [row(x) EXCEPT !.seen = req[r].read]
                                            ELSE row(x)]
  /\ Go(r, [req[r] EXCEPT !.at = "admitted", !.read = 0])
  /\ UNCHANGED <<time, account, minted, changes, cut>>

\* only a row that is still there is touched
Touch(r) ==
  LET t == req[r].token IN
  /\ req[r].at = "touch"
  /\ rows' = [x \in DOMAIN rows |-> IF x = t THEN [rows[x] EXCEPT !.seen = req[r].read] ELSE rows[x]]
  /\ Go(r, [req[r] EXCEPT !.at = "admitted", !.read = 0])
  /\ UNCHANGED <<time, account, minted, changes, cut>>

\* private mode serves anyone while there are no accounts
Anonymous(r) == req[r].principal.kind = "none" /\ req[r].fresh /\ Private

\* a form behind the gate is reached by somebody, and with a seeded password
\* only its change and the sign-out are
Admitted(r) == req[r].at = "admitted"
SignedIn(r) == Admitted(r) /\ req[r].principal.kind = "session"

\* requireRole("admin")
MayWrite(r) ==
  /\ Admitted(r)
  /\ \/ Anonymous(r)
     \/ /\ req[r].principal.kind # "none" /\ ~req[r].principal.must
        /\ req[r].principal.role = "admin"

\* a page, or a request turned away: by the gate, by its form or as a navigation
Answer(r) ==
  /\ req[r].at = "admitted"
  /\ Done(r)
  /\ UNCHANGED <<time, store, minted, changes, cut>>

-----------------------------------------------------------------------------
(* Making accounts: POST /setup and POST /account/users.                   *)

SetupAllowed(r) == account = << >> /\ (Loopback \/ req[r].principal.kind = "machine")

\* the password is hashed before the store's lock is taken
HashNew(r) ==
  /\ \E u \in Users, role \in Roles :
       \/ /\ Admitted(r) /\ SetupAllowed(r)
          /\ Go(r, [NoRequest EXCEPT !.at = "createFirst", !.user = u, !.role = "admin"])
       \/ /\ MayWrite(r)
          /\ Go(r, [NoRequest EXCEPT !.at = "create", !.user = u, !.role = role])
  /\ UNCHANGED <<time, store, minted, changes, cut>>

\* in one update: the name is free and the account is made
CreateUser(r) ==
  LET u == req[r].user IN
  /\ req[r].at \in {"create", "createFirst"}
  /\ IF Exists(u)
     THEN Done(r) /\ UNCHANGED account
     ELSE /\ account' = [x \in DOMAIN account \cup {u} |->
                           IF x = u THEN [role |-> req[r].role, off |-> FALSE,
                                          password |-> 0, must |-> FALSE]
                           ELSE account[x]]
          /\ IF req[r].at = "createFirst" THEN Go(r, [req[r] EXCEPT !.at = "mint"]) ELSE Done(r)
  /\ UNCHANGED <<time, rows, minted, changes, cut>>

\* createSession: rows that ran out go, the new one comes, in one update
Mint(r) ==
  LET t == minted + 1
      u == req[r].user
      kept == {x \in DOMAIN rows : InLifetime(rows[x])}
  IN
  /\ req[r].at = "mint" /\ minted < MaxTokens
  /\ rows' = [x \in kept \cup {t} |->
                IF x = t THEN [user |-> u, created |-> time, seen |-> time,
                               made |-> req[r].password,
                               raced |-> account[u].off \/ account[u].password # req[r].password]
                ELSE rows[x]]
  /\ minted' = t
  /\ Done(r)
  /\ UNCHANGED <<time, account, changes, cut>>

-----------------------------------------------------------------------------
(* POST /login, /logout, /account/password.                                *)

\* authenticate: the password and disabledAt are those of one read
Login(r) ==
  /\ Admitted(r)
  /\ \E u \in {u \in Users : Live(u)} :
       Go(r, [NoRequest EXCEPT !.at = "mint", !.user = u, !.password = account[u].password])
  /\ UNCHANGED <<time, store, minted, changes, cut>>

Logout(r) ==
  /\ SignedIn(r)
  /\ Keep(Tokens \ {req[r].token})
  /\ Done(r)
  /\ UNCHANGED <<time, account, minted, changes, cut>>

\* the current password is right, in one read of a live account
Confirm(r) ==
  /\ SignedIn(r) /\ Live(req[r].principal.user)
  /\ Go(r, [NoRequest EXCEPT !.at = "set", !.user = req[r].principal.user, !.token = req[r].token])
  /\ UNCHANGED <<time, store, minted, changes, cut>>

SetPassword(r) ==
  LET u == req[r].user IN
  /\ req[r].at = "set" /\ changes < MaxChanges
  /\ changes' = changes + 1
  /\ account' = [account EXCEPT ![u].password = changes + 1, ![u].must = FALSE]
  /\ Go(r, [req[r] EXCEPT !.at = "others", !.password = changes + 1])
  /\ UNCHANGED <<time, rows, minted, cut>>

\* Mutant: the other sessions live on.
DestroyNone(r) ==
  /\ req[r].at = "others"
  /\ Go(r, [req[r] EXCEPT !.at = "own"])
  /\ UNCHANGED <<time, store, minted, changes, cut>>

\* destroyUserSessions, all but the one that asks
DestroyOthers(r) ==
  /\ req[r].at = "others"
  /\ Keep({t \in DOMAIN rows : rows[t].user # req[r].user \/ t = req[r].token})
  /\ Go(r, [req[r] EXCEPT !.at = "own"])
  /\ UNCHANGED <<time, account, minted, changes, cut>>

\* then that one too; a new one is minted next
DestroyOwn(r) ==
  /\ req[r].at = "own"
  /\ Keep(Tokens \ {req[r].token})
  /\ Go(r, [req[r] EXCEPT !.at = "mint"])
  /\ UNCHANGED <<time, account, minted, changes, cut>>

-----------------------------------------------------------------------------
(* POST /account/users/:id/disabled.                                       *)

\* Mutant: administrators that are switched off count too.
MayDisableCountingAll(u) ==
  account[u].role # "admin" \/ Cardinality({x \in DOMAIN account : account[x].role = "admin"}) > 1

MayDisable(u) == account[u].role # "admin" \/ Cardinality(LiveAdmins) > 1

\* nobody switches off the account they are signed in to; the last live
\* administrator is counted in the update that also ends the sessions
Disable(r) ==
  /\ MayWrite(r)
  /\ \E u \in DOMAIN account \ {req[r].principal.user} :
       /\ MayDisable(u)
       /\ account' = [account EXCEPT ![u].off = TRUE]
       /\ Keep({t \in DOMAIN rows : rows[t].user # u})
  /\ Done(r)
  /\ UNCHANGED <<time, minted, changes, cut>>

Enable(r) ==
  /\ MayWrite(r)
  /\ \E u \in DOMAIN account \ {req[r].principal.user} :
       account' = [account EXCEPT ![u].off = FALSE]
  /\ Done(r)
  /\ UNCHANGED <<time, rows, minted, changes, cut>>

-----------------------------------------------------------------------------
(* Faults and the clock.                                                   *)

Changing(r) == req[r].at \in {"others", "own"}

\* the state file cannot be written: the update throws and changes nothing
WriteFails(r) ==
  /\ req[r].at \in {"drop", "touch", "create", "createFirst", "mint", "set", "others", "own"}
  /\ cut' = cut \cup {req[x].user : x \in {x \in {r} : Changing(x)}}
  /\ Done(r)
  /\ UNCHANGED <<time, store, minted, changes>>

\* the process restarts: requests are gone, the file holds every update
Restart ==
  /\ \E r \in Requests : req[r].at # "idle"
  /\ cut' = cut \cup {req[r].user : r \in {x \in Requests : Changing(x)}}
  /\ req' = [r \in Requests |-> NoRequest]
  /\ UNCHANGED <<time, store, minted, changes>>

Tick ==
  /\ time < MaxTime
  /\ time' = time + 1
  /\ UNCHANGED <<store, minted, changes, cut, req>>

Next ==
  \/ \E r \in Requests :
       \/ Enter(r) \/ Resolve(r) \/ Drop(r) \/ Touch(r) \/ Answer(r)
       \/ HashNew(r) \/ CreateUser(r) \/ Mint(r)
       \/ Login(r) \/ Logout(r) \/ Confirm(r) \/ SetPassword(r)
       \/ DestroyOthers(r) \/ DestroyOwn(r)
       \/ Disable(r) \/ Enable(r) \/ WriteFails(r)
  \/ Restart \/ Tick

Spec == Init /\ [][Next]_vars
-----------------------------------------------------------------------------
(* Properties.                                                             *)

AccountRecord == [role : Roles, off : BOOLEAN, password : Nat, must : BOOLEAN]
Row == [user : Users, created : Nat, seen : Nat, made : Nat, raced : BOOLEAN]
Principal == [kind : {"none", "session", "machine"}, user : Users \cup {None},
              role : Roles, must : BOOLEAN]
Request ==
  {q \in [at : {"idle", "resolve", "drop", "touch", "admitted", "create", "createFirst",
                "mint", "set", "others", "own"},
          token : Nat, machine : {m \in BOOLEAN : m => Machine # "none"}, fresh : BOOLEAN,
          principal : Principal, read : Nat, user : Users \cup {None}, role : Roles,
          password : Nat] :
     q.at \in {"create", "createFirst"} => q.user \in Users}

TypeOK ==
  /\ time \in Nat /\ minted \in Nat /\ changes \in Nat /\ cut \subseteq Users \cup {None}
  /\ DOMAIN account \subseteq Users /\ account \in [DOMAIN account -> AccountRecord]
  /\ DOMAIN rows \subseteq 1..minted /\ rows \in [DOMAIN rows -> Row]
  /\ req \in [Requests -> Request]
  /\ \A r \in Requests : req[r].at \in {"mint", "set", "others", "own"} => Exists(req[r].user)

\* A console that has a live administrator has one ever after, however the
\* requests of several of them mix (setDisabled: "This is the only
\* administrator left").
LiveAdminStays == [][LiveAdmins # {} => LiveAdmins' # {}]_vars

\* A session that ended, by sign-out, password change, disabling or running
\* out, never comes back, though touches and drops act on old reads.
EndedStaysEnded == [][(1..minted) \cap DOMAIN rows' \subseteq DOMAIN rows]_vars

\* Every session is of a live account and of its present password, unless its
\* sign-in was verified before the change, the change is still at work, or was
\* cut short ("every OTHER session for this account dies").
RowsAreCurrent ==
  \A t \in DOMAIN rows :
    LET u == rows[t].user IN
    \/ rows[t].raced \/ u \in cut
    \/ /\ Live(u)
       /\ \/ rows[t].made = account[u].password
          \/ \E r \in Requests : Changing(r) /\ req[r].user = u
=============================================================================
