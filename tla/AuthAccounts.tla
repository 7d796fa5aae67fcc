---------------------------- MODULE AuthAccounts ----------------------------
(***************************************************************************)
(* auth-service: accounts in PostgreSQL, the bootstrap of the first admin  *)
(* and the lockout after wrong passwords.  Every HTTP request runs in a    *)
(* goroutine of its own and touches the users table in separate SQL        *)
(* statements, each of them atomic: RegisterUser counts the users and then *)
(* inserts one; Login reads the row, checks the lock and the password on   *)
(* what it read, and then updates the row.                                 *)
(*                                                                         *)
(* Time is abstract: a lock in the future runs out at any moment.  The     *)
(* rest of Login (tokens and session) is the subject of AuthSessions.      *)
(***************************************************************************)
EXTENDS Naturals, FiniteSets

CONSTANTS
  Emails,
  Handlers,     \* request goroutines
  MaxFailed,    \* wrong passwords that lock an account (5)
  MaxRequests   \* bound: requests served

ASSUME FiniteAssumption == IsFiniteSet(Emails) /\ IsFiniteSet(Handlers)

ASSUME LimitAssumption ==
  /\ MaxFailed \in Nat \ {0}
  /\ MaxRequests \in Nat

VARIABLES
  role,       \* role[e]: role column of e's row, "none" if there is no row
  failed,     \* failed[e]: failed_login_count
  locked,     \* locked[e]: locked_until is null, in the future or in the past
  pc,         \* control state of a handler
  email,      \* the email of its request
  password,   \* whether a login has the right password
  granted,    \* the role a registration is going to insert
  seen,       \* failed_login_count of the row a login has read
  requests,   \* requests so far
  late,       \* history: registrations that began when there was a user
  latecomers, \* history: accounts created by those
  guesses,    \* history: wrong passwords since the account was last unlocked
  lost        \* history: those of them whose increment failed

userVars    == <<role, failed, locked>>
handlerVars == <<pc, email, password, granted, seen, requests>>
historyVars == <<late, latecomers, guesses, lost>>
vars == <<userVars, handlerVars, historyVars>>

Users == {e \in Emails : role[e] # "none"}

Goto(h, label) == pc' = [pc EXCEPT ![h] = label]

Init ==
  /\ role = [e \in Emails |-> "none"]
  /\ failed = [e \in Emails |-> 0]
  /\ locked = [e \in Emails |-> "null"]
  /\ pc = [h \in Handlers |-> "idle"]
  /\ email \in [Handlers -> Emails]
  /\ password = [h \in Handlers |-> "wrong"]
  /\ granted = [h \in Handlers |-> "user"]
  /\ seen = [h \in Handlers |-> 0]
  /\ requests = 0
  /\ late = {}
  /\ latecomers = {}
  /\ guesses = [e \in Emails |-> 0]
  /\ lost = [e \in Emails |-> 0]

\* A handler takes a request for e and goes to its first statement.
Begin(h, e, label) ==
  /\ pc[h] = "idle"
  /\ requests < MaxRequests
  /\ requests' = requests + 1
  /\ email' = [email EXCEPT ![h] = e]
  /\ Goto(h, label)

\* The client disconnects or the process is killed: the request ends between
\* two statements.
Abort(h) ==
  /\ pc[h] # "idle"
  /\ Goto(h, "idle")
  /\ UNCHANGED <<userVars, email, password, granted, seen, requests, historyVars>>

-----------------------------------------------------------------------------
(* RegisterUser.                                                           *)

\* A well-formed request (others are answered 400 and touch nothing).
Register(h, e) ==
  /\ Begin(h, e, "count")
  /\ late' = IF Users = {} THEN late \ {h} ELSE late \cup {h}
  /\ UNCHANGED <<userVars, password, granted, seen, latecomers, guesses, lost>>

\* Seeded fault: the comparison is off by one.
AtMostOneUser == Cardinality(Users) <= 1

\* count == 0.
NoUsers == Cardinality(Users) = 0

\* Seeded fault: the role is only set for the first user.
RoleUnset == IF NoUsers THEN "admin" ELSE ""

\* The role that goes with the count.
BootstrapRole == IF NoUsers THEN "admin" ELSE "user"

Count(h) ==
  /\ pc[h] = "count"
  /\ granted' = [granted EXCEPT ![h] = BootstrapRole]
  /\ Goto(h, "create")
  /\ UNCHANGED <<userVars, email, password, seen, requests, historyVars>>

\* Seeded fault: registration goes on as a plain user when the count fails.
CountIgnored == "create"

\* Count's error ends the registration.
AfterCountError == "idle"

CountError(h) ==
  /\ pc[h] = "count"
  /\ granted' = [granted EXCEPT ![h] = "user"]
  /\ Goto(h, AfterCountError)
  /\ UNCHANGED <<userVars, email, password, seen, requests, historyVars>>

\* The INSERT; the UNIQUE constraint refuses a taken email.
Create(h) ==
  /\ pc[h] = "create"
  /\ LET e == email[h] IN
       IF e \in Users THEN UNCHANGED <<role, latecomers>>
       ELSE /\ role' = [role EXCEPT ![e] = granted[h]]
            /\ latecomers' = IF h \in late THEN latecomers \cup {e} ELSE latecomers
  /\ Goto(h, "idle")
  /\ UNCHANGED <<failed, locked, email, password, granted, seen, requests, late,
                 guesses, lost>>

-----------------------------------------------------------------------------
(* Login.                                                                  *)

Login(h, e, p) ==
  /\ Begin(h, e, "read")
  /\ password' = [password EXCEPT ![h] = p]
  /\ UNCHANGED <<userVars, granted, seen, historyVars>>

\* IsLocked on the row just read.
IsLocked(e) == locked[e] = "future"

\* GetByEmail, then the lock check: without a row, or with a locked one, the
\* request ends.  (So would it for a row with is_active false, but nothing in
\* the code ever clears that column.)
Read(h) ==
  /\ pc[h] = "read"
  /\ LET e == email[h] IN
       /\ seen' = [seen EXCEPT ![h] = failed[e]]
       /\ Goto(h, IF e \in Users /\ ~IsLocked(e) THEN "verify" ELSE "idle")
  /\ UNCHANGED <<userVars, email, password, granted, requests, historyVars>>

\* Seeded fault: the new count is computed from the row read earlier.
CountFromSnapshot(h) == seen[h] + 1

\* failed_login_count + 1, evaluated by the UPDATE itself.
NewCount(h) == failed[email[h]] + 1

\* Seeded fault: the threshold is compared with the count before the increment.
OldCountReaches(e, n) == failed[e] >= MaxFailed

\* The CASE of IncrementFailedLogin.
ReachesLimit(e, n) == n >= MaxFailed

\* A wrong password: IncrementFailedLogin in a single UPDATE.
WrongPassword(h) ==
  /\ pc[h] = "verify"
  /\ password[h] = "wrong"
  /\ LET e == email[h]
         n == NewCount(h)
     IN  /\ failed' = [failed EXCEPT ![e] = n]
         /\ locked' = IF ReachesLimit(e, n) THEN [locked EXCEPT ![e] = "future"]
                      ELSE locked
         /\ guesses' = [guesses EXCEPT ![e] = @ + 1]
  /\ Goto(h, "idle")
  /\ UNCHANGED <<role, email, password, granted, seen, requests, late,
                 latecomers, lost>>

\* The UPDATE fails and its error is not looked at.
IncrementLost(h) ==
  /\ pc[h] = "verify"
  /\ password[h] = "wrong"
  /\ guesses' = [guesses EXCEPT ![email[h]] = @ + 1]
  /\ lost' = [lost EXCEPT ![email[h]] = @ + 1]
  /\ Goto(h, "idle")
  /\ UNCHANGED <<userVars, email, password, granted, seen, requests, late,
                 latecomers>>

\* The right password: the counter is reset if the row read had failures.
RightPassword(h) ==
  /\ pc[h] = "verify"
  /\ password[h] = "right"
  /\ Goto(h, IF seen[h] > 0 THEN "reset" ELSE "idle")
  /\ UNCHANGED <<userVars, email, password, granted, seen, requests, historyVars>>

\* ResetFailedLogin (an error is only logged: Abort covers it).  It also lifts
\* a lock that was set after this login read the row.
ResetFailedLogin(h) ==
  /\ pc[h] = "reset"
  /\ LET e == email[h] IN
       /\ failed' = [failed EXCEPT ![e] = 0]
       /\ locked' = [locked EXCEPT ![e] = "null"]
       /\ guesses' = [guesses EXCEPT ![e] = 0]
       /\ lost' = [lost EXCEPT ![e] = 0]
  /\ Goto(h, "idle")
  /\ UNCHANGED <<role, email, password, granted, seen, requests, late, latecomers>>

\* locked_until passes.
LockExpires(e) ==
  /\ locked[e] = "future"
  /\ locked' = [locked EXCEPT ![e] = "past"]
  /\ guesses' = [guesses EXCEPT ![e] = 0]
  /\ lost' = [lost EXCEPT ![e] = 0]
  /\ UNCHANGED <<role, failed, handlerVars, late, latecomers>>

-----------------------------------------------------------------------------
Next ==
  \/ \E h \in Handlers :
       \/ \E e \in Emails : Register(h, e)
       \/ \E e \in Emails, p \in {"right", "wrong"} : Login(h, e, p)
       \/ Count(h) \/ CountError(h) \/ Create(h)
       \/ Read(h) \/ WrongPassword(h) \/ IncrementLost(h) \/ RightPassword(h)
       \/ ResetFailedLogin(h)
       \/ Abort(h)
  \/ \E e \in Emails : LockExpires(e)

Spec == Init /\ [][Next]_vars

-----------------------------------------------------------------------------
(* Properties.                                                             *)

TypeOK ==
  /\ role \in [Emails -> {"none", "user", "admin"}]
  /\ failed \in [Emails -> Nat]
  /\ locked \in [Emails -> {"null", "future", "past"}]
  /\ pc \in [Handlers -> {"idle", "count", "create", "read", "verify", "reset"}]
  /\ email \in [Handlers -> Emails]
  /\ password \in [Handlers -> {"right", "wrong"}]
  /\ granted \in [Handlers -> {"user", "admin"}]
  /\ seen \in [Handlers -> Nat]
  /\ requests \in Nat
  /\ late \subseteq Handlers
  /\ latecomers \subseteq Emails
  /\ guesses \in [Emails -> Nat]
  /\ lost \in [Emails -> Nat]

\* The platform never ends up with users but nobody to administer it, whatever
\* registrations race and whichever of their statements fail: RegisterUser
\* makes the first user an admin and refuses to guess when Count fails.
AdminExists == Users # {} => \E e \in Users : role[e] = "admin"

\* The bootstrap never hands out a second admin role once it is over: a
\* registration that began when there was a user creates a plain user.
LatecomersAreUsers == \A e \in latecomers : role[e] = "user"

\* An account whose failures have reached the limit has been locked and has
\* not silently become unlimited: locked_until is set until a login succeeds.
LockedAtLimit == \A e \in Emails : failed[e] >= MaxFailed => locked[e] # "null"

\* The lockout bounds the wrong passwords an account takes between two
\* unlockings although Login checks the lock on a row read earlier: beyond the
\* limit only the requests in flight get through (and those whose increment
\* the database refused).
GuessesBounded ==
  \A e \in Emails :
    guesses[e] <= (MaxFailed - 1) + Cardinality(Handlers) + lost[e]

\* auth_service.go: "the FIRST registered user becomes admin [...] Every later
\* user is a standard 'user'".
SingleAdmin == Cardinality({e \in Emails : role[e] = "admin"}) <= 1

=============================================================================
