------------------------------ MODULE AuthProofs ------------------------------
(***************************************************************************)
(* Proofs about auth-service.  AuthAccounts, for any accounts, any number  *)
(* of concurrent requests and any limit: its types, the two facts about    *)
(* the admin bootstrap and the two about the lockout.                      *)
(*   BootstrapInv  what a registration relies on between Count and Create  *)
(*   LockInv       what the columns of a row say about each other          *)
(*   FlightInv     wrong passwords counted together with those in flight   *)
(* AuthSessions, for any sessions, handlers and number of requests: a      *)
(* revocation and a logout are final.                                      *)
(*   HashInv       no stored session has the hash of a token               *)
(*   CreatorInv    who may touch a session before its login answered       *)
(*   DeleteOrder   the family key is deleted after its session             *)
(* AuthService: what is proved of its halves holds of the service.         *)
(***************************************************************************)
EXTENDS AuthService, FiniteSetTheorems, TLAPS

BootstrapInv ==
  /\ AdminExists
  /\ \A h \in Handlers : pc[h] = "create" /\ granted[h] = "user" => Users # {}
  /\ late # {} => Users # {}
  /\ \A h \in late : pc[h] = "create" => granted[h] = "user"
  /\ LatecomersAreUsers
  /\ latecomers \subseteq Users

\* The part of LockInv about account e.
LockInvAt(e) ==
  /\ locked[e] = "null" => failed[e] < MaxFailed /\ guesses[e] <= failed[e] + lost[e]
  /\ locked[e] # "null" => failed[e] >= MaxFailed
  /\ locked[e] = "past" => guesses[e] <= lost[e]

LockInv == \A e \in Emails : LockInvAt(e)

\* The logins that passed the lock check of e and will find the password wrong.
Flight(e) ==
  {h \in Handlers : pc[h] = "verify" /\ password[h] = "wrong" /\ email[h] = e}

FlightInvAt(e) ==
  guesses[e] + Cardinality(Flight(e))
    <= (MaxFailed - 1) + Cardinality(Handlers) + lost[e]

FlightInv == \A e \in Emails : FlightInvAt(e)

IInv == TypeOK /\ BootstrapInv /\ LockInv /\ FlightInv

-----------------------------------------------------------------------------
(* Facts about the helper operators.                                       *)

\* The count of the users is zero exactly when there is none.
LEMMA CountZero == NoUsers <=> Users = {}
  <1>1. IsFiniteSet(Users)
    BY FiniteAssumption, FS_Subset DEF Users
  <1>2. QED
    BY <1>1, FS_EmptySet DEF NoUsers

\* There are at most as many logins in flight as handlers.
LEMMA FlightBound ==
  ASSUME NEW e
  PROVE  /\ IsFiniteSet(Flight(e))
         /\ Cardinality(Flight(e)) \in Nat
         /\ Cardinality(Handlers) \in Nat
         /\ Cardinality(Flight(e)) <= Cardinality(Handlers)
  <1>1. Flight(e) \in SUBSET Handlers
    BY DEF Flight
  <1>2. QED
    BY <1>1, FiniteAssumption, FS_Subset, FS_CardinalityType

-----------------------------------------------------------------------------
(* Type correctness.                                                       *)

\* The initial state has the declared types.
LEMMA InitType == Init => TypeOK
  BY DEF Init, TypeOK

\* Every step keeps the types.
LEMMA NextType == TypeOK /\ [Next]_vars => TypeOK'
  <1> SUFFICES ASSUME TypeOK, [Next]_vars PROVE TypeOK'
    OBVIOUS
  <1> USE DEF userVars, handlerVars, historyVars, TypeOK, Goto
  <1>1. ASSUME NEW h \in Handlers, NEW e \in Emails, Register(h, e)
        PROVE  TypeOK'
    BY <1>1 DEF Register, Begin
  <1>2. ASSUME NEW h \in Handlers, NEW e \in Emails,
               NEW p \in {"right", "wrong"}, Login(h, e, p)
        PROVE  TypeOK'
    BY <1>2 DEF Login, Begin
  <1>3. ASSUME NEW h \in Handlers, Count(h) PROVE TypeOK'
    BY <1>3 DEF Count, BootstrapRole
  <1>4. ASSUME NEW h \in Handlers, CountError(h) PROVE TypeOK'
    BY <1>4 DEF CountError, AfterCountError
  <1>5. ASSUME NEW h \in Handlers, Create(h) PROVE TypeOK'
    BY <1>5 DEF Create
  <1>6. ASSUME NEW h \in Handlers, Read(h) PROVE TypeOK'
    BY <1>6 DEF Read
  <1>7. ASSUME NEW h \in Handlers, WrongPassword(h) PROVE TypeOK'
    BY <1>7 DEF WrongPassword, NewCount
  <1>8. ASSUME NEW h \in Handlers, IncrementLost(h) PROVE TypeOK'
    BY <1>8 DEF IncrementLost
  <1>9. ASSUME NEW h \in Handlers, RightPassword(h) PROVE TypeOK'
    BY <1>9 DEF RightPassword
  <1>10. ASSUME NEW h \in Handlers, ResetFailedLogin(h) PROVE TypeOK'
    BY <1>10 DEF ResetFailedLogin
  <1>11. ASSUME NEW h \in Handlers, Abort(h) PROVE TypeOK'
    BY <1>11 DEF Abort
  <1>12. ASSUME NEW e \in Emails, LockExpires(e) PROVE TypeOK'
    BY <1>12 DEF LockExpires
  <1>13. CASE UNCHANGED vars
    BY <1>13 DEF vars
  <1>14. QED
    BY <1>1, <1>2, <1>3, <1>4, <1>5, <1>6, <1>7, <1>8, <1>9, <1>10, <1>11,
       <1>12, <1>13 DEF Next

-----------------------------------------------------------------------------
(* The admin bootstrap.                                                    *)

\* Every step keeps BootstrapInv; only a registration's steps touch it.
LEMMA NextBootstrap == TypeOK /\ BootstrapInv /\ [Next]_vars => BootstrapInv'
  <1> SUFFICES ASSUME TypeOK, BootstrapInv, [Next]_vars PROVE BootstrapInv'
    OBVIOUS
  <1> USE DEF userVars, handlerVars, historyVars, Goto
  <1>1. ASSUME NEW h \in Handlers, NEW e \in Emails, Register(h, e)
        PROVE  BootstrapInv'
    BY <1>1 DEF Register, Begin, BootstrapInv, AdminExists, LatecomersAreUsers,
                Users, TypeOK
  <1>2. ASSUME NEW h \in Handlers, Count(h) PROVE BootstrapInv'
    <2>1. granted' = [granted EXCEPT ![h] = IF Users = {} THEN "admin" ELSE "user"]
      BY <1>2, CountZero DEF Count, BootstrapRole
    <2>2. QED
      BY <1>2, <2>1 DEF Count, BootstrapInv, AdminExists, LatecomersAreUsers,
                        Users, TypeOK
  <1>3. ASSUME NEW h \in Handlers, CountError(h) PROVE BootstrapInv'
    BY <1>3 DEF CountError, AfterCountError, BootstrapInv, AdminExists,
                LatecomersAreUsers, Users, TypeOK
  <1>4. ASSUME NEW h \in Handlers, Create(h) PROVE BootstrapInv'
    <2>1. CASE email[h] \in Users
      BY <1>4, <2>1 DEF Create, BootstrapInv, AdminExists, LatecomersAreUsers,
                        Users, TypeOK
    <2>2. CASE email[h] \notin Users
      <3>1. /\ role' = [role EXCEPT ![email[h]] = granted[h]]
            /\ email[h] \in Emails
            /\ granted[h] \in {"user", "admin"}
        BY <1>4, <2>2 DEF Create, TypeOK
      <3>2. Users' = Users \cup {email[h]}
        BY <3>1 DEF Users, TypeOK
      <3>3. \A e \in Users : role'[e] = role[e]
        BY <2>2, <3>1 DEF Users, TypeOK
      <3>4. AdminExists'
        <4>1. CASE granted[h] = "admin"
          BY <3>1, <3>2, <4>1 DEF AdminExists, TypeOK
        <4>2. CASE granted[h] = "user"
          BY <1>4, <3>2, <3>3, <4>2 DEF AdminExists, BootstrapInv, Create
        <4>3. QED
          BY <3>1, <4>1, <4>2
      <3>5. /\ LatecomersAreUsers'
            /\ latecomers' \subseteq Users'
        BY <1>4, <2>2, <3>1, <3>2, <3>3
           DEF Create, BootstrapInv, LatecomersAreUsers, TypeOK
      <3>6. QED
        BY <1>4, <3>2, <3>4, <3>5 DEF Create, BootstrapInv, TypeOK
    <2>3. QED
      BY <2>1, <2>2
  <1>5. ASSUME UNCHANGED <<role, granted, late, latecomers>>,
               \A h \in Handlers : pc'[h] = "create" => pc[h] = "create"
        PROVE  BootstrapInv'
    BY <1>5 DEF BootstrapInv, AdminExists, LatecomersAreUsers, Users, TypeOK
  <1>6. ASSUME NEW h \in Handlers, NEW e \in Emails,
               NEW p \in {"right", "wrong"}, Login(h, e, p)
        PROVE  BootstrapInv'
    BY <1>5, <1>6 DEF Login, Begin, TypeOK
  <1>7. ASSUME NEW h \in Handlers, Read(h) PROVE BootstrapInv'
    BY <1>5, <1>7 DEF Read, TypeOK
  <1>8. ASSUME NEW h \in Handlers, WrongPassword(h) PROVE BootstrapInv'
    BY <1>5, <1>8 DEF WrongPassword, TypeOK
  <1>9. ASSUME NEW h \in Handlers, IncrementLost(h) PROVE BootstrapInv'
    BY <1>5, <1>9 DEF IncrementLost, TypeOK
  <1>10. ASSUME NEW h \in Handlers, RightPassword(h) PROVE BootstrapInv'
    BY <1>5, <1>10 DEF RightPassword, TypeOK
  <1>11. ASSUME NEW h \in Handlers, ResetFailedLogin(h) PROVE BootstrapInv'
    BY <1>5, <1>11 DEF ResetFailedLogin, TypeOK
  <1>12. ASSUME NEW h \in Handlers, Abort(h) PROVE BootstrapInv'
    BY <1>5, <1>12 DEF Abort, TypeOK
  <1>13. ASSUME NEW e \in Emails, LockExpires(e) PROVE BootstrapInv'
    BY <1>5, <1>13 DEF LockExpires, TypeOK
  <1>14. CASE UNCHANGED vars
    BY <1>5, <1>14 DEF vars
  <1>15. QED
    BY <1>1, <1>2, <1>3, <1>4, <1>6, <1>7, <1>8, <1>9, <1>10, <1>11, <1>12,
       <1>13, <1>14 DEF Next

-----------------------------------------------------------------------------
(* The lockout.                                                            *)

\* Every step keeps LockInv: the UPDATE moves the counter and the lock
\* together, and a passed lock keeps its counter at the limit.
LEMMA NextLock == TypeOK /\ LockInv /\ [Next]_vars => LockInv'
  <1> SUFFICES ASSUME TypeOK, LockInv, [Next]_vars, NEW a \in Emails
               PROVE  LockInvAt(a)'
    BY DEF LockInv
  <1> USE DEF userVars, handlerVars, historyVars
  <1>1. LockInvAt(a) /\ failed[a] \in Nat /\ guesses[a] \in Nat /\ lost[a] \in Nat
        /\ locked[a] \in {"null", "future", "past"}
        /\ MaxFailed \in Nat /\ MaxFailed > 0
    BY LimitAssumption DEF LockInv, TypeOK
  <1>2. ASSUME NEW h \in Handlers, WrongPassword(h) PROVE LockInvAt(a)'
    <2>1. CASE email[h] # a
      BY <1>1, <1>2, <2>1 DEF WrongPassword, LockInvAt, TypeOK
    <2>2. CASE email[h] = a
      <3>1. /\ failed'[a] = failed[a] + 1
            /\ guesses'[a] = guesses[a] + 1
            /\ lost'[a] = lost[a]
            /\ locked'[a] = IF failed[a] + 1 >= MaxFailed THEN "future" ELSE locked[a]
        BY <1>2, <2>2 DEF WrongPassword, NewCount, ReachesLimit, TypeOK
      <3>2. QED
        BY <1>1, <3>1 DEF LockInvAt
    <2>3. QED
      BY <2>1, <2>2
  <1>3. ASSUME NEW h \in Handlers, IncrementLost(h) PROVE LockInvAt(a)'
    BY <1>1, <1>3 DEF IncrementLost, LockInvAt, TypeOK
  <1>4. ASSUME NEW h \in Handlers, ResetFailedLogin(h) PROVE LockInvAt(a)'
    BY <1>1, <1>4 DEF ResetFailedLogin, LockInvAt, TypeOK
  <1>5. ASSUME NEW e \in Emails, LockExpires(e) PROVE LockInvAt(a)'
    BY <1>1, <1>5 DEF LockExpires, LockInvAt, TypeOK
  <1>6. ASSUME UNCHANGED <<failed, locked, guesses, lost>> PROVE LockInvAt(a)'
    BY <1>1, <1>6 DEF LockInvAt
  <1>7. QED
    BY <1>2, <1>3, <1>4, <1>5, <1>6
       DEF Next, vars, Register, Login, Begin, Count, CountError, Create, Read,
           RightPassword, Abort

\* A step that leaves the counts of e alone and puts nobody in flight keeps
\* FlightInvAt(e).
LEMMA FlightShrinks ==
  ASSUME TypeOK, NEW e \in Emails, FlightInvAt(e),
         guesses'[e] = guesses[e], lost'[e] = lost[e], Flight(e)' \subseteq Flight(e)
  PROVE  FlightInvAt(e)'
  <1>1. Cardinality(Flight(e)') <= Cardinality(Flight(e))
    BY FlightBound, FS_Subset
  <1>2. Cardinality(Flight(e)') \in Nat
    BY FlightBound, FS_Subset, FS_CardinalityType
  <1>3. guesses[e] \in Nat /\ lost[e] \in Nat
    BY DEF TypeOK
  <1>4. QED
    BY <1>1, <1>2, <1>3, FlightBound, LimitAssumption DEF FlightInvAt

\* Every step keeps FlightInv: a login enters the flight only past the lock
\* check, and then the counted guesses are below the limit; it leaves the
\* flight when its guess is counted.
LEMMA NextFlight ==
  TypeOK /\ TypeOK' /\ LockInv /\ FlightInv /\ [Next]_vars => FlightInv'
  <1> SUFFICES ASSUME TypeOK, TypeOK', LockInv, FlightInv, [Next]_vars,
                      NEW a \in Emails
               PROVE  FlightInvAt(a)'
    BY DEF FlightInv
  <1> USE DEF userVars, handlerVars, historyVars, Goto
  <1>1. /\ LockInvAt(a) /\ FlightInvAt(a)
        /\ failed[a] \in Nat /\ guesses[a] \in Nat /\ lost[a] \in Nat
        /\ locked[a] \in {"null", "future", "past"}
        /\ MaxFailed \in Nat /\ MaxFailed > 0
    BY LimitAssumption DEF LockInv, FlightInv, TypeOK
  <1>2. /\ Cardinality(Flight(a)) \in Nat
        /\ Cardinality(Handlers) \in Nat
        /\ IsFiniteSet(Flight(a))
    BY FlightBound
  <1>3. /\ Cardinality(Flight(a)') \in Nat
        /\ Cardinality(Flight(a)') <= Cardinality(Handlers)
    <2>1. Flight(a)' \in SUBSET Handlers
      BY DEF Flight
    <2>2. QED
      BY <2>1, FiniteAssumption, FS_Subset, FS_CardinalityType
  <1>4. ASSUME NEW h \in Handlers, Read(h) PROVE FlightInvAt(a)'
    <2>1. CASE email[h] = a /\ ~IsLocked(a)
      <3>1. guesses[a] <= (MaxFailed - 1) + lost[a]
        BY <1>1, <2>1 DEF LockInvAt, IsLocked
      <3>2. guesses'[a] = guesses[a] /\ lost'[a] = lost[a]
        BY <1>4 DEF Read
      <3>3. QED
        BY <1>1, <1>2, <1>3, <3>1, <3>2 DEF FlightInvAt
    <2>2. CASE ~(email[h] = a /\ ~IsLocked(a))
      <3>1. Flight(a)' \subseteq Flight(a)
        BY <1>4, <2>2 DEF Read, Flight, TypeOK
      <3>2. QED
        BY <1>1, <1>4, <3>1, FlightShrinks DEF Read
    <2>3. QED
      BY <2>1, <2>2
  <1>5. ASSUME NEW h \in Handlers, pc[h] = "verify", password[h] = "wrong",
               pc' = [pc EXCEPT ![h] = "idle"], UNCHANGED <<email, password>>
        PROVE  Cardinality(Flight(a)') =
                 Cardinality(Flight(a)) - (IF email[h] = a THEN 1 ELSE 0)
    <2>1. Flight(a)' = Flight(a) \ {h}
      BY <1>5 DEF Flight, TypeOK
    <2>2. h \in Flight(a) <=> email[h] = a
      BY <1>5 DEF Flight
    <2>3. Cardinality(Flight(a) \ {h}) =
            IF h \in Flight(a) THEN Cardinality(Flight(a)) - 1
            ELSE Cardinality(Flight(a))
      BY <1>2, FS_RemoveElement
    <2>4. QED
      BY <1>2, <2>1, <2>2, <2>3
  <1>6. ASSUME NEW h \in Handlers, WrongPassword(h) PROVE FlightInvAt(a)'
    <2>1. Cardinality(Flight(a)') =
            Cardinality(Flight(a)) - (IF email[h] = a THEN 1 ELSE 0)
      BY <1>5, <1>6 DEF WrongPassword
    <2>2. /\ guesses'[a] = guesses[a] + (IF email[h] = a THEN 1 ELSE 0)
          /\ lost'[a] = lost[a]
      BY <1>6 DEF WrongPassword, TypeOK
    <2>3. QED
      BY <1>1, <1>2, <1>3, <2>1, <2>2 DEF FlightInvAt
  <1>7. ASSUME NEW h \in Handlers, IncrementLost(h) PROVE FlightInvAt(a)'
    <2>1. Cardinality(Flight(a)') =
            Cardinality(Flight(a)) - (IF email[h] = a THEN 1 ELSE 0)
      BY <1>5, <1>7 DEF IncrementLost, userVars
    <2>2. /\ guesses'[a] = guesses[a] + (IF email[h] = a THEN 1 ELSE 0)
          /\ lost'[a] = lost[a] + (IF email[h] = a THEN 1 ELSE 0)
      BY <1>7 DEF IncrementLost, TypeOK
    <2>3. QED
      BY <1>1, <1>2, <1>3, <2>1, <2>2 DEF FlightInvAt
  <1>8. ASSUME NEW h \in Handlers, ResetFailedLogin(h) PROVE FlightInvAt(a)'
    <2>1. CASE email[h] = a
      <3>1. guesses'[a] = 0 /\ lost'[a] = 0
        BY <1>8, <2>1 DEF ResetFailedLogin, TypeOK
      <3>2. QED
        BY <1>1, <1>2, <1>3, <3>1 DEF FlightInvAt
    <2>2. CASE email[h] # a
      <3>1. guesses'[a] = guesses[a] /\ lost'[a] = lost[a]
        BY <1>8, <2>2 DEF ResetFailedLogin, TypeOK
      <3>2. Flight(a)' \subseteq Flight(a)
        BY <1>8 DEF ResetFailedLogin, Flight, TypeOK
      <3>3. QED
        BY <1>1, <3>1, <3>2, FlightShrinks
    <2>3. QED
      BY <2>1, <2>2
  <1>9. ASSUME NEW e \in Emails, LockExpires(e) PROVE FlightInvAt(a)'
    <2>1. CASE e = a
      <3>1. guesses'[a] = 0 /\ lost'[a] = 0
        BY <1>9, <2>1 DEF LockExpires, TypeOK
      <3>2. QED
        BY <1>1, <1>2, <1>3, <3>1 DEF FlightInvAt
    <2>2. CASE e # a
      <3>1. guesses'[a] = guesses[a] /\ lost'[a] = lost[a]
        BY <1>9, <2>2 DEF LockExpires, TypeOK
      <3>2. Flight(a)' \subseteq Flight(a)
        BY <1>9 DEF LockExpires, Flight
      <3>3. QED
        BY <1>1, <3>1, <3>2, FlightShrinks
    <2>3. QED
      BY <2>1, <2>2
  <1>10. ASSUME UNCHANGED <<guesses, lost>>, Flight(a)' \subseteq Flight(a)
         PROVE  FlightInvAt(a)'
    BY <1>1, <1>10, FlightShrinks
  <1>11. ASSUME NEW h \in Handlers, NEW e \in Emails, Register(h, e)
         PROVE  FlightInvAt(a)'
    BY <1>10, <1>11 DEF Register, Begin, Flight, TypeOK
  <1>12. ASSUME NEW h \in Handlers, NEW e \in Emails,
                NEW p \in {"right", "wrong"}, Login(h, e, p)
         PROVE  FlightInvAt(a)'
    BY <1>10, <1>12 DEF Login, Begin, Flight, TypeOK
  <1>13. ASSUME NEW h \in Handlers, Count(h) PROVE FlightInvAt(a)'
    BY <1>10, <1>13 DEF Count, Flight, TypeOK
  <1>14. ASSUME NEW h \in Handlers, CountError(h) PROVE FlightInvAt(a)'
    BY <1>10, <1>14 DEF CountError, AfterCountError, Flight, TypeOK
  <1>15. ASSUME NEW h \in Handlers, Create(h) PROVE FlightInvAt(a)'
    BY <1>10, <1>15 DEF Create, Flight, TypeOK
  <1>16. ASSUME NEW h \in Handlers, RightPassword(h) PROVE FlightInvAt(a)'
    BY <1>10, <1>16 DEF RightPassword, Flight, TypeOK
  <1>17. ASSUME NEW h \in Handlers, Abort(h) PROVE FlightInvAt(a)'
    BY <1>10, <1>17 DEF Abort, Flight, TypeOK
  <1>18. CASE UNCHANGED vars
    BY <1>10, <1>18 DEF vars, Flight
  <1>19. QED
    BY <1>4, <1>6, <1>7, <1>8, <1>9, <1>11, <1>12, <1>13, <1>14, <1>15, <1>16,
       <1>17, <1>18 DEF Next

-----------------------------------------------------------------------------
(* The theorems.                                                           *)

\* The initial state satisfies the inductive invariant.
LEMMA InitInv == Init => IInv
  <1> SUFFICES ASSUME Init PROVE IInv
    OBVIOUS
  <1>1. TypeOK
    BY InitType
  <1>2. BootstrapInv
    BY DEF Init, BootstrapInv, AdminExists, LatecomersAreUsers, Users
  <1>3. LockInv
    BY LimitAssumption DEF Init, LockInv, LockInvAt
  <1>4. FlightInv
    <2> SUFFICES ASSUME NEW e \in Emails PROVE FlightInvAt(e)
      BY DEF FlightInv
    <2>1. Flight(e) = {}
      BY DEF Init, Flight
    <2>2. Cardinality(Flight(e)) = 0
      BY <2>1, FS_EmptySet
    <2>3. guesses[e] = 0 /\ lost[e] = 0
      BY DEF Init
    <2>4. QED
      BY <2>2, <2>3, FlightBound, LimitAssumption DEF FlightInvAt
  <1>5. QED
    BY <1>1, <1>2, <1>3, <1>4 DEF IInv

\* The inductive invariant holds in every reachable state.
THEOREM Invariance == Spec => []IInv
  <1>1. IInv /\ [Next]_vars => IInv'
    BY NextType, NextBootstrap, NextLock, NextFlight DEF IInv
  <1>2. QED
    BY InitInv, <1>1, PTL DEF Spec

\* All variables keep their types.
THEOREM TypeCorrect == Spec => []TypeOK
  BY Invariance, PTL DEF IInv

\* Once there are users one of them is an admin.
THEOREM Bootstrap == Spec => []AdminExists
  BY Invariance, PTL DEF IInv, BootstrapInv

\* Registrations that begin when there is a user create plain users, for any
\* number of registrations between Count and Create at the same time.
THEOREM NoSecondBootstrap == Spec => []LatecomersAreUsers
  BY Invariance, PTL DEF IInv, BootstrapInv

\* An account at the limit has been locked.
THEOREM LockSet == Spec => []LockedAtLimit
  <1>1. IInv => LockedAtLimit
    BY LimitAssumption DEF IInv, LockInv, LockInvAt, LockedAtLimit, TypeOK
  <1>2. QED
    BY Invariance, <1>1, PTL

\* The lockout bounds the wrong passwords between two unlockings, for any
\* number of concurrent logins.
THEOREM LockoutWorks == Spec => []GuessesBounded
  <1>1. IInv => GuessesBounded
    <2> SUFFICES ASSUME IInv, NEW e \in Emails
                 PROVE  guesses[e] <= (MaxFailed - 1) + Cardinality(Handlers) + lost[e]
      BY DEF GuessesBounded
    <2>1. FlightInvAt(e) /\ guesses[e] \in Nat /\ lost[e] \in Nat
      BY DEF IInv, FlightInv, TypeOK
    <2>2. QED
      BY <2>1, FlightBound, LimitAssumption DEF FlightInvAt
  <1>2. QED
    BY Invariance, <1>1, PTL

-----------------------------------------------------------------------------
(***************************************************************************)
(* Proofs about AuthSessions, for any sessions, handlers and number of     *)
(* requests: a mass revocation reaches every session a client can use, and *)
(* neither a revocation nor a logout is undone by a request that raced it. *)
(*                                                                         *)
(* The argument: only CreateSet makes a session usable, and the login that *)
(* runs it is the only request about its session until it has answered.    *)
(* It rests on the hash that Marshal drops: a stored session never matches *)
(* a token, so no refresh gets to CreateSet.                               *)
(***************************************************************************)

\* The sessions whose token was handed out.
Known == {t[1] : t \in issued}

\* No stored hash is that of a token.
HashInv ==
  /\ \A s \in Sessions : session[s].hash = 0
  /\ \A t \in issued : t[2] # 0
  /\ \A h \in Callers : token[h][2] # 0

Creating(h) == step[h] \in {"set", "add"}

\* A session is created by one login, whose token nobody has yet; every other
\* request is about a session whose token was handed out.
CreatorInv ==
  /\ Known \subseteq used
  /\ \A h \in Callers : Creating(h) => token[h][1] \in used \ Known
  /\ \A g, h \in Callers :
       Creating(g) /\ Creating(h) /\ token[g][1] = token[h][1] => g = h
  /\ \A h \in Callers :
       step[h] \in {"get", "members", "del", "delfamily", "getlogout", "setlogout"}
         => token[h][1] \in Known

\* The family key is deleted after its session.
DeleteOrder == \A h \in Callers : step[h] = "delfamily" => ~Usable(token[h][1])

\* Revocations and logouts are of sessions that were handed out.
HistoryInv == contained \cup loggedOut \subseteq Known

Finality == UsableIsListed /\ RevocationIsFinal /\ LogoutIsFinal

SessionInv == SessionTypeOK /\ HashInv /\ CreatorInv /\ DeleteOrder /\ HistoryInv /\ Finality

-----------------------------------------------------------------------------
\* What is stored of a session.
LEMMA Stored ==
  /\ NoSession \in Record /\ NoSession.status = "none" /\ NoSession.hash = 0
  /\ \A n \in Nat : Marshal(Active(n)) \in Record /\ Marshal(Active(n)).hash = 0
  /\ \A r \in Record : /\ Marshal(Revoked(r)) \in Record
                       /\ Marshal(Revoked(r)).hash = 0
                       /\ Marshal(Revoked(r)).status = "revoked"
<1>1. NoSession \in Record /\ NoSession.status = "none" /\ NoSession.hash = 0
  BY DEF NoSession, Record
<1>2. \A n \in Nat : Active(n) \in Record
  BY DEF Active, Record
<1>3. \A r \in Record : Marshal(r) \in Record /\ Marshal(r).hash = 0
                        /\ Marshal(r).status = r.status
  BY DEF Marshal, Record
<1>4. \A r \in Record : Revoked(r) \in Record /\ Revoked(r).status = "revoked"
  BY DEF Revoked, Record
<1> QED BY <1>1, <1>2, <1>3, <1>4

\* The initial state: no session, no request.
LEMMA InitOK == SessionInit => SessionInv
<1> SUFFICES ASSUME SessionInit PROVE SessionInv
  OBVIOUS
<1>1. SessionTypeOK
  BY Stored DEF SessionInit, SessionTypeOK, Token
<1>2. HashInv
  BY Stored DEF SessionInit, HashInv
<1>3. CreatorInv /\ DeleteOrder
  BY DEF SessionInit, CreatorInv, Known, Creating, DeleteOrder
<1>4. HistoryInv /\ Finality
  BY DEF SessionInit, HistoryInv, Finality, UsableIsListed, RevocationIsFinal, LogoutIsFinal
<1> QED BY <1>1, <1>2, <1>3, <1>4 DEF SessionInv

\* A step that makes no session usable, hands out no token and takes no session
\* off its family before the last second keeps what was final.
LEMMA FinalStays ==
  ASSUME Finality, HistoryInv, SessionTypeOK, UNCHANGED issued,
         \A s \in Sessions : Usable(s)' => Usable(s),
         \A s \in Known : Usable(s)' /\ s \in family => s \in family' \cup fading',
         fading \subseteq fading',
         \A s \in contained' : s \in contained \/ (s \in Known /\ (Usable(s)' => s \in fading')),
         \A s \in loggedOut' : s \in loggedOut \/ (s \in Known /\ ~Usable(s)')
  PROVE  Finality' /\ HistoryInv'
<1>1. UsableIsListed'
  BY DEF Finality, UsableIsListed, SessionTypeOK, Token, Known
<1>2. RevocationIsFinal' /\ LogoutIsFinal'
  BY DEF Finality, RevocationIsFinal, LogoutIsFinal, SessionTypeOK
<1>3. HistoryInv'
  BY DEF HistoryInv, Known
<1> QED BY <1>1, <1>2, <1>3 DEF Finality

\* A handler goes on to another label of the same kind of request, or is done.
LEMMA CreatorStays ==
  ASSUME CreatorInv, SessionTypeOK, NEW h \in Callers, NEW label, CallerAt(h, label),
         UNCHANGED <<issued, token, used>>,
         \/ label = "idle"
         \/ step[h] = "set" /\ label = "add"
         \/ /\ step[h] \in {"get", "members", "del", "delfamily", "getlogout", "setlogout"}
            /\ label \notin {"set", "add"}
  PROVE  CreatorInv'
<1>1. \A g \in Callers : step'[g] = IF g = h THEN label ELSE step[g]
  BY DEF CallerAt, SessionTypeOK
<1>2. Known' = Known
  BY DEF Known
<1> QED BY <1>1, <1>2 DEF CreatorInv, Creating

\* A request begins, about a session that nobody has or one that was handed out.
LEMMA BeginOK ==
  ASSUME SessionInv, NEW h \in Callers, NEW t \in Token, t[2] # 0, NEW label,
         \/ label = "set" /\ t[1] \notin used /\ used' = used \cup {t[1]}
         \/ label \in {"get", "getlogout"} /\ t[1] \in Known /\ used' = used,
         BeginCall(h, t, label),
         UNCHANGED <<session, family, fading, issued, copy, reused, contained, loggedOut>>
  PROVE  SessionInv'
<1> USE DEF SessionInv
<1>1. /\ calls' = calls + 1
      /\ token' = [token EXCEPT ![h] = t] /\ step' = [step EXCEPT ![h] = label]
  BY DEF BeginCall, CallerAt
<1>2. \A g \in Callers : /\ token'[g] = IF g = h THEN t ELSE token[g]
                         /\ step'[g] = IF g = h THEN label ELSE step[g]
  BY <1>1 DEF SessionTypeOK
<1>3. SessionTypeOK'
  BY <1>1, <1>2 DEF SessionTypeOK, Token
<1>4. HashInv' /\ DeleteOrder'
  BY <1>2 DEF HashInv, DeleteOrder, Usable
<1>5. CreatorInv'
  <2>1. Known' = Known
    BY DEF Known
  <2> QED BY <1>2, <2>1 DEF CreatorInv, Creating
<1>6. Finality' /\ HistoryInv'
  BY FinalStays DEF Usable
<1> QED BY <1>3, <1>4, <1>5, <1>6

\* SET session:s by the login that owns it.
LEMMA CreateSetOK == ASSUME SessionInv, NEW h \in Callers, CreateSet(h) PROVE SessionInv'
<1> USE DEF SessionInv
<1> DEFINE s == token[h][1]
           r == Marshal(Active(token[h][2]))
<1>1. /\ step[h] = "set" /\ CallerAt(h, "add")
      /\ session' = [session EXCEPT ![s] = r]
      /\ UNCHANGED <<family, fading, used, issued, token, copy, calls, reused,
                     contained, loggedOut>>
  BY DEF CreateSet, sessionHistory
<1>2. s \in Sessions /\ r \in Record /\ r.hash = 0
  BY Stored DEF SessionTypeOK, Token
<1>3. s \notin Known
  BY <1>1 DEF CreatorInv, Creating
<1> HIDE DEF r
<1>4. \A q \in Sessions : session'[q] = IF q = s THEN r ELSE session[q]
  BY <1>1 DEF SessionTypeOK
<1>5. SessionTypeOK'
  BY <1>1, <1>2 DEF SessionTypeOK, CallerAt
<1>6. HashInv'
  BY <1>1, <1>2, <1>4 DEF HashInv
<1>7. CreatorInv'
  BY <1>1, CreatorStays
<1>8. \A q \in Known : Usable(q)' <=> Usable(q)
  BY <1>3, <1>4 DEF Usable, SessionTypeOK, Token, Known
<1>9. DeleteOrder'
  BY <1>1, <1>8 DEF DeleteOrder, CreatorInv, CallerAt, SessionTypeOK, Usable
<1>10. HistoryInv' /\ UsableIsListed'
  BY <1>1, <1>8 DEF HistoryInv, Finality, UsableIsListed, Known
<1>11. RevocationIsFinal' /\ LogoutIsFinal'
  BY <1>1, <1>8 DEF HistoryInv, Finality, RevocationIsFinal, LogoutIsFinal
<1> QED BY <1>5, <1>6, <1>7, <1>9, <1>10, <1>11 DEF Finality

\* The family lists the session before its token is handed out.
LEMMA CreateAddOK == ASSUME SessionInv, NEW h \in Callers, CreateAdd(h) PROVE SessionInv'
<1> USE DEF SessionInv
<1> DEFINE s == token[h][1]
<1>1. /\ step[h] = "add" /\ step' = [step EXCEPT ![h] = "idle"]
      /\ family' = family \cup {s} /\ issued' = issued \cup {token[h]}
      /\ UNCHANGED <<session, fading, used, token, copy, calls, reused, contained,
                     loggedOut>>
  BY DEF CreateAdd, sessionHistory, CallerAt
<1>2. s \in Sessions /\ token[h] \in Token
  BY DEF SessionTypeOK, Token
<1>3. Known' = Known \cup {s}
  BY <1>1 DEF Known
<1>4. \A g \in Callers : step'[g] = IF g = h THEN "idle" ELSE step[g]
  BY <1>1 DEF SessionTypeOK
<1>5. SessionTypeOK'
  BY <1>1, <1>2 DEF SessionTypeOK
<1>6. HashInv' /\ DeleteOrder'
  BY <1>1, <1>4 DEF HashInv, DeleteOrder, Usable
<1>7. CreatorInv'
  BY <1>1, <1>3, <1>4 DEF CreatorInv, Creating
<1>8. HistoryInv' /\ UsableIsListed'
  BY <1>1, <1>3 DEF HistoryInv, Finality, UsableIsListed, Usable
<1>9. RevocationIsFinal' /\ LogoutIsFinal'
  BY <1>1 DEF Finality, RevocationIsFinal, LogoutIsFinal, Usable
<1> QED BY <1>5, <1>6, <1>7, <1>8, <1>9 DEF Finality

\* No stored hash matches, so a refresh of a usable session goes on to revoke it.
LEMMA RefreshGetOK == ASSUME SessionInv, NEW h \in Callers, RefreshGet(h) PROVE SessionInv'
<1> USE DEF SessionInv
<1>1. token[h] \in Token /\ token[h][1] \in Sessions /\ token[h][2] # 0
      /\ session[token[h][1]].hash = 0 /\ <<token[h][1], token[h][2]>> \in Token
  BY DEF SessionTypeOK, Token, HashInv
<1>2. /\ step[h] = "get" /\ (CallerAt(h, "idle") \/ CallerAt(h, "members"))
      /\ reused' \in {reused, reused \cup {<<token[h][1], token[h][2]>>}}
      /\ UNCHANGED <<session, family, fading, used, issued, token, copy, calls,
                     contained, loggedOut>>
  BY <1>1 DEF RefreshGet, redisVars
<1>3. SessionTypeOK'
  BY <1>1, <1>2 DEF SessionTypeOK, CallerAt
<1>4. HashInv' /\ DeleteOrder'
  BY <1>2 DEF HashInv, DeleteOrder, Usable, CallerAt, SessionTypeOK
<1>5. CreatorInv'
  BY <1>2, CreatorStays
<1>6. Finality' /\ HistoryInv'
  BY <1>2, FinalStays DEF Usable
<1> QED BY <1>3, <1>4, <1>5, <1>6

\* An empty family: by UsableIsListed its session is not usable, or fading.
LEMMA RevokeMembersOK == ASSUME SessionInv, NEW h \in Callers, RevokeMembers(h) PROVE SessionInv'
<1> USE DEF SessionInv
<1> DEFINE s == token[h][1]
<1>1. s \in Sessions /\ s \in Known
  BY DEF RevokeMembers, SessionTypeOK, Token, CreatorInv
<1>2. /\ step[h] = "members"
      /\ \/ CallerAt(h, "del") /\ UNCHANGED contained
         \/ CallerAt(h, "idle") /\ s \notin family /\ contained' = contained \cup {s}
      /\ UNCHANGED <<session, family, fading, used, issued, token, copy, calls,
                     reused, loggedOut>>
  BY DEF RevokeMembers, redisVars
<1>3. s \notin family /\ Usable(s) => s \in fading
  BY <1>1 DEF Finality, UsableIsListed, Known
<1>4. SessionTypeOK'
  BY <1>1, <1>2 DEF SessionTypeOK, CallerAt
<1>5. HashInv' /\ DeleteOrder'
  BY <1>2 DEF HashInv, DeleteOrder, Usable, CallerAt, SessionTypeOK
<1>6. CreatorInv'
  BY <1>2, CreatorStays
<1>7. Finality' /\ HistoryInv'
  BY <1>1, <1>2, <1>3, FinalStays DEF Usable
<1> QED BY <1>4, <1>5, <1>6, <1>7

\* A session is replaced by a value that is not usable.
LEMMA NotUsableOK ==
  ASSUME SessionInv, NEW s \in Sessions, NEW r \in Record, r.status # "active", r.hash = 0,
         session' = [session EXCEPT ![s] = r]
  PROVE  /\ session' \in [Sessions -> Record]
         /\ \A q \in Sessions : session'[q].hash = 0
         /\ ~Usable(s)'
         /\ \A q \in Sessions : Usable(q)' => Usable(q)
BY DEF SessionInv, SessionTypeOK, HashInv, Usable

\* DEL of the session: it is not usable afterwards, and its family still lists it.
LEMMA RevokeDelOK == ASSUME SessionInv, NEW h \in Callers, RevokeDel(h) PROVE SessionInv'
<1> USE DEF SessionInv
<1>1. /\ step[h] = "del" /\ CallerAt(h, "delfamily")
      /\ session' = [session EXCEPT ![token[h][1]] = NoSession]
      /\ UNCHANGED <<family, fading, used, issued, token, copy, calls, reused,
                     contained, loggedOut>>
  BY DEF RevokeDel, DeleteSessions, sessionHistory
<1>2. token[h][1] \in Sessions
  BY DEF SessionTypeOK, Token
<1>3. /\ session' \in [Sessions -> Record]
      /\ \A q \in Sessions : session'[q].hash = 0
      /\ ~Usable(token[h][1])'
      /\ \A q \in Sessions : Usable(q)' => Usable(q)
  BY <1>1, <1>2, Stored, NotUsableOK
<1>4. SessionTypeOK'
  BY <1>1, <1>3 DEF SessionTypeOK, CallerAt
<1>5. HashInv'
  BY <1>1, <1>3 DEF HashInv
<1>6. DeleteOrder'
  <2>1. \A g \in Callers : step'[g] = "delfamily" =>
          g = h \/ ~Usable(token[g][1])
    BY <1>1 DEF DeleteOrder, CallerAt, SessionTypeOK
  <2>2. \A g \in Callers : token[g][1] \in Sessions
    BY DEF SessionTypeOK, Token
  <2> QED BY <1>1, <1>3, <2>1, <2>2 DEF DeleteOrder, Usable
<1>7. CreatorInv'
  BY <1>1, CreatorStays
<1>8. Finality' /\ HistoryInv'
  BY <1>1, <1>3, FinalStays DEF Finality
<1> QED BY <1>4, <1>5, <1>6, <1>7, <1>8

\* The family key goes last: its session is not usable any more, and nothing but
\* its login could have made it so.
LEMMA RevokeDelFamilyOK ==
  ASSUME SessionInv, NEW h \in Callers, RevokeDelFamily(h) PROVE SessionInv'
<1> USE DEF SessionInv
<1> DEFINE s == token[h][1]
<1>1. /\ step[h] = "delfamily" /\ CallerAt(h, "idle")
      /\ family' = family \ {s} /\ contained' = contained \cup {s}
      /\ UNCHANGED <<session, fading, used, issued, token, copy, calls, reused,
                     loggedOut>>
  BY DEF RevokeDelFamily
<1>2. s \in Sessions /\ s \in Known /\ ~Usable(s)
  BY <1>1 DEF SessionTypeOK, Token, CreatorInv, DeleteOrder
<1>3. SessionTypeOK'
  BY <1>1, <1>2 DEF SessionTypeOK, CallerAt
<1>4. HashInv' /\ DeleteOrder'
  BY <1>1 DEF HashInv, DeleteOrder, Usable, CallerAt, SessionTypeOK
<1>5. CreatorInv'
  BY <1>1, CreatorStays
<1>6. Finality' /\ HistoryInv'
  BY <1>1, <1>2, FinalStays DEF Usable
<1> QED BY <1>3, <1>4, <1>5, <1>6

\* A logout reads the session; a missing one ends it.
LEMMA LogoutGetOK == ASSUME SessionInv, NEW h \in Callers, LogoutGet(h) PROVE SessionInv'
<1> USE DEF SessionInv
<1> DEFINE s == token[h][1]
<1>1. s \in Sessions /\ session[s] \in Record
  BY DEF SessionTypeOK, Token
<1>2. /\ step[h] = "getlogout"
      /\ \/ CallerAt(h, "idle") /\ UNCHANGED copy
         \/ /\ CallerAt(h, "setlogout") /\ session[s].status # "none"
            /\ copy' = [copy EXCEPT ![h] = session[s]]
      /\ UNCHANGED <<session, family, fading, used, issued, token, calls, reused,
                     contained, loggedOut>>
  BY DEF LogoutGet, Missing, redisVars, sessionHistory
<1>3. session[s].status # "none" => session[s] # NoSession
  BY Stored
<1>4. SessionTypeOK'
  BY <1>1, <1>2, <1>3 DEF SessionTypeOK, CallerAt
<1>5. HashInv' /\ DeleteOrder'
  BY <1>2 DEF HashInv, DeleteOrder, Usable, CallerAt, SessionTypeOK
<1>6. CreatorInv'
  BY <1>2, CreatorStays
<1>7. Finality' /\ HistoryInv'
  BY <1>2, FinalStays DEF Usable
<1> QED BY <1>4, <1>5, <1>6, <1>7

\* A logout writes back what it read, but revoked: it may bring a deleted session
\* back, never a usable one.
LEMMA LogoutSetOK == ASSUME SessionInv, NEW h \in Callers, LogoutSet(h) PROVE SessionInv'
<1> USE DEF SessionInv
<1> DEFINE s == token[h][1]
<1>1. /\ step[h] = "setlogout" /\ CallerAt(h, "idle")
      /\ \/ session' = [session EXCEPT ![s] = Marshal(Revoked(copy[h]))]
         \/ session' = [session EXCEPT ![s] = NoSession]
      /\ loggedOut' = loggedOut \cup {s}
      /\ UNCHANGED <<family, fading, used, issued, token, copy, calls, reused,
                     contained>>
  BY DEF LogoutSet
<1>2. s \in Sessions /\ s \in Known /\ copy[h] \in Record
  BY <1>1 DEF SessionTypeOK, Token, CreatorInv
<1>3. /\ session' \in [Sessions -> Record]
      /\ \A q \in Sessions : session'[q].hash = 0
      /\ ~Usable(s)'
      /\ \A q \in Sessions : Usable(q)' => Usable(q)
  BY <1>1, <1>2, Stored, NotUsableOK
<1>4. SessionTypeOK'
  BY <1>1, <1>2, <1>3 DEF SessionTypeOK, CallerAt
<1>5. HashInv'
  BY <1>1, <1>3 DEF HashInv
<1>6. DeleteOrder'
  <2>1. \A g \in Callers : step'[g] = "delfamily" => ~Usable(token[g][1])
    BY <1>1 DEF DeleteOrder, CallerAt, SessionTypeOK
  <2>2. \A g \in Callers : token[g][1] \in Sessions
    BY DEF SessionTypeOK, Token
  <2> QED BY <1>1, <1>3, <2>1, <2>2 DEF DeleteOrder, Usable
<1>7. CreatorInv'
  BY <1>1, CreatorStays
<1>8. Finality' /\ HistoryInv'
  BY <1>1, <1>2, <1>3, FinalStays
<1> QED BY <1>4, <1>5, <1>6, <1>7, <1>8

\* A request ends between two commands.
LEMMA AbortOK == ASSUME SessionInv, NEW h \in Callers, CallAborts(h) PROVE SessionInv'
<1> USE DEF SessionInv
<1>1. /\ CallerAt(h, "idle")
      /\ UNCHANGED <<session, family, fading, used, issued, token, copy, calls,
                     reused, contained, loggedOut>>
  BY DEF CallAborts, redisVars, sessionHistory
<1>2. SessionTypeOK'
  BY <1>1 DEF SessionTypeOK, CallerAt
<1>3. HashInv' /\ DeleteOrder'
  BY <1>1 DEF HashInv, DeleteOrder, Usable, CallerAt, SessionTypeOK
<1>4. CreatorInv'
  BY <1>1, CreatorStays
<1>5. Finality' /\ HistoryInv'
  BY <1>1, FinalStays DEF Usable
<1> QED BY <1>2, <1>3, <1>4, <1>5

\* The keys expire, that of the family first.
LEMMA ExpiryOK ==
  ASSUME SessionInv, NEW s \in Sessions, FamilyExpires(s) \/ SessionExpires(s) PROVE SessionInv'
<1> USE DEF SessionInv
<1>1. UNCHANGED <<used, issued, step, token, copy, calls, reused, contained, loggedOut>>
  BY DEF FamilyExpires, SessionExpires, callerVars, sessionHistory
<1>2. CreatorInv'
  BY <1>1 DEF CreatorInv, Creating, Known
<1>3. CASE FamilyExpires(s)
  <2>1. /\ family' = family \ {s} /\ fading' = fading \cup {s} /\ UNCHANGED session
    BY <1>3 DEF FamilyExpires
  <2>2. SessionTypeOK'
    BY <1>1, <2>1 DEF SessionTypeOK
  <2>3. HashInv' /\ DeleteOrder'
    BY <1>1, <2>1 DEF HashInv, DeleteOrder, Usable
  <2>4. Finality' /\ HistoryInv'
    BY <1>1, <2>1, FinalStays DEF Usable
  <2> QED BY <1>2, <2>2, <2>3, <2>4
<1>4. CASE SessionExpires(s)
  <2>1. session' = [session EXCEPT ![s] = NoSession] /\ UNCHANGED <<family, fading>>
    BY <1>4 DEF SessionExpires
  <2>2. /\ session' \in [Sessions -> Record]
        /\ \A q \in Sessions : session'[q].hash = 0
        /\ \A q \in Sessions : Usable(q)' => Usable(q)
    BY <2>1, Stored, NotUsableOK
  <2>3. SessionTypeOK'
    BY <1>1, <2>1, <2>2 DEF SessionTypeOK
  <2>4. HashInv'
    BY <1>1, <2>2 DEF HashInv
  <2>5. DeleteOrder'
    <3>1. \A g \in Callers : token[g][1] \in Sessions
      BY DEF SessionTypeOK, Token
    <3> QED BY <1>1, <2>2, <3>1 DEF DeleteOrder, Usable
  <2>6. Finality' /\ HistoryInv'
    BY <1>1, <2>1, <2>2, FinalStays
  <2> QED BY <1>2, <2>3, <2>4, <2>5, <2>6
<1> QED BY <1>3, <1>4

-----------------------------------------------------------------------------
\* Every step keeps the invariant.
LEMMA StepOK == SessionInv /\ [SessionNext]_sessionVars => SessionInv'
<1> SUFFICES ASSUME SessionInv, [SessionNext]_sessionVars PROVE SessionInv'
  OBVIOUS
<1>1. CASE UNCHANGED sessionVars
  BY <1>1 DEF sessionVars, redisVars, callerVars, sessionHistory, SessionInv, SessionTypeOK, HashInv, CreatorInv,
     Creating, Known, DeleteOrder, HistoryInv, Finality, UsableIsListed, RevocationIsFinal,
     LogoutIsFinal, Usable
<1>2. ASSUME NEW h \in Callers, NEW s \in Sessions, LoginSession(h, s) PROVE SessionInv'
  <2>1. <<s, 1>> \in Token /\ <<s, 1>>[1] = s /\ <<s, 1>>[2] = 1
    BY DEF Token
  <2>2. /\ s \notin used /\ used' = used \cup {s} /\ BeginCall(h, <<s, 1>>, "set")
        /\ UNCHANGED <<session, family, fading, issued, copy, reused, contained, loggedOut>>
    BY <1>2 DEF LoginSession, redisVars, sessionHistory
  <2> QED BY <2>1, <2>2, BeginOK
<1>3. ASSUME NEW h \in Callers, NEW s \in Sessions, Logout(h, s) PROVE SessionInv'
  <2>1. <<s, 1>> \in Token /\ <<s, 1>>[1] = s /\ <<s, 1>>[2] = 1
    BY DEF Token
  <2>2. /\ s \in Known /\ BeginCall(h, <<s, 1>>, "getlogout") /\ used' = used
        /\ UNCHANGED <<session, family, fading, issued, copy, reused, contained, loggedOut>>
    BY <1>3 DEF Logout, Known, redisVars, sessionHistory
  <2> QED BY <2>1, <2>2, BeginOK
<1>4. ASSUME NEW h \in Callers, NEW t \in issued, Refresh(h, t) PROVE SessionInv'
  <2>1. t \in Token /\ t[2] # 0 /\ t[1] \in Known
    BY DEF SessionInv, SessionTypeOK, HashInv, Known
  <2>2. /\ BeginCall(h, t, "get") /\ used' = used
        /\ UNCHANGED <<session, family, fading, issued, copy, reused, contained, loggedOut>>
    BY <1>4 DEF Refresh, redisVars, sessionHistory
  <2> QED BY <2>1, <2>2, BeginOK
<1> QED
  BY <1>1, <1>2, <1>3, <1>4, CreateSetOK, CreateAddOK, RefreshGetOK, RevokeMembersOK,
     RevokeDelOK, RevokeDelFamilyOK, LogoutGetOK, LogoutSetOK, AbortOK, ExpiryOK DEF SessionNext

\* The inductive invariant of sessions.
THEOREM SessionInvariance == SessionSpec => []SessionInv
BY InitOK, StepOK, PTL DEF SessionSpec

\* Mass revocation reaches every session a client can use.
THEOREM RevocationReaches == SessionSpec => []UsableIsListed
<1>1. SessionInv => UsableIsListed
  BY DEF SessionInv, Finality
<1> QED BY <1>1, SessionInvariance, PTL

\* A revocation that ran through is not undone.
THEOREM RevocationHolds == SessionSpec => []RevocationIsFinal
<1>1. SessionInv => RevocationIsFinal
  BY DEF SessionInv, Finality
<1> QED BY <1>1, SessionInvariance, PTL

\* A logout that was answered is not undone.
THEOREM LogoutHolds == SessionSpec => []LogoutIsFinal
<1>1. SessionInv => LogoutIsFinal
  BY DEF SessionInv, Finality
<1> QED BY <1>1, SessionInvariance, PTL

-----------------------------------------------------------------------------
(* The service.                                                            *)

\* Every behaviour of the service is one of the accounts and one of the sessions,
\* so all the theorems above are about the service.
THEOREM Composition == AuthSpec => Spec /\ SessionSpec
<1>1. AuthInit => Init /\ SessionInit
  BY DEF AuthInit
<1>2. [AuthNext]_authVars => [Next]_vars
  BY DEF AuthNext, authVars
<1>3. [AuthNext]_authVars => [SessionNext]_sessionVars
  BY DEF AuthNext, authVars
<1> QED BY <1>1, <1>2, <1>3, PTL DEF AuthSpec, Spec, SessionSpec

=============================================================================
