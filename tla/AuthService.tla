----------------------------- MODULE AuthService ----------------------------
(***************************************************************************)
(* auth-service: the accounts in PostgreSQL (AuthAccounts) and the         *)
(* sessions in Redis (AuthSessions) behind one API.  No request has a step *)
(* in one store depend on what others did in the other: a login touches    *)
(* the sessions only after its last statement on the accounts, a logout    *)
(* only the sessions, and a refresh reads its user (GetByID) only after a  *)
(* hash has matched, which no stored session has.  The order of steps of   *)
(* different halves can therefore not be observed, and it is enough that a *)
(* behaviour follows the requests of one of them (half) while the other    *)
(* rests.                                                                  *)
(***************************************************************************)
EXTENDS AuthAccounts, AuthSessions

VARIABLE half  \* the half whose requests are followed

authVars == <<vars, sessionVars, half>>

\* What the idle handlers of the half that rests are about does not matter.
AuthInit ==
  /\ Init /\ SessionInit
  /\ half \in {"accounts", "sessions"}
  /\ half = "sessions" => email = [h \in Handlers |-> CHOOSE e \in Emails : TRUE]
  /\ half = "accounts" =>
       token = [h \in Callers |-> <<CHOOSE s \in Sessions : TRUE, 1>>]

AuthNext ==
  /\ UNCHANGED half
  /\ \/ half = "accounts" /\ Next /\ UNCHANGED sessionVars
     \/ half = "sessions" /\ SessionNext /\ UNCHANGED vars

AuthSpec == AuthInit /\ [][AuthNext]_authVars
=============================================================================
