---------------------------- MODULE AuthSessions ----------------------------
(***************************************************************************)
(* auth-service: sessions in Redis.  Login creates a session in a family   *)
(* of its own and hands out a refresh token; Refresh compares the token    *)
(* presented with the hash in the session, rotates it on a match and       *)
(* revokes the family on a mismatch; Logout marks the session revoked.     *)
(* Each request runs in a goroutine of its own and talks to Redis in       *)
(* separate commands (SessionRedis uses plain pipelines, not MULTI).       *)
(*                                                                         *)
(* The n-th refresh token of session s is <<s, n>>; its hash is n, and 0   *)
(* stands for the empty string.  A family holds one session, so it is      *)
(* named by it.                                                            *)
(***************************************************************************)
EXTENDS Naturals

CONSTANTS
  Sessions,     \* session ids, each used by one login
  Callers,      \* request goroutines
  MaxCalls      \* bound: requests served

ASSUME BoundAssumption == MaxCalls \in Nat

VARIABLES
  session,    \* session[s]: the value of key session:s
  family,     \* sessions in the set at key family:f of their family
  fading,     \* sessions in the last second of their life: the family key,
              \* whose TTL is cut to whole seconds, is gone already
  used,       \* session ids taken by a login
  issued,     \* refresh tokens sent to a client
  step,       \* control state of a handler
  token,      \* the token of its request (a login's and logout's session)
  copy,       \* the session a handler has read
  calls,      \* requests so far
  reused,     \* history: tokens answered with ErrRefreshReuse
  contained,  \* history: sessions whose family was revoked without an error
  loggedOut   \* history: sessions whose logout was answered 204

redisVars      == <<session, family, fading>>
callerVars     == <<step, token, copy, calls>>
sessionHistory == <<reused, contained, loggedOut>>
sessionVars    == <<redisVars, used, issued, callerVars, sessionHistory>>

Token  == Sessions \X Nat
Record == [status : {"none", "active", "revoked"}, hash : Nat]

\* The key session:s does not exist.
NoSession == [status |-> "none", hash |-> 0]

Active(n) == [status |-> "active", hash |-> n]

SessionInit ==
  /\ session = [s \in Sessions |-> NoSession]
  /\ family = {}
  /\ fading = {}
  /\ used = {}
  /\ issued = {}
  /\ step = [h \in Callers |-> "idle"]
  /\ token \in [Callers -> Sessions \X {1}]
  /\ copy = [h \in Callers |-> NoSession]
  /\ calls = 0
  /\ reused = {}
  /\ contained = {}
  /\ loggedOut = {}

CallerAt(h, label) == step' = [step EXCEPT ![h] = label]

\* A handler takes a request about token t and goes to its first command.
BeginCall(h, t, label) ==
  /\ step[h] = "idle"
  /\ calls < MaxCalls
  /\ calls' = calls + 1
  /\ token' = [token EXCEPT ![h] = t]
  /\ CallerAt(h, label)

\* Seeded fault: IsRevoked is left out of the JSON as well.
MarshalUnrevoked(r) == [r EXCEPT !.hash = 0, !.status = "active"]

\* json.Marshal of a Session, as GetByID will read it back: the field
\* RefreshTokenHash is tagged json:"-" and is left out.
Marshal(r) == [r EXCEPT !.hash = 0]

\* The session is there, not revoked and not expired: Refresh goes on with it.
Usable(s) == session[s].status = "active"

\* A Redis error, a client that disconnects or a crash ends the request
\* between two commands.
CallAborts(h) ==
  /\ step[h] # "idle"
  /\ CallerAt(h, "idle")
  /\ UNCHANGED <<redisVars, used, issued, token, copy, calls, sessionHistory>>

-----------------------------------------------------------------------------
(* Login, from GenerateTokenPair on, and SessionRedis.Create.              *)

LoginSession(h, s) ==
  /\ s \notin used
  /\ used' = used \cup {s}
  /\ BeginCall(h, <<s, 1>>, "set")
  /\ UNCHANGED <<redisVars, issued, copy, sessionHistory>>

\* SET session:s, with the hash of the new token and not revoked.
CreateSet(h) ==
  /\ step[h] = "set"
  /\ LET t == token[h] IN
       session' = [session EXCEPT ![t[1]] = Marshal(Active(t[2]))]
  /\ CallerAt(h, "add")
  /\ UNCHANGED <<family, fading, used, issued, token, copy, calls, sessionHistory>>

\* SADD and EXPIRE of the family, and the answer with the token pair.
CreateAdd(h) ==
  /\ step[h] = "add"
  /\ family' = family \cup {token[h][1]}
  /\ issued' = issued \cup {token[h]}
  /\ CallerAt(h, "idle")
  /\ UNCHANGED <<session, fading, used, token, copy, calls, sessionHistory>>

-----------------------------------------------------------------------------
(* Refresh and SessionRedis.RevokeFamily.                                  *)

Refresh(h, t) ==
  /\ t \in issued
  /\ BeginCall(h, t, "get")
  /\ UNCHANGED <<redisVars, used, issued, copy, sessionHistory>>

\* GetByID and the comparison of the hashes.  On a match Refresh looks the user
\* up (a missing or inactive one ends the request: Abort), generates the next
\* token and writes the session back with Create; because of Marshal no stored
\* session has a hash, so this branch is never taken.
RefreshGet(h) ==
  /\ step[h] = "get"
  /\ LET s == token[h][1]
         n == token[h][2]
     IN  IF ~Usable(s)
         THEN CallerAt(h, "idle") /\ UNCHANGED <<token, reused>>
         ELSE IF session[s].hash = n
         THEN /\ token' = [token EXCEPT ![h] = <<s, n + 1>>]
              /\ CallerAt(h, "set")
              /\ UNCHANGED reused
         ELSE /\ reused' = reused \cup {<<s, n>>}
              /\ CallerAt(h, "members")
              /\ UNCHANGED token
  /\ UNCHANGED <<redisVars, used, issued, copy, calls, contained, loggedOut>>

\* SMEMBERS of the family; an empty one ends RevokeFamily.
RevokeMembers(h) ==
  /\ step[h] = "members"
  /\ LET s == token[h][1] IN
       IF s \in family THEN CallerAt(h, "del") /\ UNCHANGED contained
       ELSE CallerAt(h, "idle") /\ contained' = contained \cup {s}
  /\ UNCHANGED <<redisVars, used, issued, token, copy, calls, reused, loggedOut>>

\* Seeded fault: the family key is deleted before its sessions.
FamilyKeyFirst(s) ==
  family' = family \ {s} /\ UNCHANGED session

\* DEL of the sessions that SMEMBERS named.
DeleteSessions(s) ==
  session' = [session EXCEPT ![s] = NoSession] /\ UNCHANGED family

RevokeDel(h) ==
  /\ step[h] = "del"
  /\ DeleteSessions(token[h][1])
  /\ CallerAt(h, "delfamily")
  /\ UNCHANGED <<fading, used, issued, token, copy, calls, sessionHistory>>

\* DEL of the family key; Refresh answers 401.
RevokeDelFamily(h) ==
  /\ step[h] = "delfamily"
  /\ family' = family \ {token[h][1]}
  /\ contained' = contained \cup {token[h][1]}
  /\ CallerAt(h, "idle")
  /\ UNCHANGED <<session, fading, used, issued, token, copy, calls, reused,
                 loggedOut>>

-----------------------------------------------------------------------------
(* Logout: SessionRedis.RevokeByID.                                        *)

\* Logout needs an access token of the session.
Logout(h, s) ==
  /\ \E t \in issued : t[1] = s
  /\ BeginCall(h, <<s, 1>>, "getlogout")
  /\ UNCHANGED <<redisVars, used, issued, copy, sessionHistory>>

\* Seeded fault: a missing session is read as an empty one.
NeverMissing(s) == FALSE

\* redis.Nil: "session not found".
Missing(s) == session[s].status = "none"

\* GetByID; a missing session is an error (500).
LogoutGet(h) ==
  /\ step[h] = "getlogout"
  /\ LET s == token[h][1] IN
       IF Missing(s) THEN CallerAt(h, "idle") /\ UNCHANGED copy
       ELSE /\ copy' = [copy EXCEPT ![h] = session[s]]
            /\ CallerAt(h, "setlogout")
  /\ UNCHANGED <<redisVars, used, issued, token, calls, sessionHistory>>

\* Seeded fault: the session is written back as it was read.
WrittenBack(r) == r

\* session.IsRevoked = true.
Revoked(r) == [r EXCEPT !.status = "revoked"]

\* SET session:s with the revoked copy for the rest of its life, or DEL when
\* nothing is left of it; the answer is 204.
LogoutSet(h) ==
  /\ step[h] = "setlogout"
  /\ LET s == token[h][1] IN
       /\ \/ session' = [session EXCEPT ![s] = Marshal(Revoked(copy[h]))]
          \/ s \in fading /\ session' = [session EXCEPT ![s] = NoSession]
       /\ loggedOut' = loggedOut \cup {s}
  /\ CallerAt(h, "idle")
  /\ UNCHANGED <<family, fading, used, issued, token, copy, calls, reused,
                 contained>>

-----------------------------------------------------------------------------
(* Expiry of the Redis keys after refreshTTL.                              *)

FamilyExpires(s) ==
  /\ s \in used \ fading
  /\ family' = family \ {s}
  /\ fading' = fading \cup {s}
  /\ UNCHANGED <<session, used, issued, callerVars, sessionHistory>>

SessionExpires(s) ==
  /\ s \in fading
  /\ session[s].status # "none"
  /\ session' = [session EXCEPT ![s] = NoSession]
  /\ UNCHANGED <<family, fading, used, issued, callerVars, sessionHistory>>

-----------------------------------------------------------------------------
SessionNext ==
  \/ \E h \in Callers :
       \/ \E s \in Sessions : LoginSession(h, s) \/ Logout(h, s)
       \/ \E t \in issued : Refresh(h, t)
       \/ CreateSet(h) \/ CreateAdd(h)
       \/ RefreshGet(h) \/ RevokeMembers(h) \/ RevokeDel(h) \/ RevokeDelFamily(h)
       \/ LogoutGet(h) \/ LogoutSet(h)
       \/ CallAborts(h)
  \/ \E s \in Sessions : FamilyExpires(s) \/ SessionExpires(s)

SessionSpec == SessionInit /\ [][SessionNext]_sessionVars

-----------------------------------------------------------------------------
(* Properties.                                                             *)

SessionTypeOK ==
  /\ session \in [Sessions -> Record]
  /\ family \subseteq Sessions
  /\ fading \subseteq Sessions
  /\ used \subseteq Sessions
  /\ issued \subseteq Token
  /\ step \in [Callers -> {"idle", "set", "add", "get", "members", "del",
                          "delfamily", "getlogout", "setlogout"}]
  /\ token \in [Callers -> Token]
  /\ copy \in [Callers -> Record]
  /\ \A h \in Callers : step[h] = "setlogout" => copy[h] # NoSession
  /\ calls \in Nat
  /\ reused \subseteq Token
  /\ contained \subseteq Sessions
  /\ loggedOut \subseteq Sessions

\* Mass revocation reaches every session a client can use: as long as a session
\* whose token was handed out is usable, its family lists it (in its last
\* second it may outlive the family key).
UsableIsListed ==
  \A t \in issued : Usable(t[1]) => t[1] \in family \cup fading

\* A family revocation that ran through is final: no logout or other revocation
\* racing with it, which all write back what they read before, makes the
\* session usable again.
RevocationIsFinal == \A s \in contained : Usable(s) => s \in fading

\* A logout answered 204 is final in the same way.
LogoutIsFinal == \A s \in loggedOut : ~Usable(s)

\* README: "Refresh-token reuse revokes the entire token family (stolen-token
\* containment)": the answer ErrRefreshReuse is given for a token that a newer
\* one of the same session has replaced.
ReuseIsReuse ==
  \A t \in reused : \E u \in issued : u[1] = t[1] /\ u[2] > t[2]

=============================================================================
