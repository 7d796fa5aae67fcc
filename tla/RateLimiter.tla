----------------------------- MODULE RateLimiter -----------------------------
(***************************************************************************)
(* gateway: the sliding-window rate limiter.  For every request the        *)
(* RateLimit middleware calls Allow, which reads the clock and then runs   *)
(* one Redis transaction on the sorted set of the client: evict what is    *)
(* older than a window, add this request, count, set the expiry.  Requests *)
(* run concurrently, so transactions take effect out of the order of their *)
(* timestamps; answers get lost and go-redis sends the transaction again.  *)
(*                                                                         *)
(* The module is about one client, whose requests share a Redis key; other *)
(* clients have keys of their own.  A request is its own member of the set *)
(* (timestamp and UUID) with its timestamp as the score.                   *)
(***************************************************************************)
EXTENDS Integers, FiniteSets

CONSTANTS
  Requests,   \* the client's requests
  Limit,      \* RATE_LIMIT_REQUESTS
  Window,     \* the window (1 minute)
  MaxDelay,   \* bound: time between reading the clock and the transaction
  MaxTime     \* bound: time covered

ASSUME RequestsAssumption == IsFiniteSet(Requests)

ASSUME TimeAssumption ==
  /\ Limit \in Nat \ {0}
  /\ Window \in Nat \ {0}
  /\ MaxDelay \in 0..(Window - 1)
  /\ MaxTime \in Nat

VARIABLES
  now,      \* the clock
  pc,       \* request: new, allow (timestamp taken), passed, 429 or 503
  ts,       \* ts[r]: timestamp of request r
  members,  \* the sorted set of the client
  expires   \* when the Redis key expires

vars == <<now, pc, ts, members, expires>>

Init ==
  /\ now = 0
  /\ pc = [r \in Requests |-> "new"]
  /\ ts = [r \in Requests |-> 0]
  /\ members = {}
  /\ expires = 0

\* Requests on their way to Redis hold back the clock: MaxDelay is the longest
\* a transaction takes to take effect.
Tick ==
  /\ now < MaxTime
  /\ \A r \in Requests : pc[r] = "allow" => now < ts[r] + MaxDelay
  /\ now' = now + 1
  /\ UNCHANGED <<pc, ts, members, expires>>

\* The middleware calls Allow, which reads the clock.
Arrive(r) ==
  /\ pc[r] = "new"
  /\ pc' = [pc EXCEPT ![r] = "allow"]
  /\ ts' = [ts EXCEPT ![r] = now]
  /\ UNCHANGED <<now, members, expires>>

\* What the transaction finds: nothing once the key has expired.
Found == IF now < expires THEN members ELSE {}

\* Seeded fault: nothing is evicted.
NothingEvicted(r) == Found

\* ZREMRANGEBYSCORE 0 .. windowStart leaves the members after windowStart.
Kept(r) == {q \in Found : ts[q] > ts[r] - Window}

\* Seeded fault: the start of the window is taken for its end.
WindowStart == now - Window

\* EXPIRE with the window as the time to live.
Expiry == now + Window

\* ZREMRANGEBYSCORE, ZADD (of a member that may be there already, from an
\* earlier attempt) and EXPIRE.
Transaction(r) ==
  /\ members' = Kept(r) \cup {r}
  /\ expires' = Expiry

\* Seeded fault: the count is compared as if it did not include the request.
CountsOthersOnly(n) == n - 1 > Limit

\* count > limit.
OverLimit(n) == n > Limit

\* The transaction runs and Allow has its ZCARD: pass the request on or 429.
Allow(r) ==
  /\ pc[r] = "allow"
  /\ Transaction(r)
  /\ pc' = [pc EXCEPT ![r] = IF OverLimit(Cardinality(members')) THEN "429"
                             ELSE "passed"]
  /\ UNCHANGED <<now, ts>>

\* The transaction runs but its answer is lost: it will be sent again.
AnswerLost(r) ==
  /\ pc[r] = "allow"
  /\ Transaction(r)
  /\ UNCHANGED <<now, pc, ts>>

\* Allow returns an error: the middleware fails closed with 503.
Unavailable(r) ==
  /\ pc[r] = "allow"
  /\ pc' = [pc EXCEPT ![r] = "503"]
  /\ UNCHANGED <<now, ts, members, expires>>

Next ==
  \/ Tick
  \/ \E r \in Requests : Arrive(r) \/ Allow(r) \/ AnswerLost(r) \/ Unavailable(r)

Spec == Init /\ [][Next]_vars

-----------------------------------------------------------------------------
(* Properties.                                                             *)

TypeOK ==
  /\ now \in Nat
  /\ pc \in [Requests -> {"new", "allow", "passed", "429", "503"}]
  /\ ts \in [Requests -> Nat]
  /\ members \subseteq {r \in Requests : pc[r] # "new"}
  /\ expires \in Nat

\* The requests that passed with a timestamp in the n time units from t on.
PassedWithin(t, n) ==
  {q \in Requests : pc[q] = "passed" /\ t <= ts[q] /\ ts[q] < t + n}

\* The limit holds although transactions overtake one another and the key may
\* expire under a delayed one: in any window, shortened by the longest delay,
\* at most Limit requests pass.
WindowBound ==
  \A r \in Requests : Cardinality(PassedWithin(ts[r], Window - MaxDelay)) <= Limit

\* A client is refused only if it sent at least Limit other requests within a
\* window of the refused one: transactions sent twice count once, and requests
\* that have left the window are forgotten.
RefusedForCause ==
  \A r \in Requests :
    pc[r] = "429" =>
      Cardinality({q \in Requests \ {r} : pc[q] # "new" /\ ts[q] > ts[r] - Window})
        >= Limit

=============================================================================
