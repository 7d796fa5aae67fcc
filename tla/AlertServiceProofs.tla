------------------------- MODULE AlertServiceProofs -------------------------
(***************************************************************************)
(* alert-service, for every number of records, alerts, users, retries and  *)
(* restarts: an alert is posted at most MaxRetries times while its         *)
(* deduplication key lives, a user's alerts stay within the rate limit,    *)
(* and behind the committed offset no alert disappears without a reason.   *)
(***************************************************************************)
EXTENDS AlertService, TLAPS

\* The record in hand carries an alert.
Handling == pc = "allow" \/ InDispatch

\* The posts of the alert in hand belong to the dispatch under way.
Posting == pc \in {"validate", "post", "backoff"}

\* Offsets are ordered, and a process that is down handles nothing.
PositionInv ==
  /\ committed <= position /\ position <= Len(log)
  /\ main = "down" => pc = "fetch"
  /\ Handling => position > 0 /\ Current \in AlertIDs
  /\ pc = "commit" => position > 0

\* A dispatch counts its posts in tries; without a deduplication key there are
\* none to count.  The key of the alert in hand does not run out before the last
\* of its posts: without that part PostsBounded would not be inductive.
PostsInv ==
  /\ pc \notin {"post", "backoff"} => tries = 0
  /\ Posting => Current \in dedup /\ posts[Current] = tries
  /\ \A a \in AlertIDs \ dedup : posts[a] = 0

\* The ends an alert may meet.
Ends == delivered \cup dlq \cup limited \cup unrouted \cup interrupted

\* Record i carries no alert, or one that met one of its ends.
Accounted(i) == log[i] # Invalid => log[i] \in Ends

\* While the process runs, every record it has passed is accounted for, the one
\* in hand excepted.  A process that is down may have left a record in hand
\* unaccounted for, which it will read again: it lies after the committed one.
PassedInv ==
  main # "down" =>
    \A i \in 1..position : ~(i = position /\ Handling) => Accounted(i)

IInv ==
  /\ TypeOK
  /\ PositionInv
  /\ PostsInv
  /\ PostsBounded
  /\ DedupBacked
  /\ PassedInv
  /\ CommittedAccounted
  /\ FiredBounded

-----------------------------------------------------------------------------
(* The record in hand and the Redis script.                                *)

\* What an action may use of the alert in hand.
LEMMA InHand ==
  ASSUME IInv, Handling
  PROVE  /\ position \in 1..Len(log) /\ Current = log[position]
         /\ Current \in AlertIDs /\ Current # Invalid
         /\ UserOf[Current] \in Users
         /\ main # "down"
<1>1. position \in 1..Len(log) /\ Current \in AlertIDs /\ main # "down"
  BY DEF IInv, TypeOK, PositionInv, Handling, InDispatch
<1> QED BY <1>1, InvalidAssumption, UserAssumption DEF Current

\* The script adds at most the alert to the keys and never lifts a rate key past
\* the limit.
LEMMA ScriptEffect ==
  ASSUME IInv, NEW a \in AlertIDs, Script(a)
  PROVE  /\ dedup' \subseteq AlertIDs /\ rate' \in [Users -> Nat]
         /\ FiredBounded'
         /\ dedup' = IF Blocked(a) THEN dedup ELSE dedup \cup {a}
<1> USE UserAssumption, LimitAssumption DEF IInv, TypeOK, FiredBounded
<1>1. CASE Blocked(a)
  BY <1>1 DEF Script, redisVars
<1>2. CASE ~Blocked(a)
  <2>1. dedup' = dedup \cup {a} /\ rate' = [rate EXCEPT ![UserOf[a]] = @ + 1]
    BY <1>2 DEF Script
  <2>2. ~(rate[UserOf[a]] >= RateLimit) /\ UserOf[a] \in Users
    BY <1>2 DEF Blocked, OverLimit
  <2>3. rate' \in [Users -> Nat] /\ rate'[UserOf[a]] = rate[UserOf[a]] + 1
    BY <2>1, <2>2
  <2>4. \A u \in Users : rate'[u] <= RateLimit
    BY <2>1, <2>2, <2>3
  <2> QED BY <1>2, <2>1, <2>3, <2>4
<1> QED BY <1>1, <1>2

-----------------------------------------------------------------------------
(* The steps.                                                              *)

\* Nothing is known, nothing is in hand.
LEMMA InitOK == Init => IInv
<1> SUFFICES ASSUME Init PROVE IInv
  OBVIOUS
<1> USE LimitAssumption DEF Init
<1>1. TypeOK
  <2>1. webhook \in BOOLEAN
    OBVIOUS
  <2> QED BY <2>1 DEF TypeOK
<1>2. PositionInv /\ PassedInv
  BY DEF PositionInv, PassedInv, Handling, InDispatch
<1>3. PostsInv /\ PostsBounded /\ FiredBounded
  BY DEF PostsInv, Posting, PostsBounded, FiredBounded
<1>4. DedupBacked /\ CommittedAccounted
  BY DEF DedupBacked, CommittedAccounted
<1> QED BY <1>1, <1>2, <1>3, <1>4 DEF IInv

\* A new record is behind every position and changes none of the old ones.
LEMMA ProduceOK ==
  ASSUME IInv, NEW m \in AlertIDs \cup {Invalid}, Produce(m)
  PROVE  IInv'
<1> USE DEF IInv
<1>1. /\ log' = Append(log, m)
      /\ UNCHANGED <<committed, dedup, rate, delivered, dlq, main, boots, webhook,
                     position, pc, tries, limited, unrouted, interrupted, posts>>
  BY DEF Produce, redisVars, processVars, historyVars
<1>2. /\ log' \in Seq(AlertIDs \cup {Invalid}) /\ Len(log') = Len(log) + 1
      /\ \A i \in 1..Len(log) : log'[i] = log[i]
  BY <1>1 DEF TypeOK
<1>3. TypeOK'
  BY <1>1, <1>2 DEF TypeOK
<1>4. position > 0 => Current' = Current
  BY <1>1, <1>2 DEF Current, TypeOK, PositionInv
<1>5. PositionInv'
  BY <1>1, <1>2, <1>4 DEF PositionInv, TypeOK, Handling, InDispatch
<1>6. PostsInv' /\ PostsBounded' /\ FiredBounded'
  BY <1>1, <1>4 DEF PostsInv, Posting, PostsBounded, FiredBounded, PositionInv, Handling,
                    InDispatch
<1>7. DedupBacked'
  BY <1>1, <1>4 DEF DedupBacked, InDispatch, PositionInv, Handling
<1>8. PassedInv'
  BY <1>1, <1>2 DEF PassedInv, Accounted, Ends, TypeOK, PositionInv, Handling, InDispatch
<1>9. CommittedAccounted'
  BY <1>1, <1>2 DEF CommittedAccounted, TypeOK, PositionInv
<1> QED BY <1>3, <1>5, <1>6, <1>7, <1>8, <1>9

\* A deduplication key runs out, but not that of the alert that is being posted.
LEMMA DedupExpireOK ==
  ASSUME IInv, NEW a \in AlertIDs, DedupExpire(a)
  PROVE  IInv'
<1> USE DEF IInv
<1>1. /\ dedup' = dedup \ {a} /\ posts' = [posts EXCEPT ![a] = 0]
      /\ UNCHANGED <<log, committed, rate, delivered, dlq, main, boots, webhook,
                     position, pc, tries, limited, unrouted, interrupted>>
      /\ Posting => Current # a
  BY DEF DedupExpire, kafkaVars, processVars, InDispatch, Posting
<1>2. TypeOK'
  BY <1>1 DEF TypeOK
<1>3. PositionInv' /\ PassedInv' /\ CommittedAccounted' /\ FiredBounded'
  BY <1>1 DEF PositionInv, PassedInv, CommittedAccounted, FiredBounded, Accounted, Ends,
              Handling, InDispatch, Current
<1>4. PostsInv' /\ PostsBounded'
  BY <1>1, LimitAssumption DEF PostsInv, PostsBounded, Posting, Current, TypeOK
<1>5. DedupBacked'
  BY <1>1 DEF DedupBacked, InDispatch, Current
<1> QED BY <1>2, <1>3, <1>4, <1>5

\* A rate key runs out.
LEMMA RateExpireOK ==
  ASSUME IInv, NEW u \in Users, RateExpire(u)
  PROVE  IInv'
<1> USE DEF IInv
<1>1. /\ rate' = [rate EXCEPT ![u] = 0]
      /\ UNCHANGED <<log, committed, dedup, delivered, dlq, main, boots, webhook,
                     position, pc, tries, limited, unrouted, interrupted, posts>>
  BY DEF RateExpire, kafkaVars, processVars, historyVars
<1>2. TypeOK' /\ FiredBounded'
  BY <1>1, LimitAssumption DEF TypeOK, FiredBounded
<1>3. PositionInv' /\ PassedInv' /\ CommittedAccounted'
  BY <1>1 DEF PositionInv, PassedInv, CommittedAccounted, Accounted, Ends, Handling,
              InDispatch, Current
<1>4. PostsInv' /\ PostsBounded' /\ DedupBacked'
  BY <1>1 DEF PostsInv, PostsBounded, Posting, Current, DedupBacked, InDispatch
<1> QED BY <1>2, <1>3, <1>4

\* A process that starts resumes after the committed record, behind which all is
\* accounted for.
LEMMA BootOK == IInv /\ Boot => IInv'
<1> SUFFICES ASSUME IInv, Boot PROVE IInv'
  OBVIOUS
<1> USE DEF IInv
<1>1. /\ main = "down" /\ pc = "fetch" /\ main' = "up" /\ position' = committed
      /\ boots' = boots + 1 /\ webhook' \in BOOLEAN
      /\ UNCHANGED <<log, committed, dedup, rate, delivered, dlq, pc, tries, limited,
                     unrouted, interrupted, posts>>
  BY DEF Boot, kafkaVars, redisVars, historyVars, PositionInv
<1>2. TypeOK'
  BY <1>1 DEF TypeOK
<1>3. PositionInv'
  BY <1>1 DEF PositionInv, TypeOK, Handling, InDispatch
<1>4. PostsInv' /\ PostsBounded' /\ FiredBounded' /\ DedupBacked'
  BY <1>1 DEF PostsInv, PostsBounded, Posting, FiredBounded, DedupBacked, InDispatch
<1>5. CommittedAccounted' /\ PassedInv'
  BY <1>1 DEF CommittedAccounted, PassedInv, Accounted, Ends
<1> QED BY <1>2, <1>3, <1>4, <1>5

\* main cancels the context.
LEMMA SignalOK == IInv /\ Signal => IInv'
<1> SUFFICES ASSUME IInv, Signal PROVE IInv'
  OBVIOUS
<1> USE DEF IInv
<1>1. /\ main = "up" /\ main' = "stopping"
      /\ UNCHANGED <<log, committed, dedup, rate, delivered, dlq, boots, webhook,
                     position, pc, tries, limited, unrouted, interrupted, posts>>
  BY DEF Signal, kafkaVars, redisVars, historyVars
<1>2. TypeOK' /\ FiredBounded'
  BY <1>1 DEF TypeOK, FiredBounded
<1>3. PositionInv' /\ PassedInv' /\ CommittedAccounted'
  BY <1>1 DEF PositionInv, PassedInv, CommittedAccounted, Accounted, Ends, Handling,
              InDispatch, Current
<1>4. PostsInv' /\ PostsBounded' /\ DedupBacked'
  BY <1>1 DEF PostsInv, PostsBounded, Posting, Current, DedupBacked, InDispatch
<1> QED BY <1>2, <1>3, <1>4

\* The process ends wherever it is: an alert that was being dispatched counts as
\* broken off, so its deduplication key stays backed.
LEMMA DieOK == IInv /\ Die => IInv'
<1> SUFFICES ASSUME IInv, Die PROVE IInv'
  OBVIOUS
<1> USE DEF IInv
<1>1. /\ main' = "down" /\ pc' = "fetch" /\ tries' = 0
      /\ interrupted' = IF InDispatch THEN interrupted \cup {Current} ELSE interrupted
      /\ UNCHANGED <<log, committed, dedup, rate, delivered, dlq, boots, webhook,
                     position, limited, unrouted, posts>>
  BY DEF Die, kafkaVars, redisVars
<1>2. InDispatch => Current \in AlertIDs
  BY InHand DEF Handling
<1>3. TypeOK'
  BY <1>1, <1>2, LimitAssumption DEF TypeOK
<1>4. PositionInv' /\ PassedInv'
  BY <1>1 DEF PositionInv, PassedInv, Handling, InDispatch
<1>5. PostsInv' /\ PostsBounded' /\ FiredBounded'
  BY <1>1 DEF PostsInv, PostsBounded, Posting, FiredBounded
<1>6. DedupBacked' /\ CommittedAccounted'
  BY <1>1 DEF DedupBacked, CommittedAccounted
<1> QED BY <1>3, <1>4, <1>5, <1>6

\* The next record is taken in hand; those before it are accounted for.
LEMMA FetchOK == IInv /\ Fetch => IInv'
<1> SUFFICES ASSUME IInv, Fetch PROVE IInv'
  OBVIOUS
<1> USE DEF IInv
<1>1. /\ main # "down" /\ pc = "fetch" /\ position < Len(log) /\ position' = position + 1
      /\ pc' = IF log[position + 1] = Invalid THEN "commit" ELSE "allow"
      /\ UNCHANGED <<log, committed, dedup, rate, delivered, dlq, main, boots, webhook,
                     tries, limited, unrouted, interrupted, posts>>
  BY DEF Fetch, kafkaVars, redisVars, historyVars
<1>2. TypeOK'
  BY <1>1 DEF TypeOK
<1>3. log[position + 1] \in AlertIDs \cup {Invalid} /\ Current' = log[position + 1]
  BY <1>1 DEF TypeOK, Current
<1>4. PositionInv'
  BY <1>1, <1>3 DEF PositionInv, TypeOK, Handling, InDispatch
<1>5. PostsInv' /\ PostsBounded' /\ FiredBounded' /\ DedupBacked'
  BY <1>1 DEF PostsInv, PostsBounded, Posting, FiredBounded, DedupBacked, InDispatch
<1>6. CommittedAccounted'
  BY <1>1 DEF CommittedAccounted
<1>7. PassedInv'
  <2>1. \A i \in 1..position : Accounted(i)
    BY <1>1 DEF PassedInv, Handling, InDispatch
  <2>2. ~Handling' => log[position + 1] = Invalid
    BY <1>1 DEF Handling, InDispatch
  <2> QED BY <1>1, <2>1, <2>2 DEF PassedInv, Accounted, Ends, TypeOK
<1> QED BY <1>2, <1>4, <1>5, <1>6, <1>7

\* An alert that is blocked has met an end: it is dropped by the rate limit, or
\* its deduplication key stands for an earlier handling.
LEMMA AlertBlockedOK == IInv /\ AlertBlocked => IInv'
<1> SUFFICES ASSUME IInv, AlertBlocked PROVE IInv'
  OBVIOUS
<1> USE DEF IInv
<1>1. /\ pc = "allow" /\ pc' = "commit" /\ Blocked(Current) /\ Script(Current)
      /\ limited' = IF Duplicate(Current) THEN limited ELSE limited \cup {Current}
      /\ UNCHANGED <<log, committed, delivered, dlq, main, boots, webhook, position,
                     tries, unrouted, interrupted, posts>>
  BY DEF AlertBlocked, kafkaVars
<1>2. UNCHANGED <<dedup, rate>>
  BY <1>1 DEF Script, redisVars
<1>3. /\ position \in 1..Len(log) /\ Current = log[position] /\ Current \in AlertIDs
  BY <1>1, InHand DEF Handling
<1>4. TypeOK' /\ FiredBounded'
  BY <1>1, <1>2, <1>3 DEF TypeOK, FiredBounded
<1>5. PositionInv'
  BY <1>1, <1>3 DEF PositionInv, Handling, InDispatch
<1>6. PostsInv' /\ PostsBounded'
  BY <1>1, <1>2 DEF PostsInv, PostsBounded, Posting
<1>7. DedupBacked' /\ CommittedAccounted'
  BY <1>1, <1>2 DEF DedupBacked, CommittedAccounted, InDispatch
<1>8. Current \in Ends'
  <2>1. CASE Duplicate(Current)
    BY <1>1, <2>1 DEF Duplicate, DedupBacked, InDispatch, Ends
  <2>2. CASE ~Duplicate(Current)
    BY <1>1, <2>2 DEF Ends
  <2> QED BY <2>1, <2>2
<1>9. PassedInv'
  BY <1>1, <1>3, <1>8 DEF PassedInv, Accounted, Ends, TypeOK
<1> QED BY <1>4, <1>5, <1>6, <1>7, <1>9

\* An alert that is allowed had no key, hence no posts; it is dispatched, or has
\* nowhere to go.
LEMMA AlertAllowedOK == IInv /\ AlertAllowed => IInv'
<1> SUFFICES ASSUME IInv, AlertAllowed PROVE IInv'
  OBVIOUS
<1> USE DEF IInv
<1>1. /\ pc = "allow" /\ ~Blocked(Current) /\ Script(Current) /\ main # "down"
      /\ pc' = IF webhook THEN "validate" ELSE "commit"
      /\ unrouted' = IF webhook THEN unrouted ELSE unrouted \cup {Current}
      /\ UNCHANGED <<log, committed, delivered, dlq, main, boots, webhook, position,
                     tries, limited, interrupted, posts>>
  BY DEF AlertAllowed, kafkaVars
<1>2. /\ position \in 1..Len(log) /\ Current = log[position] /\ Current \in AlertIDs
      /\ Current' = Current
  BY <1>1, InHand DEF Handling, Current
<1>3. /\ dedup' \subseteq AlertIDs /\ rate' \in [Users -> Nat] /\ FiredBounded'
      /\ dedup' = dedup \cup {Current}
  BY <1>1, <1>2, ScriptEffect
<1>4. Current \notin dedup
  BY <1>1 DEF Blocked, Duplicate
<1>5. TypeOK'
  BY <1>1, <1>2, <1>3 DEF TypeOK
<1>6. PositionInv'
  BY <1>1, <1>2 DEF PositionInv, Handling, InDispatch
<1>7. PostsInv' /\ PostsBounded'
  BY <1>1, <1>2, <1>3, <1>4, LimitAssumption DEF PostsInv, PostsBounded, Posting, TypeOK
<1>8. DedupBacked'
  BY <1>1, <1>2, <1>3 DEF DedupBacked, InDispatch
<1>9. CommittedAccounted'
  BY <1>1 DEF CommittedAccounted
<1>10. PassedInv'
  BY <1>1, <1>2 DEF PassedInv, Accounted, Ends, TypeOK, Handling, InDispatch
<1> QED BY <1>3, <1>5, <1>6, <1>7, <1>8, <1>9, <1>10

\* Redis fails: the alert counts as broken off whether or not its key was set.
LEMMA RedisErrorOK == IInv /\ RedisError => IInv'
<1> SUFFICES ASSUME IInv, RedisError PROVE IInv'
  OBVIOUS
<1> USE DEF IInv
<1>1. /\ pc = "allow" /\ pc' = "fetch" /\ (UNCHANGED redisVars \/ Script(Current))
      /\ interrupted' = interrupted \cup {Current} /\ main # "down"
      /\ UNCHANGED <<log, committed, delivered, dlq, main, boots, webhook, position,
                     tries, limited, unrouted, posts>>
  BY DEF RedisError, AfterRedisError, kafkaVars
<1>2. /\ position \in 1..Len(log) /\ Current = log[position] /\ Current \in AlertIDs
  BY <1>1, InHand DEF Handling
<1>3. /\ dedup' \subseteq AlertIDs /\ rate' \in [Users -> Nat] /\ FiredBounded'
      /\ dedup \subseteq dedup' /\ dedup' \subseteq dedup \cup {Current}
  <2>1. CASE UNCHANGED redisVars
    BY <2>1 DEF redisVars, TypeOK, FiredBounded
  <2>2. CASE Script(Current)
    BY <1>2, <2>2, ScriptEffect
  <2> QED BY <1>1, <2>1, <2>2
<1>4. TypeOK'
  BY <1>1, <1>2, <1>3 DEF TypeOK
<1>5. PositionInv'
  BY <1>1 DEF PositionInv, Handling, InDispatch
<1>6. PostsInv' /\ PostsBounded'
  BY <1>1, <1>2, <1>3, LimitAssumption DEF PostsInv, PostsBounded, Posting, TypeOK
<1>7. DedupBacked' /\ CommittedAccounted'
  BY <1>1, <1>3 DEF DedupBacked, CommittedAccounted, InDispatch
<1>8. PassedInv'
  BY <1>1, <1>2 DEF PassedInv, Accounted, Ends, TypeOK
<1> QED BY <1>3, <1>4, <1>5, <1>6, <1>7, <1>8

\* The commit covers every record up to the one in hand, all accounted for.
LEMMA CommitOK == IInv /\ Commit => IInv'
<1> SUFFICES ASSUME IInv, Commit PROVE IInv'
  OBVIOUS
<1> USE DEF IInv
<1>1. /\ main # "down" /\ pc = "commit" /\ pc' = "fetch"
      /\ committed' \in {committed, position}
      /\ UNCHANGED <<log, dedup, rate, delivered, dlq, main, boots, webhook, position,
                     tries, limited, unrouted, interrupted, posts>>
  BY DEF Commit, redisVars, historyVars
<1>2. TypeOK' /\ FiredBounded'
  BY <1>1 DEF TypeOK, FiredBounded
<1>3. PositionInv'
  BY <1>1 DEF PositionInv, TypeOK, Handling, InDispatch
<1>4. PostsInv' /\ PostsBounded' /\ DedupBacked'
  BY <1>1 DEF PostsInv, PostsBounded, Posting, DedupBacked, InDispatch
<1>5. \A i \in 1..position : Accounted(i)
  BY <1>1 DEF PassedInv, Handling, InDispatch
<1>6. PassedInv' /\ CommittedAccounted'
  BY <1>1, <1>5 DEF PassedInv, CommittedAccounted, Accounted, Ends
<1> QED BY <1>2, <1>3, <1>4, <1>6

\* The destination is judged, or a backoff ends: the dispatch goes on.
LEMMA GoesOnOK == IInv /\ (Validate \/ BackoffEnds) => IInv'
<1> SUFFICES ASSUME IInv, Validate \/ BackoffEnds PROVE IInv'
  OBVIOUS
<1> USE DEF IInv
<1>1. /\ \/ pc = "validate" /\ pc' \in {"post", "dlq"}
         \/ pc = "backoff" /\ pc' = "post"
      /\ UNCHANGED <<log, committed, dedup, rate, delivered, dlq, main, boots, webhook,
                     position, tries, limited, unrouted, interrupted, posts>>
  BY DEF Validate, BackoffEnds, kafkaVars, redisVars, historyVars
<1>2. TypeOK' /\ FiredBounded'
  BY <1>1 DEF TypeOK, FiredBounded
<1>3. PositionInv' /\ PassedInv' /\ CommittedAccounted'
  BY <1>1 DEF PositionInv, PassedInv, CommittedAccounted, Accounted, Ends, Handling,
              InDispatch, Current
<1>4. PostsInv' /\ PostsBounded' /\ DedupBacked'
  BY <1>1 DEF PostsInv, PostsBounded, Posting, Current, DedupBacked, InDispatch
<1> QED BY <1>2, <1>3, <1>4

\* A post, delivered or not, is one of the MaxRetries the dispatch may make.
LEMMA PostOK == IInv /\ (PostOk \/ PostFails) => IInv'
<1> SUFFICES ASSUME IInv, PostOk \/ PostFails PROVE IInv'
  OBVIOUS
<1> USE DEF IInv
<1>1. /\ pc = "post" /\ posts' = [posts EXCEPT ![Current] = @ + 1]
      /\ delivered' \in {delivered, delivered \cup {Current}}
      /\ UNCHANGED <<log, committed, dedup, rate, dlq, main, boots, webhook, position,
                     limited, unrouted, interrupted>>
  BY DEF PostOk, PostFails, kafkaVars, redisVars
<1>2. \/ pc' = "commit" /\ tries' = 0 /\ delivered' = delivered \cup {Current}
      \/ pc' = "dlq" /\ tries' = 0
      \/ pc' = "backoff" /\ tries' = tries + 1 /\ tries + 1 < MaxRetries
  BY LimitAssumption DEF PostOk, PostFails, LastTry, AfterLastTry, TypeOK
<1>3. /\ position \in 1..Len(log) /\ Current = log[position] /\ Current \in AlertIDs
      /\ Current' = Current /\ main # "down"
  BY <1>1, InHand DEF Handling, InDispatch, Current
<1>4. Current \in dedup /\ posts[Current] = tries
  BY <1>1 DEF PostsInv, Posting
<1>5. TypeOK'
  BY <1>1, <1>2, <1>3, LimitAssumption DEF TypeOK
<1>6. PositionInv' /\ FiredBounded'
  BY <1>1, <1>2, <1>3 DEF PositionInv, FiredBounded, Handling, InDispatch
<1>7. posts'[Current] = tries + 1 /\ \A a \in AlertIDs \ {Current} : posts'[a] = posts[a]
  BY <1>1, <1>3, <1>4 DEF TypeOK
<1>8. PostsInv'
  BY <1>1, <1>2, <1>3, <1>4, <1>7 DEF PostsInv, Posting
<1>9. PostsBounded'
  BY <1>1, <1>3, <1>4, <1>7, LimitAssumption DEF PostsBounded, TypeOK
<1>10. DedupBacked' /\ CommittedAccounted'
  BY <1>1, <1>2, <1>3 DEF DedupBacked, CommittedAccounted, InDispatch
<1>11. PassedInv'
  BY <1>1, <1>2, <1>3 DEF PassedInv, Accounted, Ends, TypeOK, Handling, InDispatch
<1> QED BY <1>5, <1>6, <1>8, <1>9, <1>10, <1>11

\* The dispatch ends without a delivery: the alert is on the dead-letter topic or
\* counts as broken off.
LEMMA GivesUpOK == IInv /\ (BackoffCancelled \/ SendToDLQ) => IInv'
<1> SUFFICES ASSUME IInv, BackoffCancelled \/ SendToDLQ PROVE IInv'
  OBVIOUS
<1> USE DEF IInv
<1>1. /\ pc \in {"backoff", "dlq"} /\ pc' = "commit"
      /\ UNCHANGED <<log, committed, dedup, rate, delivered, main, boots, webhook,
                     position, limited, unrouted, posts>>
      /\ \/ dlq' = dlq \cup {Current} /\ interrupted' = interrupted
         \/ interrupted' = interrupted \cup {Current} /\ dlq' = dlq
  BY DEF BackoffCancelled, SendToDLQ, kafkaVars, redisVars
<1>2. tries' = 0
  BY DEF BackoffCancelled, SendToDLQ, PostsInv
<1>3. /\ position \in 1..Len(log) /\ Current = log[position] /\ Current \in AlertIDs
      /\ main # "down"
  BY <1>1, InHand DEF Handling, InDispatch
<1>4. TypeOK' /\ FiredBounded'
  BY <1>1, <1>2, <1>3, LimitAssumption DEF TypeOK, FiredBounded
<1>5. PositionInv'
  BY <1>1, <1>3 DEF PositionInv, Handling, InDispatch
<1>6. PostsInv' /\ PostsBounded'
  BY <1>1, <1>2 DEF PostsInv, PostsBounded, Posting
<1>7. DedupBacked' /\ CommittedAccounted'
  BY <1>1, <1>3 DEF DedupBacked, CommittedAccounted, InDispatch
<1>8. PassedInv'
  BY <1>1, <1>3 DEF PassedInv, Accounted, Ends, TypeOK
<1> QED BY <1>4, <1>5, <1>6, <1>7, <1>8

\* Every step keeps the invariant.
LEMMA StepOK == IInv /\ [Next]_vars => IInv'
<1> SUFFICES ASSUME IInv, [Next]_vars PROVE IInv'
  OBVIOUS
<1>1. CASE \E m \in AlertIDs \cup {Invalid} : Produce(m)
  BY <1>1, ProduceOK
<1>2. CASE \E a \in AlertIDs : DedupExpire(a)
  BY <1>2, DedupExpireOK
<1>3. CASE \E u \in Users : RateExpire(u)
  BY <1>3, RateExpireOK
<1>4. CASE Boot \/ Signal \/ Die
  BY <1>4, BootOK, SignalOK, DieOK
<1>5. CASE ConsumerStep
  BY <1>5, FetchOK, AlertBlockedOK, AlertAllowedOK, RedisErrorOK, CommitOK, GoesOnOK,
     PostOK, GivesUpOK DEF ConsumerStep
<1>6. CASE UNCHANGED vars
  <2>1. UNCHANGED <<log, committed, dedup, rate, delivered, dlq, main, boots, webhook,
                    position, pc, tries, limited, unrouted, interrupted, posts>>
    BY <1>6 DEF vars, kafkaVars, redisVars, processVars, historyVars
  <2>2. TypeOK' /\ FiredBounded'
    BY <2>1 DEF IInv, TypeOK, FiredBounded
  <2>3. PositionInv' /\ PassedInv' /\ CommittedAccounted'
    BY <2>1 DEF IInv, PositionInv, PassedInv, CommittedAccounted, Accounted, Ends,
                Handling, InDispatch, Current
  <2>4. PostsInv' /\ PostsBounded' /\ DedupBacked'
    BY <2>1 DEF IInv, PostsInv, PostsBounded, Posting, Current, DedupBacked, InDispatch
  <2> QED BY <2>2, <2>3, <2>4 DEF IInv
<1> QED BY <1>1, <1>2, <1>3, <1>4, <1>5, <1>6 DEF Next

-----------------------------------------------------------------------------
(* The theorems.                                                           *)

\* The inductive invariant holds throughout, the types among it.
THEOREM Invariance == Spec => []IInv
BY InitOK, StepOK, PTL DEF Spec

\* However often a record is produced again or redelivered after a crash, an alert
\* is posted at most MaxRetries times while its deduplication key lives.
THEOREM BoundedPosts == Spec => []PostsBounded
<1>1. IInv => PostsBounded
  BY DEF IInv
<1> QED BY <1>1, Invariance, PTL

\* A deduplication key suppresses later records only on behalf of a handling
\* that is under way or has come to an end.
THEOREM BackedDedup == Spec => []DedupBacked
<1>1. IInv => DedupBacked
  BY DEF IInv
<1> QED BY <1>1, Invariance, PTL

\* Behind the committed offset every alert was delivered, dead-lettered, dropped
\* for a reason or broken off; through crashes, restarts and failed commits.
THEOREM NoSilentLoss == Spec => []CommittedAccounted
<1>1. IInv => CommittedAccounted
  BY DEF IInv
<1> QED BY <1>1, Invariance, PTL

\* In each window at most RateLimit alerts of a user fire.
THEOREM BoundedFiring == Spec => []FiredBounded
<1>1. IInv => FiredBounded
  BY DEF IInv
<1> QED BY <1>1, Invariance, PTL

\* The committed offset never moves back, although a restart moves the position
\* back and a failed commit leaves it behind.
THEOREM CommitsForward == Spec => [][committed' >= committed]_vars
<1>1. IInv /\ [Next]_vars => [committed' >= committed]_vars
  <2> SUFFICES ASSUME IInv, Next PROVE committed' >= committed
    OBVIOUS
  <2>1. committed \in Nat /\ position \in Nat /\ committed <= position
    BY DEF IInv, TypeOK, PositionInv
  <2>2. CASE Commit
    BY <2>1, <2>2 DEF Commit
  <2>3. CASE ~Commit
    <3>1. committed' = committed
      BY <2>3 DEF Next, ConsumerStep, Produce, DedupExpire, RateExpire, Boot, Signal, Die,
         Fetch, AlertBlocked, AlertAllowed, RedisError, Validate, PostOk, PostFails,
         BackoffEnds, BackoffCancelled, SendToDLQ, kafkaVars
    <3> QED BY <2>1, <3>1
  <2> QED BY <2>2, <2>3
<1> QED BY <1>1, Invariance, PTL DEF Spec

=============================================================================
