---------------------------- MODULE AlertService ----------------------------
(***************************************************************************)
(* alert-service: one goroutine consumes risk.decisions, asks a Redis Lua  *)
(* script whether the alert may fire (deduplication and a per-user rate    *)
(* limit in one atomic step), posts allowed alerts to the configured       *)
(* webhook with retries, sends what cannot be delivered to alerts.dlq and  *)
(* commits the Kafka offset.  The process may crash or be stopped between  *)
(* any two steps; Kafka, Redis, the dead-letter topic and the receiver     *)
(* keep their state.                                                       *)
(*                                                                         *)
(* Time is abstract: the TTLs of the Redis keys run out at any moment,     *)
(* except that a deduplication key (600 s) outlives the posts of the       *)
(* dispatch that set it (5 posts of at most 10 s and 15 s of backoff).     *)
(***************************************************************************)
EXTENDS Naturals, Sequences

CONSTANTS
  AlertIDs,    \* decision_id values
  Invalid,     \* a record that does not parse or has no decision_id
  Users,
  UserOf,      \* UserOf[a]: the user of decision a
  MaxRetries,  \* posts of one dispatch (5)
  RateLimit,   \* alerts per user and window (5)
  MaxLog,      \* bound: records produced
  MaxBoots     \* bound: process starts

ASSUME InvalidAssumption == Invalid \notin AlertIDs

ASSUME UserAssumption == UserOf \in [AlertIDs -> Users]

ASSUME LimitAssumption ==
  /\ MaxRetries \in Nat \ {0}
  /\ RateLimit \in Nat \ {0}
  /\ MaxLog \in Nat
  /\ MaxBoots \in Nat

VARIABLES
  log,          \* the records of risk.decisions
  committed,    \* last committed record
  dedup,        \* alerts whose deduplication key exists in Redis
  rate,         \* rate[u]: value of the rate key of user u, 0 if absent
  delivered,    \* alerts the webhook receiver has processed
  dlq,          \* alerts on alerts.dlq
  main,         \* up, stopping (context cancelled) or down
  boots,        \* process starts so far
  webhook,      \* ALERT_WEBHOOK_URL is configured
  position,     \* last record FetchMessage returned
  pc,           \* control state of the consumer goroutine
  tries,        \* posts already made by the current dispatch
  limited,      \* history: alerts dropped by the rate limit
  unrouted,     \* history: alerts allowed while no webhook was configured
  interrupted,  \* history: alerts abandoned by an error, a stop or a crash
  posts         \* history: posts of alert a since its deduplication key was set

kafkaVars   == <<log, committed>>
redisVars   == <<dedup, rate>>
processVars == <<main, boots, webhook, position, pc, tries>>
historyVars == <<limited, unrouted, interrupted, posts>>
vars == <<kafkaVars, redisVars, delivered, dlq, processVars, historyVars>>

\* The alert being handled.
Current == log[position]

InDispatch == pc \in {"validate", "post", "backoff", "dlq"}

Init ==
  /\ log = <<>>
  /\ committed = 0
  /\ dedup = {}
  /\ rate = [u \in Users |-> 0]
  /\ delivered = {}
  /\ dlq = {}
  /\ main = "down"
  /\ boots = 0
  /\ webhook = FALSE
  /\ position = 0
  /\ pc = "fetch"
  /\ tries = 0
  /\ limited = {}
  /\ unrouted = {}
  /\ interrupted = {}
  /\ posts = [a \in AlertIDs |-> 0]

-----------------------------------------------------------------------------
(* The environment: producers, Redis TTLs, the process's life.             *)

Produce(m) ==
  /\ Len(log) < MaxLog
  /\ log' = Append(log, m)
  /\ UNCHANGED <<committed, redisVars, delivered, dlq, processVars, historyVars>>

DedupExpire(a) ==
  /\ a \in dedup
  /\ ~(InDispatch /\ pc # "dlq" /\ Current = a)
  /\ dedup' = dedup \ {a}
  /\ posts' = [posts EXCEPT ![a] = 0]
  /\ UNCHANGED <<kafkaVars, rate, delivered, dlq, processVars, limited,
                 unrouted, interrupted>>

RateExpire(u) ==
  /\ rate[u] > 0
  /\ rate' = [rate EXCEPT ![u] = 0]
  /\ UNCHANGED <<kafkaVars, dedup, delivered, dlq, processVars, historyVars>>

\* main(): the reader resumes after the committed record.
Boot ==
  /\ main = "down"
  /\ boots < MaxBoots
  /\ boots' = boots + 1
  /\ main' = "up"
  /\ webhook' \in BOOLEAN
  /\ position' = committed
  /\ UNCHANGED <<kafkaVars, redisVars, delivered, dlq, pc, tries, historyVars>>

\* SIGINT or SIGTERM: main cancels the context.
Signal ==
  /\ main = "up"
  /\ main' = "stopping"
  /\ UNCHANGED <<kafkaVars, redisVars, delivered, dlq, boots, webhook, position,
                 pc, tries, historyVars>>

\* A crash, or main returning right after cancel(), which waits for nothing.
Die ==
  /\ main # "down"
  /\ main' = "down"
  /\ pc' = "fetch"
  /\ tries' = 0
  /\ interrupted' = IF InDispatch THEN interrupted \cup {Current} ELSE interrupted
  /\ UNCHANGED <<kafkaVars, redisVars, delivered, dlq, boots, webhook, position,
                 limited, unrouted, posts>>

-----------------------------------------------------------------------------
(* KafkaConsumer.Start.                                                    *)

\* FetchMessage, which may still hand out a record it has buffered after the
\* context is cancelled; a record without a usable alert is committed unprocessed.
Fetch ==
  /\ main # "down"
  /\ pc = "fetch"
  /\ position < Len(log)
  /\ position' = position + 1
  /\ pc' = IF log[position + 1] = Invalid THEN "commit" ELSE "allow"
  /\ UNCHANGED <<kafkaVars, redisVars, delivered, dlq, main, boots, webhook,
                 tries, historyVars>>

\* Seeded fault: the script does not look for the deduplication key.
NeverDuplicate(a) == FALSE

\* EXISTS dedupKey.
Duplicate(a) == a \in dedup

\* Seeded fault: the limit is compared with > instead of >=.
PastLimit(u) == rate[u] > RateLimit

\* GET rateLimitKey has reached the limit.
OverLimit(u) == rate[u] >= RateLimit

Blocked(a) == Duplicate(a) \/ OverLimit(UserOf[a])

\* Seeded fault: the script marks an alert before it looks at the rate limit.
EagerScript(a) ==
  /\ dedup' = dedup \cup {a}
  /\ rate' = IF Blocked(a) THEN rate ELSE [rate EXCEPT ![UserOf[a]] = @ + 1]

\* The effect of the Lua script: unless the alert is blocked, SET dedupKey and
\* INCR rateLimitKey.
Script(a) ==
  IF Blocked(a) THEN UNCHANGED redisVars
  ELSE /\ dedup' = dedup \cup {a}
       /\ rate' = [rate EXCEPT ![UserOf[a]] = @ + 1]

\* AllowAlert answers 0: duplicate or over the rate limit.
AlertBlocked ==
  /\ main # "down"
  /\ pc = "allow"
  /\ Blocked(Current)
  /\ Script(Current)
  /\ limited' = IF Duplicate(Current) THEN limited ELSE limited \cup {Current}
  /\ pc' = "commit"
  /\ UNCHANGED <<kafkaVars, delivered, dlq, main, boots, webhook, position,
                 tries, unrouted, interrupted, posts>>

\* AllowAlert answers 1; without a configured webhook that is the end of it.
AlertAllowed ==
  /\ main # "down"
  /\ pc = "allow"
  /\ ~Blocked(Current)
  /\ Script(Current)
  /\ pc' = IF webhook THEN "validate" ELSE "commit"
  /\ unrouted' = IF webhook THEN unrouted ELSE unrouted \cup {Current}
  /\ UNCHANGED <<kafkaVars, delivered, dlq, main, boots, webhook, position,
                 tries, limited, interrupted, posts>>

\* Seeded fault: the record is tried again until Redis answers.
RetryAlert == "allow"

\* The continue of the error branch.
AfterRedisError == "fetch"

\* AllowAlert returns an error, the script having run or not: the loop goes on
\* to the next record without committing this one.
RedisError ==
  /\ main # "down"
  /\ pc = "allow"
  /\ UNCHANGED redisVars \/ Script(Current)
  /\ interrupted' = interrupted \cup {Current}
  /\ pc' = AfterRedisError
  /\ UNCHANGED <<kafkaVars, delivered, dlq, main, boots, webhook, position,
                 tries, limited, unrouted, posts>>

\* CommitMessages succeeds, or fails and the error is only logged.
Commit ==
  /\ main # "down"
  /\ pc = "commit"
  /\ committed' \in {committed, position}
  /\ pc' = "fetch"
  /\ UNCHANGED <<log, redisVars, delivered, dlq, main, boots, webhook, position,
                 tries, historyVars>>

-----------------------------------------------------------------------------
(* WebhookDispatcher.Dispatch.                                             *)

\* validateWebhook accepts or refuses the destination (its DNS answer decides).
Validate ==
  /\ main # "down"
  /\ pc = "validate"
  /\ pc' \in {"post", "dlq"}
  /\ UNCHANGED <<kafkaVars, redisVars, delivered, dlq, main, boots, webhook,
                 position, tries, historyVars>>

\* A 2xx answer.
PostOk ==
  /\ main # "down"
  /\ pc = "post"
  /\ delivered' = delivered \cup {Current}
  /\ posts' = [posts EXCEPT ![Current] = @ + 1]
  /\ pc' = "commit"
  /\ tries' = 0
  /\ UNCHANGED <<kafkaVars, redisVars, dlq, main, boots, webhook, position,
                 limited, unrouted, interrupted>>

\* Seeded fault: the loop posts once too often.
LateLastTry == tries >= MaxRetries

\* The post that just failed was the last of the retry loop.
LastTry == tries + 1 >= MaxRetries

\* Seeded fault: the loop ends without a dead letter.
NoDeadLetter == "commit"

\* Where the loop goes when its posts are used up.
AfterLastTry == "dlq"

\* A transport error or a status outside 2xx; the receiver may have processed
\* the alert all the same.
PostFails ==
  /\ main # "down"
  /\ pc = "post"
  /\ delivered' \in {delivered, delivered \cup {Current}}
  /\ posts' = [posts EXCEPT ![Current] = @ + 1]
  /\ pc' = IF LastTry THEN AfterLastTry ELSE "backoff"
  /\ tries' = IF LastTry THEN 0 ELSE tries + 1
  /\ UNCHANGED <<kafkaVars, redisVars, dlq, main, boots, webhook, position,
                 limited, unrouted, interrupted>>

\* The backoff timer fires.
BackoffEnds ==
  /\ main # "down"
  /\ pc = "backoff"
  /\ pc' = "post"
  /\ UNCHANGED <<kafkaVars, redisVars, delivered, dlq, main, boots, webhook,
                 position, tries, historyVars>>

\* The context is cancelled during the backoff: Dispatch returns at once and
\* leaves no dead letter.
BackoffCancelled ==
  /\ main = "stopping"
  /\ pc = "backoff"
  /\ pc' = "commit"
  /\ tries' = 0
  /\ interrupted' = interrupted \cup {Current}
  /\ UNCHANGED <<kafkaVars, redisVars, delivered, dlq, main, boots, webhook,
                 position, limited, unrouted, posts>>

\* sendToDLQ: the publish works, or its failure is only logged.
SendToDLQ ==
  /\ main # "down"
  /\ pc = "dlq"
  /\ \/ dlq' = dlq \cup {Current} /\ UNCHANGED interrupted
     \/ interrupted' = interrupted \cup {Current} /\ UNCHANGED dlq
  /\ pc' = "commit"
  /\ UNCHANGED <<kafkaVars, redisVars, delivered, main, boots, webhook, position,
                 tries, limited, unrouted, posts>>

-----------------------------------------------------------------------------
ConsumerStep ==
  \/ Fetch \/ AlertBlocked \/ AlertAllowed \/ RedisError \/ Commit
  \/ Validate \/ PostOk \/ PostFails \/ BackoffEnds \/ BackoffCancelled
  \/ SendToDLQ

Next ==
  \/ \E m \in AlertIDs \cup {Invalid} : Produce(m)
  \/ \E a \in AlertIDs : DedupExpire(a)
  \/ \E u \in Users : RateExpire(u)
  \/ Boot \/ Signal \/ Die
  \/ ConsumerStep

Spec == Init /\ [][Next]_vars

\* The goroutine runs while it can, and the orchestrator restarts the service.
FairSpec == Spec /\ WF_vars(ConsumerStep) /\ WF_vars(Boot)

-----------------------------------------------------------------------------
(* Properties.                                                             *)

TypeOK ==
  /\ log \in Seq(AlertIDs \cup {Invalid})
  /\ committed \in Nat
  /\ dedup \subseteq AlertIDs
  /\ rate \in [Users -> Nat]
  /\ delivered \subseteq AlertIDs
  /\ dlq \subseteq AlertIDs
  /\ main \in {"up", "stopping", "down"}
  /\ boots \in Nat
  /\ webhook \in BOOLEAN
  /\ position \in Nat
  /\ pc \in {"fetch", "allow", "validate", "post", "backoff", "dlq", "commit"}
  /\ tries \in 0..(MaxRetries - 1)
  /\ limited \subseteq AlertIDs
  /\ unrouted \subseteq AlertIDs
  /\ interrupted \subseteq AlertIDs
  /\ posts \in [AlertIDs -> Nat]

\* While its deduplication key lives, an alert is posted at most MaxRetries
\* times, however often the record is produced again or redelivered after a
\* crash: the retries belong to a single dispatch.
PostsBounded == \A a \in AlertIDs : a \in dedup => posts[a] <= MaxRetries

\* The deduplication key of an alert suppresses its later records only on
\* behalf of a real handling: the alert is being dispatched, or was delivered
\* or dead-lettered, or had nowhere to go, or its handling was broken off.  An
\* alert the rate limit turned away is not marked and can fire later.
DedupBacked ==
  \A a \in dedup :
    \/ InDispatch /\ Current = a
    \/ a \in delivered \cup dlq \cup unrouted \cup interrupted

\* The rate key of a user never passes the limit: in each window at most
\* RateLimit alerts of the user fire, across redeliveries and restarts.
FiredBounded == \A u \in Users : rate[u] <= RateLimit

\* No alert disappears without a reason: every alert whose record is behind the
\* committed offset was delivered, dead-lettered or dropped by the rate limit
\* or for want of a webhook - or its handling was broken off by an error, a
\* stop or a crash.  In particular a record discarded as a duplicate stands
\* behind one that met one of these ends.
CommittedAccounted ==
  \A i \in 1..committed :
    log[i] # Invalid =>
      log[i] \in delivered \cup dlq \cup limited \cup unrouted
                \cup interrupted

\* An unreachable webhook, a full rate window or a malformed record never holds
\* up the records behind it.
NoHeadOfLineBlocking ==
  \A i \in 1..MaxLog : Len(log) >= i ~> (position >= i \/ main # "up")

\* kafka.go: "Do not commit so we retry later if Redis fails (Ensure no data is
\* lost)" and "to guarantee at-least-once processing": behind the committed
\* offset every alert was delivered, dead-lettered or dropped on purpose.
AtLeastOnce ==
  \A i \in 1..committed :
    log[i] # Invalid => log[i] \in delivered \cup dlq \cup limited \cup unrouted

=============================================================================
