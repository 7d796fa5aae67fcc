--------------------------- MODULE AnalyticsIngest ---------------------------
(***************************************************************************)
(* The write path of analytics-service: one Kafka consumer goroutine per   *)
(* topic and the HTTP /ingest handlers call Engine.AddEvent, which queues  *)
(* the event on a bounded Go channel; one worker goroutine collects        *)
(* batches, inserts them into ClickHouse and answers each caller on the    *)
(* done channel of its event.  main() starts the parts and stops them in   *)
(* the reverse order; the process may also crash at any step and is then   *)
(* started again, with the Kafka log, the committed offsets and the        *)
(* ClickHouse rows as the only state that survives.                        *)
(*                                                                         *)
(* A message is <<t, i>>: the i-th record of topic t.  Kafka's committed   *)
(* offset is kept as the number of the last committed record, so 0 says    *)
(* that the consumer group has committed nothing yet.                      *)
(***************************************************************************)
EXTENDS Naturals, Sequences

CONSTANTS
  Topics,       \* the subscribed topics, one consumer goroutine each
  Requests,     \* HTTP POST /ingest requests, each sent once
  BatchSize,    \* NewEngine's batchSize
  ChanCap,      \* capacity of eventChan (batchSize*10 in NewEngine)
  MaxAttempts,  \* insert attempts of one flush (3)
  MaxLog,       \* bound: records produced per topic
  MaxBoots      \* bound: process starts

ASSUME CallersAssumption ==
  /\ Topics \cap Requests = {}
  /\ Requests \cap (Topics \X Nat) = {}

ASSUME BoundsAssumption ==
  /\ BatchSize \in Nat \ {0}
  /\ ChanCap \in Nat \ {0}
  /\ MaxAttempts \in Nat \ {0}
  /\ MaxLog \in Nat
  /\ MaxBoots \in Nat

VARIABLES
  log,        \* log[t]: the records of topic t, each "event" or "malformed"
  committed,  \* committed[t]: last committed record of the consumer group
  stored,     \* events with at least one row in ClickHouse
  missed,     \* messages produced before the group's first committed offset
  skipped,    \* messages the consumer moved past when AddEvent failed
  main,       \* progress of main(): boot, serve, drain, consumers, engine, down
  boots,      \* process starts so far
  pc,         \* control state of each consumer goroutine and HTTP handler
  position,   \* position[t]: last record FetchMessage returned
  cancelled,  \* topics whose consumer context is cancelled
  eventChan,  \* the engine's channel of queued events
  closed,     \* eventChan has been closed by Engine.Stop
  acked,      \* events whose done channel was sent nil
  failed,     \* events whose done channel was sent an error
  worker,     \* worker goroutine: select, insert, reply or exited
  batch,      \* the worker's current batch
  attempt,    \* insert attempts already made by the current flush
  err,        \* what the attempts of the current flush came to: nil or error
  live        \* events handed to the WebSocket hub

storeVars  == <<log, committed, stored, missed, skipped>>
callerVars == <<pc, position, cancelled>>
engineVars == <<eventChan, closed, acked, failed, worker, batch, attempt,
                err>>
vars == <<storeVars, main, boots, callerVars, engineVars, live>>

Callers == Topics \cup Requests
Message == Topics \X Nat
Event   == Message \cup Requests

\* The records of the topics.
Produced == UNION {{t} \X (1..Len(log[t])) : t \in Topics}

\* Record i of topic t parses as an event.
WellFormed(t, i) == i \in 1..Len(log[t]) /\ log[t][i] = "event"

\* The event caller k hands to AddEvent: a consumer's is the record fetched last.
EventOf(k) == IF k \in Topics THEN <<k, position[k]>> ELSE k

Elements(s) == {s[i] : i \in 1..Len(s)}

\* Callers inside Engine.AddEvent.
Sending == {k \in Callers : pc[k] = "send"}

-----------------------------------------------------------------------------
(* What a fresh process starts from.                                       *)

\* The reader resumes after the committed record; with none committed,
\* StartOffset = LastOffset puts it at the end of the log.
StartPosition(t) == IF committed[t] = 0 THEN Len(log[t]) ELSE committed[t]

\* Everything a process keeps in memory is gone: handlers in flight never
\* answer, and the queue, the batch and the done channels disappear.
LoseMemory ==
  /\ main' = "down"
  /\ pc' = [k \in Callers |->
              IF k \in Topics THEN "exited"
              ELSE IF pc[k] \in {"send", "wait"} THEN "gone" ELSE pc[k]]
  /\ cancelled' = {}
  /\ eventChan' = <<>>
  /\ closed' = FALSE
  /\ acked' = {}
  /\ failed' = {}
  /\ worker' = "exited"
  /\ batch' = <<>>
  /\ attempt' = 0
  /\ err' = "nil"
  /\ UNCHANGED <<storeVars, boots, position, live>>

Init ==
  /\ log = [t \in Topics |-> <<>>]
  /\ committed = [t \in Topics |-> 0]
  /\ stored = {}
  /\ missed = {}
  /\ skipped = {}
  /\ main = "down"
  /\ boots = 0
  /\ pc = [k \in Callers |-> IF k \in Topics THEN "exited" ELSE "new"]
  /\ position = [t \in Topics |-> 0]
  /\ cancelled = {}
  /\ eventChan = <<>>
  /\ closed = FALSE
  /\ acked = {}
  /\ failed = {}
  /\ worker = "exited"
  /\ batch = <<>>
  /\ attempt = 0
  /\ err = "nil"
  /\ live = {}

-----------------------------------------------------------------------------
(* Kafka: producers append to the topics at any time.                      *)

Produce(t, kind) ==
  /\ Len(log[t]) < MaxLog
  /\ log' = [log EXCEPT ![t] = Append(@, kind)]
  /\ UNCHANGED <<committed, stored, missed, skipped, main, boots, callerVars,
                 engineVars, live>>

-----------------------------------------------------------------------------
(* main(): start, graceful shutdown, crash.                                *)

\* engine.Start(1), then a consumer per topic; no event handler yet.
Boot ==
  /\ main = "down"
  /\ boots < MaxBoots
  /\ boots' = boots + 1
  /\ main' = "boot"
  /\ worker' = "select"
  /\ position' = [t \in Topics |-> StartPosition(t)]
  /\ missed' = missed \cup {m \in Produced : committed[m[1]] = 0}
  /\ pc' = [k \in Callers |-> IF k \in Topics THEN "loop" ELSE pc[k]]
  /\ UNCHANGED <<log, committed, stored, skipped, cancelled, eventChan, closed,
                 acked, failed, batch, attempt, err, live>>

\* NewServer, SetEventHandler(server.BroadcastEvent), listen.
Serve ==
  /\ main = "boot"
  /\ main' = "serve"
  /\ UNCHANGED <<storeVars, boots, callerVars, engineVars, live>>

\* SIGINT or SIGTERM: server.Stop() closes the listener.
Signal ==
  /\ main = "serve"
  /\ main' = "drain"
  /\ UNCHANGED <<storeVars, boots, callerVars, engineVars, live>>

\* app.Shutdown() returns once no handler is running.
Drained ==
  /\ main = "drain"
  /\ \A r \in Requests : pc[r] \notin {"send", "wait"}
  /\ main' = "consumers"
  /\ UNCHANGED <<storeVars, boots, callerVars, engineVars, live>>

\* The deferred loop calls Consumer.Stop one consumer after the other: cancel,
\* then wait for its goroutine.
StopConsumer(t) ==
  /\ main = "consumers"
  /\ t \notin cancelled
  /\ \A u \in cancelled : pc[u] = "exited"
  /\ cancelled' = cancelled \cup {t}
  /\ UNCHANGED <<storeVars, main, boots, pc, position, engineVars, live>>

\* Seeded fault: Consumer.Stop cancels without waiting for its goroutine.
ConsumersCancelled == Topics \subseteq cancelled

\* Every Consumer.Stop has returned.
ConsumersStopped == \A t \in Topics : t \in cancelled /\ pc[t] = "exited"

\* The consumers' deferred Stop has returned; Engine.Stop closes the channel.
StopEngine ==
  /\ main = "consumers"
  /\ ConsumersStopped
  /\ main' = "engine"
  /\ closed' = TRUE
  /\ UNCHANGED <<storeVars, boots, callerVars, eventChan, acked, failed, worker,
                 batch, attempt, err, live>>

\* wg.Wait() returns, the engine context is cancelled, main returns.
Exit ==
  /\ main = "engine"
  /\ worker = "exited"
  /\ LoseMemory

Crash ==
  /\ main # "down"
  /\ LoseMemory

-----------------------------------------------------------------------------
(* Consumer.Start: the goroutine of topic t.                               *)

Goto(k, label) == pc' = [pc EXCEPT ![k] = label]

\* Seeded fault: the loop never looks at its context.
IgnoresContext(t) == FALSE

\* c.ctx is done.
Stopping(t) == t \in cancelled

\* The select at the top of the loop.
Loop(t) ==
  /\ pc[t] = "loop"
  /\ Goto(t, IF Stopping(t) THEN "exited" ELSE "fetch")
  /\ UNCHANGED <<storeVars, main, boots, position, cancelled, engineVars, live>>

\* FetchMessage returns the next record.  One that does not parse is committed
\* without being stored; the others go to AddEvent.
Fetch(t) ==
  /\ pc[t] = "fetch"
  /\ position[t] < Len(log[t])
  /\ position' = [position EXCEPT ![t] = @ + 1]
  /\ Goto(t, IF WellFormed(t, position[t] + 1) THEN "send" ELSE "commit")
  /\ UNCHANGED <<storeVars, main, boots, cancelled, engineVars, live>>

\* FetchMessage returns an error because the context was cancelled.
FetchCancelled(t) ==
  /\ pc[t] = "fetch"
  /\ Stopping(t)
  /\ Goto(t, "exited")
  /\ UNCHANGED <<storeVars, main, boots, position, cancelled, engineVars, live>>

\* CommitMessages: the broker records the offset, or the call fails and the
\* error is only logged.
Commit(t) ==
  /\ pc[t] = "commit"
  /\ committed' = [committed EXCEPT ![t] = position[t]]
  /\ Goto(t, "loop")
  /\ UNCHANGED <<log, stored, missed, skipped, main, boots, position, cancelled,
                 engineVars, live>>

CommitError(t) ==
  /\ pc[t] = "commit"
  /\ Goto(t, "loop")
  /\ UNCHANGED <<storeVars, main, boots, position, cancelled, engineVars, live>>

-----------------------------------------------------------------------------
(* handleIngest: the HTTP handler of request r.                            *)

\* BodyParser accepts the body and the handler enters AddEvent, or it answers
\* 400 and touches nothing.
Ingest(r) ==
  /\ main \in {"serve", "drain"}
  /\ pc[r] = "new"
  /\ \E next \in {"send", "400"} : Goto(r, next)
  /\ UNCHANGED <<storeVars, main, boots, position, cancelled, engineVars, live>>

-----------------------------------------------------------------------------
(* Engine.AddEvent.                                                        *)

\* First select: the channel has room.  (A send on a closed channel panics;
\* NoSendOnClosedChannel says that this never happens.)
Send(k) ==
  /\ pc[k] = "send"
  /\ ~closed
  /\ Len(eventChan) < ChanCap
  /\ eventChan' = Append(eventChan, EventOf(k))
  /\ Goto(k, "wait")
  /\ UNCHANGED <<storeVars, main, boots, position, cancelled, closed, acked,
                 failed, worker, batch, attempt, err, live>>

\* Second select: the done channel has the worker's verdict.  The consumer
\* commits on nil and moves on to the next record on an error; the HTTP
\* handler answers 202 or 503.
Answer(k) ==
  /\ pc[k] = "wait"
  /\ LET e == EventOf(k) IN
       \/ /\ e \in acked
          /\ Goto(k, IF k \in Topics THEN "commit" ELSE "202")
          /\ UNCHANGED skipped
       \/ /\ e \in failed
          /\ Goto(k, IF k \in Topics THEN "loop" ELSE "503")
          /\ skipped' = IF k \in Topics THEN skipped \cup {e} ELSE skipped
  /\ UNCHANGED <<log, committed, stored, missed, main, boots, position,
                 cancelled, engineVars, live>>

\* ctx.Done() in either select: the consumer's 30 s timeout or its cancelled
\* context.  The event stays in the channel or batch if it was queued.  The
\* HTTP handler passes UserContext(), which is never done.
GiveUp(t) ==
  /\ pc[t] \in {"send", "wait"}
  /\ Goto(t, "loop")
  /\ skipped' = skipped \cup {EventOf(t)}
  /\ UNCHANGED <<log, committed, stored, missed, main, boots, position,
                 cancelled, engineVars, live>>

-----------------------------------------------------------------------------
(* Engine.worker.                                                          *)

\* Receive from eventChan; a full batch is flushed at once.
Receive ==
  /\ worker = "select"
  /\ eventChan # <<>>
  /\ batch' = Append(batch, Head(eventChan))
  /\ eventChan' = Tail(eventChan)
  /\ worker' = IF Len(batch) + 1 >= BatchSize THEN "insert" ELSE "select"
  /\ UNCHANGED <<storeVars, main, boots, callerVars, closed, acked, failed,
                 attempt, err, live>>

\* Seeded fault: only a full batch is flushed.
FullBatch == Len(batch) >= BatchSize

\* flush() does something only for a batch that holds an event.
Flushable == batch # <<>>

\* The ticker fires, or the closed channel is empty: flush what there is.
Tick ==
  /\ worker = "select"
  /\ Flushable
  /\ worker' = "insert"
  /\ UNCHANGED <<storeVars, main, boots, callerVars, eventChan, closed, acked,
                 failed, batch, attempt, err, live>>

\* InsertBatch succeeds.
InsertOk ==
  /\ worker = "insert"
  /\ stored' = stored \cup Elements(batch)
  /\ worker' = "reply"
  /\ attempt' = 0
  /\ err' = "nil"
  /\ UNCHANGED <<log, committed, missed, skipped, main, boots, callerVars,
                 eventChan, closed, acked, failed, batch, live>>

\* Seeded fault: the retry loop runs once too often.
LateLastAttempt == attempt >= MaxAttempts

\* The attempt that just failed was the last one of the retry loop.
LastAttempt == attempt + 1 >= MaxAttempts

\* InsertBatch returns an error: the block may have been written in part or
\* in whole all the same.  The flush retries until its attempts are used up.
InsertError ==
  /\ worker = "insert"
  /\ \E kept \in SUBSET Elements(batch) : stored' = stored \cup kept
  /\ attempt' = IF LastAttempt THEN 0 ELSE attempt + 1
  /\ worker'  = IF LastAttempt THEN "reply" ELSE "insert"
  /\ err' = IF LastAttempt THEN "error" ELSE "nil"
  /\ UNCHANGED <<log, committed, missed, skipped, main, boots, callerVars,
                 eventChan, closed, acked, failed, batch, live>>

\* Seeded fault: the error of the last attempt is not looked at.
IgnoredError == FALSE

\* err != nil after the retry loop.
InsertFailed == err = "error"

\* The loops that answer the items of the batch one by one; a stored event is
\* also passed to onEvent once main has installed the handler.
Reply ==
  /\ worker = "reply"
  /\ LET e == Head(batch) IN
       IF InsertFailed
       THEN failed' = failed \cup {e} /\ UNCHANGED <<acked, live>>
       ELSE /\ acked' = acked \cup {e}
            /\ live' = IF main = "boot" THEN live ELSE live \cup {e}
            /\ UNCHANGED failed
  /\ batch' = Tail(batch)
  /\ worker' = IF Len(batch) > 1 THEN "reply" ELSE "select"
  /\ err' = IF Len(batch) > 1 THEN err ELSE "nil"
  /\ UNCHANGED <<storeVars, main, boots, callerVars, eventChan, closed, attempt>>

\* The receive reports a closed and drained channel, and flush() has answered
\* the last batch.
WorkerExit ==
  /\ worker = "select"
  /\ closed /\ eventChan = <<>> /\ batch = <<>>
  /\ worker' = "exited"
  /\ UNCHANGED <<storeVars, main, boots, callerVars, eventChan, closed, acked,
                 failed, batch, attempt, err, live>>

-----------------------------------------------------------------------------
ConsumerStep(t) == Loop(t) \/ Fetch(t) \/ FetchCancelled(t) \/ Commit(t)
                   \/ CommitError(t) \/ GiveUp(t)

WorkerStep == Receive \/ Tick \/ InsertOk \/ InsertError \/ Reply \/ WorkerExit

MainStep == Boot \/ Serve \/ Drained \/ StopEngine \/ Exit
            \/ \E t \in Topics : StopConsumer(t)

Next ==
  \/ \E t \in Topics, kind \in {"event", "malformed"} : Produce(t, kind)
  \/ MainStep \/ Signal \/ Crash
  \/ \E t \in Topics : ConsumerStep(t)
  \/ \E r \in Requests : Ingest(r)
  \/ \E k \in Callers : Send(k) \/ Answer(k)
  \/ WorkerStep

\* Goroutines that can run do run; the select of AddEvent is not starved of a
\* channel slot that keeps becoming free.  Nothing is assumed of signals,
\* crashes, timeouts, producers or clients.
Fairness ==
  /\ WF_vars(MainStep)
  /\ WF_vars(WorkerStep)
  /\ \A t \in Topics : WF_vars(Loop(t) \/ Fetch(t) \/ FetchCancelled(t)
                               \/ Commit(t) \/ CommitError(t))
  /\ \A k \in Callers : WF_vars(Answer(k)) /\ SF_vars(Send(k))

Spec == Init /\ [][Next]_vars

FairSpec == Spec /\ Fairness

-----------------------------------------------------------------------------
(* Properties.                                                             *)

TypeOK ==
  /\ log \in [Topics -> Seq({"event", "malformed"})]
  /\ committed \in [Topics -> Nat]
  /\ stored \subseteq Event
  /\ missed \subseteq Message
  /\ skipped \subseteq Message
  /\ main \in {"boot", "serve", "drain", "consumers", "engine", "down"}
  /\ boots \in Nat
  /\ pc \in [Callers -> {"exited", "loop", "fetch", "send", "wait", "commit",
                         "new", "gone", "202", "400", "503"}]
  /\ position \in [Topics -> Nat]
  /\ cancelled \subseteq Topics
  /\ eventChan \in Seq(Event)
  /\ closed \in BOOLEAN
  /\ acked \subseteq Event
  /\ failed \subseteq Event
  /\ worker \in {"select", "insert", "reply", "exited"}
  /\ batch \in Seq(Event)
  /\ attempt \in 0..(MaxAttempts - 1)
  /\ err \in {"nil", "error"}
  /\ live \subseteq Event

\* What the service promises its producers and readers (module DurableIngest):
\* a request is accepted, an event shown live and an offset committed only
\* over what is in ClickHouse or was explicitly given up.  A malformed record
\* is given up the moment it is produced.
Malformed == {m \in Produced : ~WellFormed(m[1], m[2])}

Durable == INSTANCE DurableIngest
             WITH given_up <- missed \cup skipped \cup Malformed,
                  accepted <- {r \in Requests : pc[r] = "202"}

ImplementsDurableIngest == Durable!Spec

\* main() stops the parts in an order in which no goroutine can be inside
\* AddEvent's send when Engine.Stop closes the channel (the send would panic).
NoSendOnClosedChannel == closed => Sending = {}

\* An HTTP client always gets a verdict, although handleIngest waits without a
\* timeout: the worker flushes partial batches on its ticker and answers every
\* item on success and on failure alike (only a crash leaves it unanswered).
RequestsAnswered ==
  \A r \in Requests :
    pc[r] \in {"send", "wait"} ~> pc[r] \in {"202", "503", "gone"}

\* SIGTERM always ends the process: no part that main() waits for waits for a
\* part that main() has already stopped.
ShutdownCompletes == main = "drain" ~> main = "down"

\* README: "Kafka consumers commit offsets only after durable processing".
\* Every well-formed record the group has consumed, up to the committed one,
\* is in ClickHouse.
CommittedIsDurable ==
  \A t \in Topics : \A i \in 1..committed[t] :
    WellFormed(t, i) => <<t, i>> \in stored \cup missed

=============================================================================
