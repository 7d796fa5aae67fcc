--------------------------- MODULE AnalyticsProofs ----------------------------
(***************************************************************************)
(* Proofs about analytics-service.  AnalyticsIngest, for any topics,       *)
(* requests and bounds: its types, that its shutdown never panics, and     *)
(* that it implements DurableIngest.  Its inductive invariant has one part *)
(* per idea:                                                               *)
(*   PhaseInv    who may still be inside AddEvent in each phase of main()  *)
(*   BatchInv    only a batch that holds an event is flushed               *)
(*   WorkerInv   what the worker knows about its batch                     *)
(*   DurableInv  every success that was reported is backed by a row        *)
(*   OffsetInv   what lies behind the fetch position and the offset        *)
(* Hub, for any clients and capacities: frames in order.                   *)
(*   LifeInv      a client registers once; its channel is closed at its end*)
(*   PipelineInv  what is under way to a client is in order                *)
(***************************************************************************)
EXTENDS AnalyticsIngest, Hub, SequenceTheorems, TLAPS

PhaseInv ==
  /\ closed => main = "engine"
  /\ main \in {"consumers", "engine", "down"} =>
       \A r \in Requests : pc[r] \notin {"send", "wait"}
  /\ main \in {"engine", "down"} => \A t \in Topics : pc[t] = "exited"

BatchInv == worker \in {"insert", "reply"} => batch # <<>>

WorkerInv ==
  /\ worker = "reply" /\ err = "nil" => Elements(batch) \subseteq stored
  /\ worker = "exited" /\ main # "down" =>
       closed /\ eventChan = <<>> /\ batch = <<>>

DurableInv ==
  /\ acked \subseteq stored
  /\ live \subseteq stored
  /\ \A r \in Requests : pc[r] = "202" => r \in stored

\* The records an offset may move over.
Settled == stored \cup missed \cup skipped \cup Malformed

\* The part of OffsetInv about topic t.
OffsetInvAt(t) ==
  /\ committed[t] <= Len(log[t])
  /\ \A i \in 1..committed[t] : <<t, i>> \in Settled
  /\ main # "down" =>
       /\ committed[t] <= position[t]
       /\ position[t] <= Len(log[t])
       /\ pc[t] \in {"send", "wait", "commit"} => committed[t] < position[t]
       /\ \A i \in 1..position[t] :
            i < position[t] \/ pc[t] \notin {"send", "wait"}
              => <<t, i>> \in Settled

OffsetInv == \A t \in Topics : OffsetInvAt(t)

IInv == TypeOK /\ BatchInv /\ PhaseInv /\ WorkerInv /\ DurableInv /\ OffsetInv

-----------------------------------------------------------------------------
(* Facts about the helper operators.                                       *)

\* Appending adds exactly one element.
LEMMA ElementsAppend ==
  ASSUME NEW S, NEW s \in Seq(S), NEW e \in S
  PROVE  Elements(Append(s, e)) = Elements(s) \cup {e}
  BY DEF Elements

\* Dropping the head adds nothing, and the head is an element.
LEMMA ElementsTail ==
  ASSUME NEW S, NEW s \in Seq(S), s # <<>>
  PROVE  /\ Head(s) \in Elements(s)
         /\ Head(s) \in S
         /\ Tail(s) \in Seq(S)
         /\ Elements(Tail(s)) \subseteq Elements(s)
  BY DEF Elements

\* Dropping one of two or more elements leaves some.
LEMMA TailNonEmpty ==
  ASSUME NEW S, NEW s \in Seq(S), Len(s) > 1
  PROVE  Tail(s) # <<>>
  <1>1. Len(s) \in Nat
    BY LenProperties
  <1>2. s # <<>>
    BY <1>1, EmptySeq
  <1>3. Len(Tail(s)) = Len(s) - 1
    BY <1>2, HeadTailProperties
  <1>4. \A n \in Nat : n > 1 => n - 1 # 0
    OBVIOUS
  <1>5. Len(Tail(s)) # 0
    BY <1>1, <1>3, <1>4, Zenon
  <1>6. Len(<<>>) = 0
    BY EmptySeq
  <1>7. QED
    BY <1>5, <1>6, Zenon

\* The elements of a sequence over S are in S.
LEMMA ElementsType ==
  ASSUME NEW S, NEW s \in Seq(S)
  PROVE  Elements(s) \subseteq S
  BY DEF Elements

\* What a caller hands to AddEvent is an event.
LEMMA EventOfType ==
  ASSUME TypeOK, NEW k \in Callers
  PROVE  EventOf(k) \in Event /\ (k \in Topics => EventOf(k) \in Message)
  BY DEF TypeOK, EventOf, Event, Message, Callers

-----------------------------------------------------------------------------
(* Type correctness.                                                       *)

\* A flush starts with no attempt made, which the retry loop allows.
LEMMA NoAttempt == 0 \in 0..(MaxAttempts - 1)
  BY BoundsAssumption

\* The initial state has the declared types.
LEMMA InitType == Init => TypeOK
  <1> SUFFICES ASSUME Init PROVE TypeOK
    OBVIOUS
  <1>1. log \in [Topics -> Seq({"event", "malformed"})]
    BY EmptySeq DEF Init
  <1>2. eventChan \in Seq(Event) /\ batch \in Seq(Event)
    BY EmptySeq DEF Init
  <1>3. QED
    BY <1>1, <1>2, NoAttempt DEF Init, TypeOK

\* Losing the process's memory, by a crash or an exit, keeps the types.
LEMMA LoseMemoryType == TypeOK /\ LoseMemory => TypeOK'
  <1> SUFFICES ASSUME TypeOK, LoseMemory PROVE TypeOK'
    OBVIOUS
  <1>1. pc' \in [Callers -> {"exited", "loop", "fetch", "send", "wait",
                "commit", "new", "gone", "202", "400", "503"}]
    BY DEF TypeOK, LoseMemory
  <1>2. eventChan' \in Seq(Event) /\ batch' \in Seq(Event)
    BY EmptySeq DEF LoseMemory
  <1>3. QED
    BY <1>1, <1>2, NoAttempt DEF TypeOK, LoseMemory, storeVars

\* Every step keeps the types; taking the head of the batch needs BatchInv.
LEMMA NextType == TypeOK /\ BatchInv /\ [Next]_vars => TypeOK'
  <1> SUFFICES ASSUME TypeOK, BatchInv, [Next]_vars PROVE TypeOK'
    OBVIOUS
  <1> USE DEF storeVars, callerVars, engineVars
  <1>1. ASSUME NEW t \in Topics, NEW kind \in {"event", "malformed"},
               Produce(t, kind)
        PROVE  TypeOK'
    BY <1>1 DEF TypeOK, Produce
  <1>2. CASE Boot
    <2>1. Produced \subseteq Message
      BY DEF Produced, Message, TypeOK
    <2>2. missed' \subseteq Message
      BY <1>2, <2>1 DEF Boot, TypeOK
    <2>3. position' \in [Topics -> Nat]
      BY <1>2 DEF Boot, StartPosition, TypeOK
    <2>4. pc' \in [Callers -> {"exited", "loop", "fetch", "send", "wait",
                  "commit", "new", "gone", "202", "400", "503"}]
      BY <1>2 DEF Boot, TypeOK
    <2>5. QED
      BY <1>2, <2>2, <2>3, <2>4 DEF Boot, TypeOK
  <1>3. CASE Serve \/ Signal \/ Drained \/ StopEngine
    BY <1>3 DEF TypeOK, Serve, Signal, Drained, StopEngine
  <1>4. CASE Exit \/ Crash
    BY <1>4, LoseMemoryType DEF Exit, Crash
  <1>5. ASSUME NEW t \in Topics, StopConsumer(t) PROVE TypeOK'
    BY <1>5 DEF TypeOK, StopConsumer
  <1>6. ASSUME NEW t \in Topics,
               Loop(t) \/ Fetch(t) \/ FetchCancelled(t) \/ CommitError(t)
        PROVE  TypeOK'
    <2> USE DEF Goto, Callers
    <2>1. CASE Loop(t)
      BY <2>1 DEF TypeOK, Loop
    <2>2. CASE Fetch(t)
      BY <2>2 DEF TypeOK, Fetch
    <2>3. CASE FetchCancelled(t) \/ CommitError(t)
      BY <2>3 DEF TypeOK, FetchCancelled, CommitError
    <2>4. QED
      BY <1>6, <2>1, <2>2, <2>3
  <1>7. ASSUME NEW t \in Topics, Commit(t) PROVE TypeOK'
    BY <1>7 DEF TypeOK, Commit, Goto, Callers
  <1>8. ASSUME NEW t \in Topics, GiveUp(t) PROVE TypeOK'
    <2>1. EventOf(t) \in Message
      BY EventOfType DEF Callers
    <2>2. QED
      BY <1>8, <2>1 DEF TypeOK, GiveUp, Goto, Callers
  <1>9. ASSUME NEW r \in Requests, Ingest(r) PROVE TypeOK'
    BY <1>9 DEF TypeOK, Ingest, Goto, Callers
  <1>10. ASSUME NEW k \in Callers, Send(k) PROVE TypeOK'
    <2>1. EventOf(k) \in Event
      BY EventOfType
    <2>2. QED
      BY <1>10, <2>1 DEF TypeOK, Send, Goto
  <1>11. ASSUME NEW k \in Callers, Answer(k) PROVE TypeOK'
    <2>1. k \in Topics => EventOf(k) \in Message
      BY EventOfType
    <2>2. skipped' \subseteq Message
      BY <1>11, <2>1 DEF TypeOK, Answer
    <2>3. QED
      BY <1>11, <2>2 DEF TypeOK, Answer, Goto
  <1>12. CASE Receive
    <2>1. Head(eventChan) \in Event /\ Tail(eventChan) \in Seq(Event)
      BY <1>12, ElementsTail DEF Receive, TypeOK
    <2>2. QED
      BY <1>12, <2>1 DEF TypeOK, Receive
  <1>13. CASE Tick \/ WorkerExit
    BY <1>13 DEF TypeOK, Tick, WorkerExit
  <1>14. CASE InsertOk \/ InsertError
    <2>1. Elements(batch) \subseteq Event
      BY ElementsType DEF TypeOK
    <2>2. stored' \subseteq Event
      BY <1>14, <2>1 DEF TypeOK, InsertOk, InsertError
    <2>3. attempt' \in 0..(MaxAttempts - 1)
      BY <1>14, BoundsAssumption DEF TypeOK, InsertOk, InsertError, LastAttempt
    <2>4. err' \in {"nil", "error"}
      BY <1>14 DEF InsertOk, InsertError
    <2>5. worker' \in {"reply", "insert"}
      BY <1>14 DEF InsertOk, InsertError
    <2>6. QED
      BY <1>14, <2>2, <2>3, <2>4, <2>5 DEF TypeOK, InsertOk, InsertError
  <1>15. CASE Reply
    <2>1. Head(batch) \in Event /\ Tail(batch) \in Seq(Event)
      BY <1>15, ElementsTail DEF TypeOK, BatchInv, Reply
    <2>2. QED
      BY <1>15, <2>1 DEF TypeOK, Reply, InsertFailed
  <1>16. CASE UNCHANGED vars
    BY <1>16 DEF TypeOK, vars
  <1>17. QED
    BY <1>1, <1>2, <1>3, <1>4, <1>5, <1>6, <1>7, <1>8, <1>9, <1>10, <1>11,
       <1>12, <1>13, <1>14, <1>15, <1>16
    DEF Next, MainStep, ConsumerStep, WorkerStep

-----------------------------------------------------------------------------
(* The parts of the inductive invariant.                                   *)

\* Every step keeps BatchInv: flush inserts and answers only a batch that holds
\* an event.
LEMMA NextBatch == TypeOK /\ BatchInv /\ [Next]_vars => BatchInv'
  <1> SUFFICES ASSUME TypeOK, BatchInv, [Next]_vars PROVE BatchInv'
    OBVIOUS
  <1> USE DEF storeVars, callerVars, engineVars, BatchInv
  <1>1. CASE Receive
    <2>1. batch \in Seq(Event) /\ Head(eventChan) \in Event
      BY <1>1, ElementsTail DEF TypeOK, Receive
    <2>2. Append(batch, Head(eventChan)) # <<>>
      BY <2>1, AppendProperties
    <2>3. QED
      BY <1>1, <2>2 DEF Receive
  <1>2. CASE Tick \/ InsertOk \/ InsertError \/ WorkerExit
    BY <1>2 DEF Tick, Flushable, InsertOk, InsertError, WorkerExit
  <1>3. CASE Reply
    <2>1. Len(batch) > 1 => Tail(batch) # <<>>
      BY TailNonEmpty DEF TypeOK
    <2>2. QED
      BY <1>3, <2>1 DEF Reply
  <1>4. CASE Boot \/ Exit \/ Crash
    BY <1>4 DEF Boot, Exit, Crash, LoseMemory
  <1>5. CASE UNCHANGED <<worker, batch>>
    BY <1>5
  <1>6. QED
    BY <1>1, <1>2, <1>3, <1>4, <1>5
    DEF Next, MainStep, ConsumerStep, WorkerStep, vars, Produce, Serve, Signal,
        Drained, StopConsumer, StopEngine, Loop, Fetch, FetchCancelled, Commit,
        CommitError, Ingest, Send, Answer, GiveUp

\* Every step keeps PhaseInv: main() stops the HTTP server, then the consumers,
\* then the engine, and nothing that was stopped starts again before the next boot.
LEMMA NextPhase == TypeOK /\ PhaseInv /\ [Next]_vars => PhaseInv'
  <1> SUFFICES ASSUME TypeOK, PhaseInv, [Next]_vars PROVE PhaseInv'
    OBVIOUS
  <1> USE CallersAssumption
      DEF storeVars, callerVars, engineVars, PhaseInv, Goto, Callers
  <1>1. CASE Boot \/ Serve \/ Signal \/ Drained
    BY <1>1 DEF Boot, Serve, Signal, Drained, TypeOK
  <1>2. CASE StopEngine
    BY <1>2 DEF StopEngine, ConsumersStopped
  <1>3. CASE Exit \/ Crash
    BY <1>3 DEF Exit, Crash, LoseMemory, TypeOK
  <1>4. ASSUME NEW t \in Topics, ConsumerStep(t)
        PROVE  PhaseInv'
    <2>1. pc[t] # "exited"
      BY <1>4 DEF ConsumerStep, Loop, Fetch, FetchCancelled, Commit,
                  CommitError, GiveUp
    <2>2. main \notin {"engine", "down"}
      BY <2>1
    <2>3. UNCHANGED <<main, closed>>
      BY <1>4 DEF ConsumerStep, Loop, Fetch, FetchCancelled, Commit,
                  CommitError, GiveUp
    <2>4. \A r \in Requests : pc'[r] = pc[r]
      BY <1>4 DEF ConsumerStep, Loop, Fetch, FetchCancelled, Commit,
                  CommitError, GiveUp, TypeOK
    <2>5. QED
      BY <2>2, <2>3, <2>4
  <1>5. ASSUME NEW r \in Requests, Ingest(r) PROVE PhaseInv'
    BY <1>5 DEF Ingest, TypeOK
  <1>6. ASSUME NEW k \in Callers, Send(k) \/ Answer(k) PROVE PhaseInv'
    <2>1. pc[k] \in {"send", "wait"}
      BY <1>6 DEF Send, Answer
    <2>2. k \in Topics \/ main \notin {"consumers", "engine", "down"}
      BY <2>1
    <2>3. main \notin {"engine", "down"}
      BY <2>1, <2>2
    <2>4. UNCHANGED <<main, closed>>
      BY <1>6 DEF Send, Answer
    <2>5. \A c \in Callers \ {k} : pc'[c] = pc[c]
      BY <1>6 DEF Send, Answer, TypeOK
    <2>6. QED
      BY <2>2, <2>3, <2>4, <2>5
  <1>7. CASE UNCHANGED <<closed, main, pc>>
    BY <1>7
  <1>8. QED
    BY <1>1, <1>2, <1>3, <1>4, <1>5, <1>6, <1>7
    DEF Next, MainStep, WorkerStep, vars, Produce, StopConsumer, Receive, Tick,
        InsertOk, InsertError, Reply, WorkerExit

\* Every step keeps WorkerInv: the worker returns only after it has drained the
\* closed channel, and nobody can queue an event afterwards.
LEMMA NextWorker ==
  TypeOK /\ BatchInv /\ PhaseInv /\ WorkerInv /\ [Next]_vars => WorkerInv'
  <1> SUFFICES ASSUME TypeOK, BatchInv, PhaseInv, WorkerInv, [Next]_vars
               PROVE  WorkerInv'
    OBVIOUS
  <1> USE DEF storeVars, callerVars, engineVars, WorkerInv
  <1>1. CASE Boot
    BY <1>1 DEF Boot
  <1>2. CASE Serve \/ Signal \/ Drained
    BY <1>2 DEF Serve, Signal, Drained
  <1>3. CASE StopEngine
    BY <1>3 DEF StopEngine, PhaseInv
  <1>4. CASE Exit \/ Crash
    BY <1>4 DEF Exit, Crash, LoseMemory
  <1>5. ASSUME NEW k \in Callers, Send(k) PROVE WorkerInv'
    <2>1. worker = "exited" => main = "down"
      BY <1>5 DEF Send
    <2>2. main # "down"
      BY <1>5 DEF Send, PhaseInv, Callers
    <2>3. QED
      BY <1>5, <2>1, <2>2 DEF Send
  <1>6. CASE Receive
    BY <1>6 DEF Receive
  <1>7. CASE Tick \/ InsertOk \/ WorkerExit
    BY <1>7 DEF Tick, InsertOk, WorkerExit
  <1>8. CASE InsertError
    BY <1>8 DEF InsertError, TypeOK
  <1>9. CASE Reply
    <2>1. Elements(Tail(batch)) \subseteq Elements(batch)
      BY <1>9, ElementsTail DEF Reply, BatchInv, TypeOK
    <2>2. QED
      BY <1>9, <2>1 DEF Reply, TypeOK
  <1>10. CASE UNCHANGED <<main, stored, engineVars>>
    BY <1>10 DEF Elements
  <1>11. QED
    BY <1>1, <1>2, <1>3, <1>4, <1>5, <1>6, <1>7, <1>8, <1>9, <1>10
    DEF Next, MainStep, ConsumerStep, WorkerStep, vars, Produce, StopConsumer,
        Loop, Fetch, FetchCancelled, Commit, CommitError, Ingest, Answer, GiveUp

\* Every step keeps DurableInv: the worker answers nil, and main's handler shows
\* an event live, only after InsertBatch has stored it.
LEMMA NextDurable ==
  TypeOK /\ BatchInv /\ WorkerInv /\ DurableInv /\ [Next]_vars => DurableInv'
  <1> SUFFICES ASSUME TypeOK, BatchInv, WorkerInv, DurableInv, [Next]_vars
               PROVE  DurableInv'
    OBVIOUS
  <1> USE DEF storeVars, callerVars, engineVars, DurableInv
  <1>1. CASE Boot
    BY <1>1, CallersAssumption DEF Boot, Callers
  <1>2. CASE Exit \/ Crash
    BY <1>2, CallersAssumption DEF Exit, Crash, LoseMemory, Callers
  <1>3. ASSUME NEW t \in Topics, ConsumerStep(t) PROVE DurableInv'
    <2>1. \A r \in Requests : pc'[r] = pc[r]
      BY <1>3, CallersAssumption
      DEF ConsumerStep, Loop, Fetch, FetchCancelled, Commit, CommitError,
          GiveUp, Goto, Callers, TypeOK
    <2>2. UNCHANGED <<stored, acked, live>>
      BY <1>3 DEF ConsumerStep, Loop, Fetch, FetchCancelled, Commit,
                  CommitError, GiveUp
    <2>3. QED
      BY <2>1, <2>2
  <1>4. ASSUME NEW r \in Requests, Ingest(r) PROVE DurableInv'
    BY <1>4 DEF Ingest, Goto, TypeOK, Callers
  <1>5. ASSUME NEW k \in Callers, Send(k) PROVE DurableInv'
    BY <1>5 DEF Send, Goto, TypeOK, Callers
  <1>6. ASSUME NEW k \in Callers, Answer(k) PROVE DurableInv'
    <2>1. UNCHANGED <<stored, acked, live>>
      BY <1>6 DEF Answer
    <2>2. \A c \in Callers \ {k} : pc'[c] = pc[c]
      BY <1>6 DEF Answer, Goto, TypeOK
    <2>3. k \in Requests /\ pc'[k] = "202" => k \in stored
      BY <1>6, CallersAssumption DEF Answer, Goto, TypeOK, EventOf
    <2>4. QED
      BY <2>1, <2>2, <2>3 DEF Callers
  <1>7. CASE InsertOk \/ InsertError
    BY <1>7 DEF InsertOk, InsertError
  <1>8. CASE Reply
    <2>1. err # "error" => Head(batch) \in stored
      BY <1>8, ElementsTail DEF Reply, BatchInv, WorkerInv, TypeOK
    <2>2. QED
      BY <1>8, <2>1 DEF Reply, InsertFailed
  <1>9. CASE UNCHANGED <<stored, acked, live, pc>>
    BY <1>9
  <1>10. QED
    BY <1>1, <1>2, <1>3, <1>4, <1>5, <1>6, <1>7, <1>8, <1>9
    DEF Next, MainStep, WorkerStep, vars, Produce, Serve, Signal, Drained,
        StopConsumer, StopEngine, Receive, Tick, WorkerExit

\* Every record behind a settled one stays settled, whatever is produced.
LEMMA SettledGrows ==
  ASSUME TypeOK, TypeOK', stored \subseteq stored', missed \subseteq missed',
         skipped \subseteq skipped',
         \/ log' = log
         \/ \E t \in Topics, kind \in {"event", "malformed"} :
              log' = [log EXCEPT ![t] = Append(@, kind)]
  PROVE  Settled \subseteq Settled'
  <1>1. \A t \in Topics : \A i \in 1..Len(log[t]) :
          i \in 1..Len(log'[t]) /\ log'[t][i] = log[t][i]
    <2>1. CASE log' = log
      BY <2>1
    <2>2. ASSUME NEW u \in Topics, NEW kind \in {"event", "malformed"},
                 log' = [log EXCEPT ![u] = Append(@, kind)]
          PROVE  \A t \in Topics : \A i \in 1..Len(log[t]) :
                   i \in 1..Len(log'[t]) /\ log'[t][i] = log[t][i]
      <3>1. log'[u] = Append(log[u], kind) /\ \A t \in Topics \ {u} : log'[t] = log[t]
        BY <2>2 DEF TypeOK
      <3>2. log[u] \in Seq({"event", "malformed"}) /\ Len(log[u]) \in Nat
        BY LenProperties DEF TypeOK
      <3>3. Len(log'[u]) = Len(log[u]) + 1
        BY <3>1, <3>2, AppendProperties
      <3>4. \A i \in 1..Len(log[u]) : log'[u][i] = log[u][i]
        BY <3>1, <3>2, AppendProperties
      <3>5. QED
        BY <3>1, <3>2, <3>3, <3>4
    <2>3. QED
      BY <2>1, <2>2
  <1>2. Malformed \subseteq Malformed'
    BY <1>1 DEF Malformed, Produced, WellFormed
  <1>3. QED
    BY <1>2 DEF Settled

\* Nothing about topic u moves, and settled records stay settled.
LEMMA OffsetUntouched ==
  ASSUME TypeOK, TypeOK', NEW u \in Topics, OffsetInvAt(u),
         Settled \subseteq Settled', Len(log[u]) <= Len(log'[u]),
         committed'[u] = committed[u],
         main' # "down" => /\ main # "down"
                           /\ position'[u] = position[u]
                           /\ \/ pc'[u] = pc[u]
                              \/ pc[u] = "send" /\ pc'[u] = "wait"
  PROVE  OffsetInvAt(u)'
  BY DEF OffsetInvAt, TypeOK

\* Every step keeps OffsetInv: the records up to a consumer's position are
\* settled, but for the one it is handling, so a commit covers settled records.
LEMMA NextOffset ==
  IInv /\ TypeOK' /\ [Next]_vars => OffsetInv'
  <1> SUFFICES ASSUME IInv, TypeOK', [Next]_vars PROVE OffsetInv'
    OBVIOUS
  <1> USE DEF storeVars, callerVars, engineVars, IInv
  <1>0. TypeOK /\ PhaseInv /\ DurableInv /\ \A u \in Topics : OffsetInvAt(u)
    BY DEF OffsetInv
  <1>1. ASSUME NEW t \in Topics, NEW kind \in {"event", "malformed"},
               Produce(t, kind)
        PROVE  OffsetInv'
    <2>1. Settled \subseteq Settled'
      BY <1>1, SettledGrows DEF Produce
    <2>2. \A u \in Topics : Len(log[u]) <= Len(log'[u])
      <3>1. log[t] \in Seq({"event", "malformed"}) /\ Len(log[t]) \in Nat
        BY LenProperties DEF TypeOK
      <3>2. Len(Append(log[t], kind)) = Len(log[t]) + 1
        BY <3>1, AppendProperties
      <3>3. \A u \in Topics : Len(log[u]) \in Nat
        BY LenProperties DEF TypeOK
      <3>4. QED
        BY <1>1, <3>1, <3>2, <3>3 DEF Produce, TypeOK
    <2>3. \A u \in Topics : OffsetInvAt(u)'
      BY <1>0, <1>1, <2>1, <2>2, OffsetUntouched DEF Produce
    <2>4. QED
      BY <2>3 DEF OffsetInv
  <1>2. ASSUME \A u \in Topics : log'[u] = log[u]
        PROVE  \A u \in Topics : Len(log[u]) \in Nat /\ Len(log[u]) <= Len(log'[u])
    BY <1>2, LenProperties DEF TypeOK
  <1>3. CASE Boot
    <2>1. Settled \subseteq Settled'
      BY <1>3, SettledGrows DEF Boot
    <2>2. ASSUME NEW u \in Topics PROVE OffsetInvAt(u)'
      <3>1. log' = log /\ committed' = committed /\ main' = "boot"
            /\ pc'[u] = "loop" /\ position'[u] = StartPosition(u)
        BY <1>3 DEF Boot, Callers
      <3>2. Len(log[u]) \in Nat /\ committed[u] \in Nat
        BY LenProperties DEF TypeOK
      <3>3. OffsetInvAt(u)
        BY <1>0
      <3>4. CASE committed[u] = 0
        <4>1. \A i \in 1..Len(log[u]) : <<u, i>> \in Produced
          BY DEF Produced
        <4>2. \A i \in 1..Len(log[u]) : <<u, i>> \in missed'
          BY <1>3, <3>4, <4>1 DEF Boot
        <4>3. QED
          BY <3>1, <3>2, <3>4, <4>2 DEF OffsetInvAt, StartPosition, Settled
      <3>5. CASE committed[u] # 0
        BY <2>1, <3>1, <3>2, <3>3, <3>5 DEF OffsetInvAt, StartPosition
      <3>6. QED
        BY <3>4, <3>5
    <2>3. QED
      BY <2>2 DEF OffsetInv
  <1>4. CASE Exit \/ Crash
    <2>1. Settled \subseteq Settled'
      BY <1>4, SettledGrows DEF Exit, Crash, LoseMemory
    <2>2. \A u \in Topics : OffsetInvAt(u)'
      BY <1>0, <1>2, <1>4, <2>1, OffsetUntouched DEF Exit, Crash, LoseMemory
    <2>3. QED
      BY <2>2 DEF OffsetInv
  <1>5. ASSUME NEW t \in Topics, Loop(t) \/ FetchCancelled(t) \/ CommitError(t)
        PROVE  OffsetInv'
    <2>1. Settled \subseteq Settled'
      BY <1>5, SettledGrows DEF Loop, FetchCancelled, CommitError
    <2>2. UNCHANGED <<log, committed, position, main>>
      BY <1>5 DEF Loop, FetchCancelled, CommitError
    <2>3. ASSUME NEW u \in Topics \ {t} PROVE OffsetInvAt(u)'
      <3>1. pc'[u] = pc[u]
        BY <1>5 DEF Loop, FetchCancelled, CommitError, Goto, TypeOK, Callers
      <3>2. QED
        BY <1>0, <1>2, <2>1, <2>2, <3>1, OffsetUntouched
    <2>4. pc[t] \notin {"send", "wait"}
          /\ pc'[t] \notin {"send", "wait", "commit"}
      BY <1>5 DEF Loop, FetchCancelled, CommitError, Goto, TypeOK, Callers
    <2>5. OffsetInvAt(t)'
      BY <1>0, <2>1, <2>2, <2>4 DEF OffsetInvAt
    <2>6. QED
      BY <2>3, <2>5 DEF OffsetInv
  <1>6. ASSUME NEW t \in Topics, Fetch(t) PROVE OffsetInv'
    <2>1. Settled \subseteq Settled'
      BY <1>6, SettledGrows DEF Fetch
    <2>2. UNCHANGED <<log, committed, main>>
      BY <1>6 DEF Fetch
    <2>3. ASSUME NEW u \in Topics \ {t} PROVE OffsetInvAt(u)'
      <3>1. pc'[u] = pc[u] /\ position'[u] = position[u]
        BY <1>6 DEF Fetch, Goto, TypeOK, Callers
      <3>2. QED
        BY <1>0, <1>2, <2>1, <2>2, <3>1, OffsetUntouched
    <2>4. OffsetInvAt(t)'
      <3>1. /\ pc[t] = "fetch" /\ position[t] < Len(log[t])
            /\ position'[t] = position[t] + 1
            /\ pc'[t] = IF WellFormed(t, position[t] + 1) THEN "send" ELSE "commit"
        BY <1>6 DEF Fetch, Goto, TypeOK, Callers
      <3>2. main # "down"
        BY <1>0, <3>1 DEF PhaseInv
      <3>3. Len(log[t]) \in Nat /\ position[t] \in Nat /\ committed[t] \in Nat
        BY LenProperties DEF TypeOK
      <3>4. ASSUME ~WellFormed(t, position[t] + 1)
            PROVE  <<t, position[t] + 1>> \in Settled
        BY <3>1, <3>3, <3>4 DEF Settled, Malformed, Produced
      <3>5. OffsetInvAt(t)
        BY <1>0
      <3>6. \A i \in 1..position[t] : <<t, i>> \in Settled'
        BY <2>1, <3>1, <3>2, <3>5 DEF OffsetInvAt
      <3>7. \A i \in 1..(position[t] + 1) :
              i < position[t] + 1 \/ pc'[t] # "send" => <<t, i>> \in Settled'
        <4>1. \A i \in 1..(position[t] + 1) :
                i \in 1..position[t] \/ i = position[t] + 1
          BY <3>3
        <4>2. QED
          BY <2>1, <3>1, <3>3, <3>4, <3>6, <4>1
      <3>8. /\ \A i \in 1..committed[t] : <<t, i>> \in Settled'
            /\ committed[t] < position[t] + 1
            /\ position[t] + 1 <= Len(log[t])
            /\ committed[t] <= Len(log[t])
        BY <2>1, <3>1, <3>2, <3>3, <3>5 DEF OffsetInvAt
      <3>9. QED
        BY <2>2, <3>1, <3>3, <3>7, <3>8 DEF OffsetInvAt
    <2>5. QED
      BY <2>3, <2>4 DEF OffsetInv
  <1>7. ASSUME NEW t \in Topics, Commit(t) PROVE OffsetInv'
    <2>1. Settled \subseteq Settled'
      BY <1>7, SettledGrows DEF Commit
    <2>2. UNCHANGED <<log, position, main>>
      BY <1>7 DEF Commit
    <2>3. ASSUME NEW u \in Topics \ {t} PROVE OffsetInvAt(u)'
      <3>1. pc'[u] = pc[u] /\ committed'[u] = committed[u]
        BY <1>7 DEF Commit, Goto, TypeOK, Callers
      <3>2. QED
        BY <1>0, <1>2, <2>1, <2>2, <3>1, OffsetUntouched
    <2>4. OffsetInvAt(t)'
      <3>1. pc[t] = "commit" /\ pc'[t] = "loop" /\ committed'[t] = position[t]
        BY <1>7 DEF Commit, Goto, TypeOK, Callers
      <3>2. main # "down"
        BY <1>0, <3>1 DEF PhaseInv
      <3>3. Len(log[t]) \in Nat /\ position[t] \in Nat
        BY LenProperties DEF TypeOK
      <3>4. QED
        BY <1>0, <2>1, <2>2, <3>1, <3>2, <3>3 DEF OffsetInvAt
    <2>5. QED
      BY <2>3, <2>4 DEF OffsetInv
  <1>8. ASSUME NEW t \in Topics, GiveUp(t) \/ Answer(t) PROVE OffsetInv'
    <2>1. Settled \subseteq Settled'
      BY <1>8, SettledGrows DEF GiveUp, Answer
    <2>2. UNCHANGED <<log, committed, position, main>>
      BY <1>8 DEF GiveUp, Answer
    <2>3. ASSUME NEW u \in Topics \ {t} PROVE OffsetInvAt(u)'
      <3>1. pc'[u] = pc[u]
        BY <1>8 DEF GiveUp, Answer, Goto, TypeOK, Callers
      <3>2. QED
        BY <1>0, <1>2, <2>1, <2>2, <3>1, OffsetUntouched
    <2>4. OffsetInvAt(t)'
      <3>1. pc[t] \in {"send", "wait"} /\ pc'[t] \in {"loop", "commit"}
        BY <1>8 DEF GiveUp, Answer, Goto, TypeOK, Callers
      <3>2. main # "down"
        BY <1>0, <3>1 DEF PhaseInv
      <3>3. Len(log[t]) \in Nat /\ position[t] \in Nat
        BY LenProperties DEF TypeOK
      <3>4. <<t, position[t]>> \in Settled'
        BY <1>0, <1>8 DEF GiveUp, Answer, EventOf, DurableInv, Settled
      <3>5. QED
        BY <1>0, <2>1, <2>2, <3>1, <3>2, <3>3, <3>4 DEF OffsetInvAt
    <2>5. QED
      BY <2>3, <2>4 DEF OffsetInv
  <1>9. ASSUME NEW k \in Callers, Send(k) PROVE OffsetInv'
    <2>1. Settled \subseteq Settled'
      BY <1>9, SettledGrows DEF Send
    <2>2. UNCHANGED <<log, committed, position, main>>
      BY <1>9 DEF Send
    <2>3. \A u \in Topics :
            pc'[u] = pc[u] \/ (pc[u] = "send" /\ pc'[u] = "wait")
      BY <1>9 DEF Send, Goto, TypeOK, Callers
    <2>4. \A u \in Topics : OffsetInvAt(u)'
      BY <1>0, <1>2, <2>1, <2>2, <2>3, OffsetUntouched
    <2>5. QED
      BY <2>4 DEF OffsetInv
  <1>10. ASSUME NEW r \in Requests, Ingest(r) \/ Answer(r) PROVE OffsetInv'
    <2>1. Settled \subseteq Settled'
      BY <1>10, SettledGrows DEF Ingest, Answer
    <2>2. UNCHANGED <<log, committed, position, main>>
      BY <1>10 DEF Ingest, Answer
    <2>3. \A u \in Topics : pc'[u] = pc[u]
      BY <1>10, CallersAssumption DEF Ingest, Answer, Goto, TypeOK, Callers
    <2>4. \A u \in Topics : OffsetInvAt(u)'
      BY <1>0, <1>2, <2>1, <2>2, <2>3, OffsetUntouched
    <2>5. QED
      BY <2>4 DEF OffsetInv
  <1>11. CASE /\ UNCHANGED <<log, committed, missed, skipped, pc, position>>
              /\ stored \subseteq stored'
              /\ main' # "down" => main # "down"
    <2>1. Settled \subseteq Settled'
      BY <1>11, SettledGrows
    <2>2. \A u \in Topics : OffsetInvAt(u)'
      BY <1>0, <1>2, <1>11, <2>1, OffsetUntouched
    <2>3. QED
      BY <2>2 DEF OffsetInv
  <1>12. CASE Serve \/ Signal \/ Drained \/ StopEngine
              \/ (\E t \in Topics : StopConsumer(t)) \/ UNCHANGED vars
    BY <1>11, <1>12 DEF Serve, Signal, Drained, StopEngine, StopConsumer, vars
  <1>13. CASE WorkerStep
    BY <1>11, <1>13 DEF WorkerStep, Receive, Tick, InsertOk, InsertError,
                        Reply, WorkerExit
  <1>14. QED
    BY <1>1, <1>3, <1>4, <1>5, <1>6, <1>7, <1>8, <1>9, <1>10, <1>12, <1>13
    DEF Next, MainStep, ConsumerStep, Callers

-----------------------------------------------------------------------------
(* The theorems.                                                           *)

\* The inductive invariant holds in the initial state.
LEMMA InitInv == Init => IInv
  <1> SUFFICES ASSUME Init PROVE IInv
    OBVIOUS
  <1>1. TypeOK
    BY InitType
  <1>2. BatchInv /\ PhaseInv /\ WorkerInv /\ DurableInv
    BY CallersAssumption
    DEF Init, BatchInv, PhaseInv, WorkerInv, DurableInv, Callers
  <1>3. OffsetInv
    <2>1. \A t \in Topics : Len(log[t]) \in Nat
      BY <1>1, LenProperties DEF TypeOK
    <2>2. main = "down" /\ \A t \in Topics : committed[t] = 0
      BY DEF Init
    <2>3. ASSUME NEW t \in Topics PROVE OffsetInvAt(t)
      <3>1. committed[t] <= Len(log[t]) /\ 1..committed[t] = {}
        BY <2>1, <2>2
      <3>2. QED
        BY <2>2, <3>1, Zenon DEF OffsetInvAt
    <2>4. QED
      BY <2>3 DEF OffsetInv
  <1>4. QED
    BY <1>1, <1>2, <1>3 DEF IInv

\* Every step keeps the inductive invariant.
LEMMA NextInv == IInv /\ [Next]_vars => IInv'
  <1> SUFFICES ASSUME IInv, [Next]_vars PROVE IInv'
    OBVIOUS
  <1>1. TypeOK'
    BY NextType DEF IInv
  <1>2. BatchInv' /\ PhaseInv'
    BY NextBatch, NextPhase DEF IInv
  <1>3. WorkerInv' /\ DurableInv'
    BY NextWorker, NextDurable DEF IInv
  <1>4. OffsetInv'
    BY <1>1, NextOffset
  <1>5. QED
    BY <1>1, <1>2, <1>3, <1>4 DEF IInv

\* The inductive invariant holds throughout.
THEOREM Invariance == Spec => []IInv
  BY InitInv, NextInv, PTL DEF Spec

\* Every variable of the ingest path keeps its type, in every run of the
\* process and across crashes.
THEOREM TypeCorrect == Spec => []TypeOK
  <1>1. IInv => TypeOK
    BY DEF IInv
  <1>2. QED
    BY <1>1, Invariance, PTL

\* main()'s shutdown order keeps every goroutine out of AddEvent's send once
\* Engine.Stop has closed the channel.
THEOREM NoPanic == Spec => []NoSendOnClosedChannel
  <1>1. IInv => NoSendOnClosedChannel
    BY DEF IInv, PhaseInv, NoSendOnClosedChannel, Sending, Callers
  <1>2. QED
    BY <1>1, Invariance, PTL

-----------------------------------------------------------------------------
(* AnalyticsIngest implements DurableIngest.                               *)

\* Every step of the write path is a step of the contract or leaves it unchanged.
LEMMA StepImplements == IInv /\ IInv' /\ [Next]_vars => [Durable!Next]_Durable!vars
  <1> SUFFICES ASSUME IInv, IInv', [Next]_vars
               PROVE  [Durable!Next]_Durable!vars
    OBVIOUS
  <1> USE DEF storeVars, callerVars, engineVars, Durable!vars
  <1>0. TypeOK /\ TypeOK'
    BY DEF IInv
  <1>1. ASSUME UNCHANGED <<missed, skipped, log>>
        PROVE  UNCHANGED (missed \cup skipped \cup Malformed)
    BY <1>1 DEF Malformed, Produced, WellFormed
  <1>2. ASSUME NEW k \in Callers, \A c \in Callers \ {k} : pc'[c] = pc[c],
               k \in Requests => pc[k] # "202" /\ pc'[k] # "202"
        PROVE  UNCHANGED {r \in Requests : pc[r] = "202"}
    BY <1>2 DEF Callers
  <1>3. CASE UNCHANGED <<stored, missed, skipped, log, committed, pc, live>>
    BY <1>1, <1>3
  <1>4. ASSUME NEW t \in Topics, NEW kind \in {"event", "malformed"},
               Produce(t, kind)
        PROVE  [Durable!Next]_Durable!vars
    <2>1. Malformed \subseteq Malformed'
      <3>1. \A u \in Topics : \A i \in 1..Len(log[u]) :
              i \in 1..Len(log'[u]) /\ log'[u][i] = log[u][i]
        <4>1. log'[t] = Append(log[t], kind)
              /\ \A u \in Topics \ {t} : log'[u] = log[u]
          BY <1>0, <1>4 DEF Produce, TypeOK
        <4>2. log[t] \in Seq({"event", "malformed"}) /\ Len(log[t]) \in Nat
          BY <1>0, LenProperties DEF TypeOK
        <4>3. Len(log'[t]) = Len(log[t]) + 1
              /\ \A i \in 1..Len(log[t]) : log'[t][i] = log[t][i]
          BY <4>1, <4>2, AppendProperties
        <4>4. QED
          BY <4>1, <4>2, <4>3
      <3>2. QED
        BY <3>1 DEF Malformed, Produced, WellFormed
    <2>2. Durable!GiveUp
      BY <1>4, <2>1 DEF Produce, Durable!GiveUp
    <2>3. QED
      BY <2>2 DEF Durable!Next
  <1>5. CASE Boot
    <2>1. UNCHANGED {r \in Requests : pc[r] = "202"}
      BY <1>5, CallersAssumption DEF Boot, Callers
    <2>2. Malformed' = Malformed
      BY <1>5 DEF Boot, Malformed, Produced, WellFormed
    <2>3. Durable!GiveUp
      BY <1>5, <2>1, <2>2 DEF Boot, Durable!GiveUp
    <2>4. QED
      BY <2>3 DEF Durable!Next
  <1>6. CASE Exit \/ Crash
    <2>1. UNCHANGED {r \in Requests : pc[r] = "202"}
      BY <1>6, CallersAssumption DEF Exit, Crash, LoseMemory, Callers
    <2>2. QED
      BY <1>1, <1>6, <2>1 DEF Exit, Crash, LoseMemory
  <1>7. ASSUME NEW t \in Topics,
               Loop(t) \/ Fetch(t) \/ FetchCancelled(t) \/ CommitError(t)
        PROVE  [Durable!Next]_Durable!vars
    <2>1. UNCHANGED {r \in Requests : pc[r] = "202"}
      BY <1>0, <1>2, <1>7, CallersAssumption
      DEF Loop, Fetch, FetchCancelled, CommitError, Goto, TypeOK, Callers
    <2>2. UNCHANGED <<stored, missed, skipped, log, committed, live>>
      BY <1>7 DEF Loop, Fetch, FetchCancelled, CommitError
    <2>3. QED
      BY <1>1, <2>1, <2>2
  <1>8. ASSUME NEW t \in Topics, Commit(t) PROVE [Durable!Next]_Durable!vars
    <2>1. UNCHANGED {r \in Requests : pc[r] = "202"}
      BY <1>0, <1>2, <1>8, CallersAssumption DEF Commit, Goto, TypeOK, Callers
    <2>2. UNCHANGED (missed \cup skipped \cup Malformed)
      BY <1>1, <1>8 DEF Commit
    <2>3. /\ pc[t] = "commit"
          /\ committed' = [committed EXCEPT ![t] = position[t]]
          /\ committed'[t] = position[t]
          /\ UNCHANGED <<stored, live>>
      BY <1>0, <1>8 DEF Commit, TypeOK
    <2>4. main # "down"
      BY <2>3 DEF IInv, PhaseInv
    <2>5. /\ committed[t] < position[t]
          /\ \A i \in 1..position[t] :
               <<t, i>> \in stored \cup (missed \cup skipped \cup Malformed)
      BY <2>3, <2>4 DEF IInv, OffsetInv, OffsetInvAt, Settled
    <2>6. position[t] \in Nat /\ committed[t] \in Nat
      BY <1>0 DEF TypeOK
    <2>7. Durable!Commit(t)
      BY <2>1, <2>2, <2>3, <2>5, <2>6 DEF Durable!Commit
    <2>8. QED
      BY <2>7 DEF Durable!Next
  <1>9. ASSUME NEW t \in Topics, GiveUp(t) PROVE [Durable!Next]_Durable!vars
    <2>1. UNCHANGED {r \in Requests : pc[r] = "202"}
      BY <1>0, <1>2, <1>9, CallersAssumption DEF GiveUp, Goto, TypeOK, Callers
    <2>2. Malformed' = Malformed
      BY <1>9 DEF GiveUp, Malformed, Produced, WellFormed
    <2>3. Durable!GiveUp
      BY <1>9, <2>1, <2>2 DEF GiveUp, Durable!GiveUp
    <2>4. QED
      BY <2>3 DEF Durable!Next
  <1>10. ASSUME NEW r \in Requests, Ingest(r) PROVE [Durable!Next]_Durable!vars
    <2>1. UNCHANGED {q \in Requests : pc[q] = "202"}
      BY <1>0, <1>2, <1>10 DEF Ingest, Goto, TypeOK, Callers
    <2>2. QED
      BY <1>1, <1>10, <2>1 DEF Ingest
  <1>11. ASSUME NEW k \in Callers, Send(k) PROVE [Durable!Next]_Durable!vars
    <2>1. UNCHANGED {q \in Requests : pc[q] = "202"}
      BY <1>0, <1>2, <1>11 DEF Send, Goto, TypeOK
    <2>2. QED
      BY <1>1, <1>11, <2>1 DEF Send
  <1>12. ASSUME NEW k \in Callers, Answer(k) PROVE [Durable!Next]_Durable!vars
    <2>0. /\ pc[k] = "wait"
          /\ \A c \in Callers \ {k} : pc'[c] = pc[c]
          /\ UNCHANGED <<stored, live, committed, log, missed>>
          /\ Malformed' = Malformed
      BY <1>0, <1>12
      DEF Answer, Goto, TypeOK, Malformed, Produced, WellFormed
    <2>1. CASE k \in Topics
      <3>1. UNCHANGED {q \in Requests : pc[q] = "202"}
        BY <1>2, <2>0, <2>1, CallersAssumption
      <3>2. skipped \subseteq skipped'
        BY <1>12 DEF Answer
      <3>3. Durable!GiveUp
        BY <2>0, <3>1, <3>2 DEF Durable!GiveUp
      <3>4. QED
        BY <3>3 DEF Durable!Next
    <2>2. CASE k \notin Topics /\ EventOf(k) \in acked /\ pc'[k] = "202"
      <3>1. k \in Requests /\ skipped' = skipped
        BY <1>12, <2>2 DEF Answer, Callers
      <3>2. k \in stored
        BY <2>2 DEF EventOf, IInv, DurableInv
      <3>3. {q \in Requests : pc'[q] = "202"}
              = {q \in Requests : pc[q] = "202"} \cup {k}
        BY <2>0, <2>2, <3>1 DEF Callers
      <3>4. Durable!Accept(k)
        BY <2>0, <3>1, <3>2, <3>3 DEF Durable!Accept
      <3>5. QED
        BY <3>1, <3>4 DEF Durable!Next
    <2>3. CASE k \notin Topics /\ pc'[k] = "503"
      <3>1. k \in Requests /\ skipped' = skipped
        BY <1>12, <2>3 DEF Answer, Callers
      <3>2. UNCHANGED {q \in Requests : pc[q] = "202"}
        BY <1>2, <2>0, <2>3
      <3>3. QED
        BY <1>1, <2>0, <3>1, <3>2
    <2>4. k \notin Topics =>
            (EventOf(k) \in acked /\ pc'[k] = "202") \/ pc'[k] = "503"
      BY <1>0, <1>12 DEF Answer, Goto, TypeOK
    <2>5. QED
      BY <2>1, <2>2, <2>3, <2>4
  <1>13. CASE InsertOk \/ InsertError
    <2>1. UNCHANGED <<missed, skipped, log, committed, pc, live>>
          /\ stored \subseteq stored'
      BY <1>13 DEF InsertOk, InsertError
    <2>2. Durable!Store
      BY <1>1, <2>1 DEF Durable!Store
    <2>3. QED
      BY <2>2 DEF Durable!Next
  <1>14. CASE Reply
    <2>1. UNCHANGED <<stored, missed, skipped, log, committed, pc>>
      BY <1>14 DEF Reply
    <2>2. CASE live' = live
      BY <1>3, <2>1, <2>2
    <2>3. CASE err # "error" /\ live' = live \cup {Head(batch)}
      <3>1. Head(batch) \in stored
        BY <1>0, <1>14, <2>3, ElementsTail
        DEF Reply, IInv, BatchInv, WorkerInv, TypeOK
      <3>2. Durable!Show(Head(batch))
        BY <1>1, <2>1, <2>3, <3>1 DEF Durable!Show
      <3>3. QED
        BY <3>1, <3>2 DEF Durable!Next
    <2>4. QED
      BY <1>14, <2>2, <2>3 DEF Reply, InsertFailed
  <1>15. QED
    BY <1>3, <1>4, <1>5, <1>6, <1>7, <1>8, <1>9, <1>10, <1>11, <1>12, <1>13,
       <1>14
    DEF Next, MainStep, ConsumerStep, WorkerStep, vars, Serve, Signal, Drained,
        StopConsumer, StopEngine, Receive, Tick, WorkerExit

\* The ingest path implements the durability contract for every number of
\* topics, records, requests, restarts, batch size and channel capacity.
THEOREM Implements == Spec => ImplementsDurableIngest
  <1>1. Init => Durable!Init
    <2> SUFFICES ASSUME Init PROVE Durable!Init
      OBVIOUS
    <2>1. Malformed = {}
      <3>1. \A t \in Topics : Len(log[t]) = 0
        BY EmptySeq DEF Init
      <3>2. QED
        BY <3>1 DEF Malformed, Produced
    <2>2. {r \in Requests : pc[r] = "202"} = {}
      BY CallersAssumption DEF Init, Callers
    <2>3. QED
      BY <2>1, <2>2 DEF Init, Durable!Init
  <1>2. QED
    BY <1>1, StepImplements, Invariance, PTL
    DEF Spec, ImplementsDurableIngest, Durable!Spec

-----------------------------------------------------------------------------
(***************************************************************************)
(* Proofs about Hub, for any clients, capacities and number of events: the *)
(* hub never sends on a channel it has closed, and a peer sees the events  *)
(* in the order in which they were stored.                                 *)
(***************************************************************************)

\* A client registers once, and its channel is closed when its handler is done.
LifeInv ==
  /\ \A c \in clients : handler[c] \notin {"new", "register"}
  /\ \A c \in sendClosed : handler[c] = "done"
  /\ \A c \in Clients : handler[c] \in {"unregister", "done"} => writer[c] = "exited"

\* The events of s, in which pings may occur, are in the order they were stored.
Increasing(s) ==
  \A i, j \in 1..Len(s) : i < j /\ s[i] # Ping /\ s[j] # Ping => s[i] < s[j]

\* Every event of s was stored before every event of u.
Before(s, u) ==
  \A i \in 1..Len(s), j \in 1..Len(u) : s[i] # Ping /\ u[j] # Ping => s[i] < u[j]

\* No event of s was stored after the n-th.
UpTo(s, n) == \A i \in 1..Len(s) : s[i] <= n

\* The events of s are stored before event m, and those of u after it; a ping m is
\* before and after everything.
Below(s, m) == \A i \in 1..Len(s) : s[i] # Ping /\ m # Ping => s[i] < m

Above(m, u) == \A i \in 1..Len(u) : u[i] # Ping /\ m # Ping => m < u[i]

\* An event moves from the Broadcast channel b to the send channel s of a client
\* and on to its peer, who has received r; each is in order, and so are they
\* together.
InLine(r, s, b, n) ==
  /\ Increasing(s) /\ UpTo(s, n) /\ Before(s, b)
  /\ Increasing(r) /\ UpTo(r, n) /\ Before(r, s) /\ Before(r, b)
  /\ \A i \in 1..Len(r) : r[i] # Ping

PipelineInv ==
  /\ Increasing(broadcast) /\ UpTo(broadcast, events)
  /\ \A c \in Clients : InLine(received[c], send[c], broadcast, events)

\* A client leaves the map in the step that closes its channel, and by then its
\* writer has returned.
SafeInv ==
  /\ clients \cap sendClosed = {}
  /\ \A c \in sendClosed : writer[c] = "exited"

HubInv == HubTypeOK /\ LifeInv /\ SafeInv /\ PipelineInv

-----------------------------------------------------------------------------
\* What Append makes of a channel.
LEMMA AppendFacts ==
  ASSUME NEW s \in Seq(Nat), NEW m \in Nat
  PROVE  /\ Append(s, m) \in Seq(Nat)
         /\ Len(Append(s, m)) = Len(s) + 1
         /\ \A i \in 1..Len(s) : Append(s, m)[i] = s[i]
         /\ Append(s, m)[Len(s) + 1] = m
         /\ Len(s) \in Nat
  OBVIOUS

\* What is left when the first frame is taken.
LEMMA TailFacts ==
  ASSUME NEW s \in Seq(Nat), s # <<>>
  PROVE  /\ Tail(s) \in Seq(Nat)
         /\ Len(s) \in Nat \ {0}
         /\ Len(Tail(s)) = Len(s) - 1
         /\ \A i \in 1..(Len(s) - 1) : Tail(s)[i] = s[i + 1]
         /\ Head(s) = s[1] /\ Head(s) \in Nat
  OBVIOUS

\* Appending a later event keeps the order; so does a ping.
LEMMA AppendOrder ==
  ASSUME NEW s \in Seq(Nat), NEW m \in Nat
  PROVE  /\ Increasing(s) /\ Below(s, m) => Increasing(Append(s, m))
         /\ \A n \in Nat : UpTo(s, n) /\ m <= n => UpTo(Append(s, m), n)
         /\ \A u \in Seq(Nat) : Before(s, u) /\ Above(m, u) => Before(Append(s, m), u)
         /\ \A u \in Seq(Nat) : Before(u, s) /\ Below(u, m) => Before(u, Append(s, m))
<1> DEFINE a == Append(s, m)
<1>1. /\ Len(a) = Len(s) + 1 /\ Len(s) \in Nat
      /\ \A i \in 1..Len(s) : a[i] = s[i]
      /\ a[Len(s) + 1] = m
  BY AppendFacts
<1> HIDE DEF a
<1>2. \A i \in 1..Len(a) : (i \in 1..Len(s) /\ a[i] = s[i]) \/ (i = Len(s) + 1 /\ a[i] = m)
  BY <1>1
<1>3. ASSUME Increasing(s), Below(s, m) PROVE Increasing(a)
  <2> SUFFICES ASSUME NEW i \in 1..Len(a), NEW j \in 1..Len(a), i < j,
                      a[i] # Ping, a[j] # Ping
               PROVE  a[i] < a[j]
    BY DEF Increasing
  <2>1. i \in 1..Len(s) /\ a[i] = s[i]
    BY <1>1
  <2>2. CASE j = Len(s) + 1
    BY <1>1, <1>3, <2>1, <2>2 DEF Below
  <2>3. CASE j \in 1..Len(s)
    BY <1>1, <1>3, <2>1, <2>3 DEF Increasing
  <2> QED BY <1>2, <2>2, <2>3
<1>4. ASSUME NEW n \in Nat, UpTo(s, n), m <= n PROVE UpTo(a, n)
  BY <1>2, <1>4 DEF UpTo
<1>5. ASSUME NEW u \in Seq(Nat), Before(s, u), Above(m, u) PROVE Before(a, u)
  BY <1>2, <1>5 DEF Before, Above
<1>6. ASSUME NEW u \in Seq(Nat), Before(u, s), Below(u, m) PROVE Before(u, a)
  BY <1>2, <1>6 DEF Before, Below
<1> QED BY <1>3, <1>4, <1>5, <1>6 DEF a

\* Taking the first frame keeps the order, and the frame is before what is left.
LEMMA TailOrder ==
  ASSUME NEW s \in Seq(Nat), s # <<>>
  PROVE  /\ Increasing(s) => Increasing(Tail(s)) /\ Above(Head(s), Tail(s))
         /\ \A n \in Nat : UpTo(s, n) => UpTo(Tail(s), n) /\ Head(s) <= n
         /\ \A u \in Seq(Nat) : Before(s, u) => Before(Tail(s), u) /\ Above(Head(s), u)
         /\ \A u \in Seq(Nat) : Before(u, s) => Before(u, Tail(s)) /\ Below(u, Head(s))
<1> DEFINE a == Tail(s)
           m == Head(s)
<1>1. /\ Len(a) = Len(s) - 1 /\ Len(s) \in Nat \ {0}
      /\ \A i \in 1..(Len(s) - 1) : a[i] = s[i + 1]
      /\ m = s[1]
  BY TailFacts
<1> HIDE DEF a, m
<1>2. \A i \in 1..Len(a) : i \in Nat /\ i + 1 \in 1..Len(s) /\ a[i] = s[i + 1]
  BY <1>1
<1>3. 1 \in 1..Len(s)
  BY <1>1
<1>4. ASSUME Increasing(s) PROVE Increasing(a) /\ Above(m, a)
  <2>1. ASSUME NEW i \in 1..Len(a), NEW j \in 1..Len(a), i < j, a[i] # Ping, a[j] # Ping
        PROVE  a[i] < a[j]
    <3> DEFINE x == i + 1
               y == j + 1
    <3>1. x \in 1..Len(s) /\ y \in 1..Len(s) /\ x < y /\ a[i] = s[x] /\ a[j] = s[y]
      BY <1>2, <2>1
    <3> HIDE DEF x, y
    <3> QED BY <1>4, <2>1, <3>1 DEF Increasing
  <2>2. ASSUME NEW j \in 1..Len(a), m # Ping, a[j] # Ping PROVE m < a[j]
    <3> DEFINE y == j + 1
    <3>1. y \in 1..Len(s) /\ 1 < y /\ a[j] = s[y]
      BY <1>2
    <3> HIDE DEF y
    <3> QED BY <1>1, <1>3, <1>4, <2>2, <3>1 DEF Increasing
  <2> QED BY <2>1, <2>2 DEF Increasing, Above
<1>5. ASSUME NEW n \in Nat, UpTo(s, n) PROVE UpTo(a, n) /\ m <= n
  BY <1>1, <1>2, <1>3, <1>5 DEF UpTo
<1>6. ASSUME NEW u \in Seq(Nat), Before(s, u) PROVE Before(a, u) /\ Above(m, u)
  BY <1>1, <1>2, <1>3, <1>6 DEF Before, Above
<1>7. ASSUME NEW u \in Seq(Nat), Before(u, s) PROVE Before(u, a) /\ Below(u, m)
  BY <1>1, <1>2, <1>3, <1>7 DEF Before, Below
<1> QED BY <1>4, <1>5, <1>6, <1>7 DEF a, m

\* The next event is after all that were stored before.
LEMMA NextEvent ==
  ASSUME NEW s \in Seq(Nat), NEW n \in Nat, UpTo(s, n)
  PROVE  Below(s, n + 1) /\ UpTo(s, n + 1)
<1>1. \A i \in 1..Len(s) : s[i] \in Nat
  OBVIOUS
<1> QED BY <1>1 DEF UpTo, Below

-----------------------------------------------------------------------------
\* An event is stored, and queued or dropped.
LEMMA LineStore ==
  ASSUME NEW r \in Seq(Nat), NEW s \in Seq(Nat), NEW b \in Seq(Nat), NEW n \in Nat,
         InLine(r, s, b, n)
  PROVE  InLine(r, s, b, n + 1) /\ InLine(r, s, Append(b, n + 1), n + 1)
BY NextEvent, AppendOrder DEF InLine

\* The hub takes an event, and the client gets it or misses it.
LEMMA LineDeliver ==
  ASSUME NEW r \in Seq(Nat), NEW s \in Seq(Nat), NEW b \in Seq(Nat), NEW n \in Nat,
         InLine(r, s, b, n), Increasing(b), UpTo(b, n), b # <<>>
  PROVE  InLine(r, s, Tail(b), n) /\ InLine(r, Append(s, Head(b)), Tail(b), n)
<1>1. Head(b) \in Nat /\ Tail(b) \in Seq(Nat)
  BY TailFacts
<1>2. /\ Above(Head(b), Tail(b)) /\ Head(b) <= n
      /\ Before(s, Tail(b)) /\ Below(s, Head(b))
      /\ Before(r, Tail(b)) /\ Below(r, Head(b))
  BY TailOrder DEF InLine
<1> QED BY <1>1, <1>2, AppendOrder DEF InLine

\* The client gets a ping.
LEMMA LinePing ==
  ASSUME NEW r \in Seq(Nat), NEW s \in Seq(Nat), NEW b \in Seq(Nat), NEW n \in Nat,
         InLine(r, s, b, n)
  PROVE  InLine(r, Append(s, Ping), b, n)
<1>1. Ping \in Nat /\ Ping <= n /\ Below(s, Ping) /\ Below(r, Ping) /\ Above(Ping, b)
  BY DEF Ping, Below, Above
<1> QED BY <1>1, AppendOrder DEF InLine

\* The writer takes a frame, and the peer receives it or not.
LEMMA LineWrite ==
  ASSUME NEW r \in Seq(Nat), NEW s \in Seq(Nat), NEW b \in Seq(Nat), NEW n \in Nat,
         InLine(r, s, b, n), s # <<>>
  PROVE  /\ InLine(r, Tail(s), b, n)
         /\ Head(s) # Ping => InLine(Append(r, Head(s)), Tail(s), b, n)
<1> DEFINE m == Head(s)
<1>1. m \in Nat /\ Tail(s) \in Seq(Nat)
  BY TailFacts
<1>2. /\ Increasing(Tail(s)) /\ Above(m, Tail(s))
      /\ UpTo(Tail(s), n) /\ m <= n
      /\ Before(Tail(s), b) /\ Above(m, b)
      /\ Before(r, Tail(s)) /\ Below(r, m)
  BY TailOrder DEF InLine
<1>3. InLine(r, Tail(s), b, n)
  BY <1>2 DEF InLine
<1>4. ASSUME m # Ping PROVE InLine(Append(r, m), Tail(s), b, n)
  <2>1. /\ Increasing(Append(r, m)) /\ UpTo(Append(r, m), n)
        /\ Before(Append(r, m), Tail(s)) /\ Before(Append(r, m), b)
    BY <1>1, <1>2, AppendOrder DEF InLine
  <2>2. \A i \in 1..Len(Append(r, m)) : Append(r, m)[i] # Ping
    BY <1>1, <1>4, AppendFacts DEF InLine
  <2> QED BY <1>2, <2>1, <2>2 DEF InLine
<1> QED BY <1>3, <1>4

-----------------------------------------------------------------------------
\* The initial state: no client, no event.
LEMMA InitOK == HubInit => HubInv
<1> SUFFICES ASSUME HubInit PROVE HubInv
  OBVIOUS
<1>1. HubTypeOK
  BY CapacityAssumption DEF HubInit, HubTypeOK
<1>2. LifeInv /\ SafeInv
  BY DEF HubInit, LifeInv, SafeInv
<1>3. PipelineInv
  BY DEF HubInit, PipelineInv, InLine, Increasing, UpTo, Before
<1> QED BY <1>1, <1>2, <1>3 DEF HubInv

\* The steps that move no frame.
LEMMA PipelineStays ==
  ASSUME PipelineInv, UNCHANGED <<events, broadcast, send, received>>
  PROVE  PipelineInv'
BY DEF PipelineInv

\* The steps that change the state of no client but its frames.
LEMMA LifeStays ==
  ASSUME LifeInv, SafeInv, UNCHANGED <<clients, sendClosed, handler, writer>>
  PROVE  LifeInv' /\ SafeInv'
BY DEF LifeInv, SafeInv

\* An event is stored: it is queued or dropped.
LEMMA BroadcastOK == HubInv /\ BroadcastEvent => HubInv'
<1> SUFFICES ASSUME HubInv, BroadcastEvent PROVE HubInv'
  OBVIOUS
<1> USE DEF HubInv
<1>1. /\ events \in Nat /\ events' = events + 1 /\ broadcast \in Seq(Nat)
      /\ \/ broadcast' = broadcast
         \/ /\ Len(broadcast) < BroadcastCap /\ broadcast' = Append(broadcast, events + 1)
      /\ UNCHANGED <<clients, send, sendClosed, handler, writer, conn, received>>
  BY DEF BroadcastEvent, Room, clientVars, HubTypeOK
<1>2. events + 1 \in Nat /\ events + 1 <= events + 1
  BY <1>1
<1>3. HubTypeOK'
  <2>1. /\ Append(broadcast, events + 1) \in Seq(Nat) /\ Len(broadcast) \in Nat
        /\ Len(Append(broadcast, events + 1)) = Len(broadcast) + 1
    BY <1>1, <1>2, AppendFacts
  <2>2. broadcast' \in Seq(Nat) /\ Len(broadcast') <= BroadcastCap
    <3>1. CASE broadcast' = broadcast
      BY <3>1 DEF HubTypeOK
    <3>2. CASE /\ Len(broadcast) < BroadcastCap
               /\ broadcast' = Append(broadcast, events + 1)
      BY <2>1, <3>2, CapacityAssumption
    <3> QED BY <1>1, <3>1, <3>2
  <2> QED BY <1>1, <1>2, <2>2 DEF HubTypeOK
<1>4. LifeInv' /\ SafeInv'
  BY <1>1, LifeStays
<1>5. \A c \in Clients : send[c] \in Seq(Nat) /\ received[c] \in Seq(Nat)
  BY DEF HubTypeOK
<1>6. Increasing(broadcast') /\ UpTo(broadcast', events')
  <2>1. Below(broadcast, events + 1) /\ UpTo(broadcast, events + 1)
    BY <1>1, NextEvent DEF PipelineInv
  <2> QED BY <1>1, <1>2, <2>1, AppendOrder DEF PipelineInv
<1>7. \A c \in Clients : InLine(received'[c], send'[c], broadcast', events')
  BY <1>1, <1>5, LineStore DEF PipelineInv
<1> QED BY <1>3, <1>4, <1>6, <1>7 DEF PipelineInv

\* The non-blocking send keeps every channel within its capacity.
LEMMA FanOutType ==
  ASSUME HubTypeOK, NEW m \in Nat, FanOut(m)
  PROVE  /\ send' \in [Clients -> Seq(Nat)]
         /\ \A c \in Clients : Len(send'[c]) <= ClientBuffer
         /\ \A c \in Clients : send'[c] = send[c] \/ send'[c] = Append(send[c], m)
<1>1. \A c \in Clients : /\ send[c] \in Seq(Nat) /\ Append(send[c], m) \in Seq(Nat)
                         /\ Len(send[c]) \in Nat /\ Len(send[c]) <= ClientBuffer
                         /\ Len(Append(send[c], m)) = Len(send[c]) + 1
  BY AppendFacts DEF HubTypeOK
<1>2. \A c \in Clients : send'[c] =
        IF c \in clients /\ Len(send[c]) < ClientBuffer THEN Append(send[c], m) ELSE send[c]
  BY DEF FanOut
<1>3. send' \in [Clients -> Seq(Nat)]
  BY <1>1 DEF FanOut
<1>4. \A c \in Clients : Len(send'[c]) <= ClientBuffer
  <2> SUFFICES ASSUME NEW c \in Clients PROVE Len(send'[c]) <= ClientBuffer
    OBVIOUS
  <2>1. CASE c \in clients /\ Len(send[c]) < ClientBuffer
    <3>1. Len(send'[c]) = Len(send[c]) + 1
      BY <1>1, <1>2, <2>1
    <3> QED BY <1>1, <2>1, <3>1, CapacityAssumption
  <2>2. CASE ~(c \in clients /\ Len(send[c]) < ClientBuffer)
    <3>1. send'[c] = send[c]
      BY <1>2, <2>2
    <3> QED BY <1>1, <3>1
  <2> QED BY <2>1, <2>2
<1> QED BY <1>2, <1>3, <1>4

\* The hub copies an event to the clients that have room.
LEMMA DeliverOK == HubInv /\ Deliver => HubInv'
<1> SUFFICES ASSUME HubInv, Deliver PROVE HubInv'
  OBVIOUS
<1> USE DEF HubInv
<1>1. /\ broadcast # <<>> /\ broadcast \in Seq(Nat)
      /\ FanOut(Head(broadcast)) /\ broadcast' = Tail(broadcast)
      /\ UNCHANGED <<events, clients, sendClosed, handler, writer, conn, received>>
  BY DEF Deliver, AfterReceive, clientVars, HubTypeOK
<1>2. /\ Head(broadcast) \in Nat /\ Tail(broadcast) \in Seq(Nat)
      /\ Len(broadcast) \in Nat /\ Len(Tail(broadcast)) = Len(broadcast) - 1
  BY <1>1, TailFacts
<1>3. /\ send' \in [Clients -> Seq(Nat)]
      /\ \A c \in Clients : Len(send'[c]) <= ClientBuffer
      /\ \A c \in Clients : send'[c] = send[c] \/ send'[c] = Append(send[c], Head(broadcast))
  BY <1>1, <1>2, FanOutType
<1>4. Len(broadcast') <= BroadcastCap
  BY <1>1, <1>2, CapacityAssumption DEF HubTypeOK
<1>5. HubTypeOK'
  BY <1>1, <1>2, <1>3, <1>4 DEF HubTypeOK
<1>6. LifeInv' /\ SafeInv'
  BY <1>1, LifeStays
<1>7. Increasing(broadcast') /\ UpTo(broadcast', events')
  BY <1>1, TailOrder DEF PipelineInv, HubTypeOK
<1>8. \A c \in Clients : InLine(received'[c], send'[c], broadcast', events')
  <2>1. \A c \in Clients : send[c] \in Seq(Nat) /\ received[c] \in Seq(Nat)
    BY DEF HubTypeOK
  <2> QED BY <1>1, <1>3, <2>1, LineDeliver DEF PipelineInv, HubTypeOK
<1> QED BY <1>5, <1>6, <1>7, <1>8 DEF PipelineInv

\* The ping.
LEMMA TickOK == HubInv /\ PingTick => HubInv'
<1> SUFFICES ASSUME HubInv, PingTick PROVE HubInv'
  OBVIOUS
<1> USE DEF HubInv
<1>1. /\ FanOut(Ping) /\ Ping \in Nat
      /\ UNCHANGED <<events, broadcast, clients, sendClosed, handler, writer, conn, received>>
  BY DEF PingTick, hubVars, clientVars, Ping
<1>2. /\ send' \in [Clients -> Seq(Nat)]
      /\ \A c \in Clients : Len(send'[c]) <= ClientBuffer
      /\ \A c \in Clients : send'[c] = send[c] \/ send'[c] = Append(send[c], Ping)
  BY <1>1, FanOutType
<1>3. HubTypeOK'
  BY <1>1, <1>2 DEF HubTypeOK
<1>4. LifeInv' /\ SafeInv'
  BY <1>1, LifeStays
<1>5. \A c \in Clients : InLine(received'[c], send'[c], broadcast', events')
  <2>1. \A c \in Clients : send[c] \in Seq(Nat) /\ received[c] \in Seq(Nat)
    BY DEF HubTypeOK
  <2> QED BY <1>1, <1>2, <2>1, LinePing DEF PipelineInv, HubTypeOK
<1> QED BY <1>1, <1>3, <1>4, <1>5 DEF PipelineInv

\* A writer takes a frame.
LEMMA WriterOK == ASSUME HubInv, NEW c \in Clients, WriterStep(c) PROVE HubInv'
<1> USE DEF HubInv
<1> DEFINE s == send[c]
           r == received[c]
<1>1. s \in Seq(Nat) /\ r \in Seq(Nat) /\ s # <<>>
  BY DEF HubTypeOK, WriterStep, Write, WriteFails
<1>2. /\ Tail(s) \in Seq(Nat) /\ Head(s) \in Nat
      /\ Len(s) \in Nat /\ Len(Tail(s)) = Len(s) - 1 /\ Append(r, Head(s)) \in Seq(Nat)
  BY <1>1, TailFacts, AppendFacts
<1>3. /\ send' = [send EXCEPT ![c] = Tail(s)]
      /\ \/ received' = received
         \/ Head(s) # Ping /\ received' = [received EXCEPT ![c] = Append(r, Head(s))]
      /\ UNCHANGED <<events, broadcast, clients, sendClosed, handler, conn>>
      /\ \/ UNCHANGED writer
         \/ writer' = [writer EXCEPT ![c] = "exited"]
  BY DEF WriterStep, Write, WriteFails, hubVars, clientVars
<1>4. Len(Tail(s)) <= ClientBuffer
  BY <1>2, CapacityAssumption DEF HubTypeOK
<1>5. HubTypeOK'
  BY <1>1, <1>2, <1>3, <1>4 DEF HubTypeOK
<1>6. LifeInv' /\ SafeInv'
  BY <1>3 DEF LifeInv, SafeInv, HubTypeOK
<1>7. \A d \in Clients : InLine(received'[d], send'[d], broadcast', events')
  <2> SUFFICES ASSUME NEW d \in Clients
               PROVE  InLine(received'[d], send'[d], broadcast', events')
    OBVIOUS
  <2>1. InLine(received[d], send[d], broadcast, events)
    BY DEF PipelineInv
  <2>2. CASE d # c
    BY <1>3, <2>1, <2>2 DEF HubTypeOK
  <2>3. CASE d = c
    <3>1. /\ InLine(r, Tail(s), broadcast, events)
          /\ Head(s) # Ping => InLine(Append(r, Head(s)), Tail(s), broadcast, events)
      BY <1>1, <2>1, <2>3, LineWrite DEF HubTypeOK
    <3>2. /\ send'[c] = Tail(s)
          /\ \/ received'[c] = r
             \/ Head(s) # Ping /\ received'[c] = Append(r, Head(s))
      BY <1>3 DEF HubTypeOK
    <3> QED BY <1>3, <2>3, <3>1, <3>2
  <2> QED BY <2>2, <2>3
<1> QED BY <1>3, <1>5, <1>6, <1>7 DEF PipelineInv

\* The steps of a client's handler, and what the hub does at its two ends.
LEMMA HandlerOK ==
  ASSUME HubInv, NEW c \in Clients,
         Connect(c) \/ Register(c) \/ Unregister(c) \/ HandlerStep(c)
  PROVE  HubInv'
<1> USE DEF HubInv
<1>1. UNCHANGED <<events, broadcast, send, received>>
  BY DEF Connect, Register, Unregister, HandlerStep, ReadFails, AwaitWriter, hubVars
<1>2. PipelineInv'
  BY <1>1, PipelineStays
<1>3. CASE Connect(c) \/ HandlerStep(c)
  <2>1. /\ UNCHANGED <<clients, sendClosed, writer>>
        /\ \/ handler[c] = "new" /\ handler' = [handler EXCEPT ![c] = "register"]
              /\ conn' = [conn EXCEPT ![c] = "open"]
           \/ handler[c] = "read" /\ handler' = [handler EXCEPT ![c] = "await"]
              /\ UNCHANGED conn
           \/ handler[c] = "await" /\ handler' = [handler EXCEPT ![c] = "unregister"]
              /\ writer[c] = "exited" /\ UNCHANGED conn
    BY <1>3 DEF Connect, HandlerStep, ReadFails, AwaitWriter, WriterDone, hubVars
  <2>2. HubTypeOK'
    BY <1>1, <2>1 DEF HubTypeOK
  <2>3. LifeInv' /\ SafeInv'
    BY <2>1 DEF LifeInv, SafeInv, HubTypeOK
  <2> QED BY <1>2, <2>2, <2>3
<1>4. CASE Register(c)
  <2>1. /\ handler[c] = "register" /\ clients' = clients \cup {c}
        /\ handler' = [handler EXCEPT ![c] = "read"]
        /\ writer' = [writer EXCEPT ![c] = "run"]
        /\ UNCHANGED <<sendClosed, conn>>
    BY <1>4 DEF Register
  <2>2. HubTypeOK'
    BY <1>1, <2>1 DEF HubTypeOK
  <2>3. LifeInv' /\ SafeInv'
    BY <2>1 DEF LifeInv, SafeInv, HubTypeOK
  <2> QED BY <1>2, <2>2, <2>3
<1>5. CASE Unregister(c)
  <2>1. /\ handler[c] = "unregister" /\ handler' = [handler EXCEPT ![c] = "done"]
        /\ conn' = [conn EXCEPT ![c] = "closed"] /\ UNCHANGED writer
        /\ \/ clients' = clients \ {c} /\ sendClosed' = sendClosed \cup {c}
           \/ UNCHANGED <<clients, sendClosed>>
    BY <1>5 DEF Unregister, Remove
  <2>2. HubTypeOK'
    BY <1>1, <2>1 DEF HubTypeOK
  <2>3. LifeInv' /\ SafeInv'
    BY <2>1 DEF LifeInv, SafeInv, HubTypeOK
  <2> QED BY <1>2, <2>2, <2>3
<1> QED BY <1>3, <1>4, <1>5

\* The peers and stuttering.
LEMMA PeerOK ==
  ASSUME HubInv, UNCHANGED <<events, hubVars, send, sendClosed, handler, writer, received>>,
         conn' \in [Clients -> {"open", "stalled", "closed"}]
  PROVE  HubInv'
<1>1. HubTypeOK'
  BY DEF HubInv, HubTypeOK, hubVars
<1> QED BY <1>1, PipelineStays, LifeStays DEF HubInv, hubVars

\* Every step keeps the invariant.
LEMMA StepOK == HubInv /\ [HubNext]_wsVars => HubInv'
<1> SUFFICES ASSUME HubInv, [HubNext]_wsVars PROVE HubInv'
  OBVIOUS
<1>1. ASSUME NEW c \in Clients, PeerStalls(c) \/ PeerRecovers(c) \/ PeerCloses(c)
      PROVE  HubInv'
  BY <1>1, PeerOK DEF PeerStalls, PeerRecovers, PeerCloses, HubInv, HubTypeOK
<1>2. CASE UNCHANGED wsVars
  BY <1>2, PeerOK DEF wsVars, clientVars, HubInv, HubTypeOK
<1> QED
  BY <1>1, <1>2, BroadcastOK, DeliverOK, TickOK, WriterOK, HandlerOK DEF HubNext

\* The inductive invariant of the hub.
THEOREM HubInvariance == HubSpec => []HubInv
BY InitOK, StepOK, PTL DEF HubSpec

\* A peer sees the events in the order in which they were stored, each at most
\* once.
THEOREM StreamInOrder == HubSpec => []InOrder
<1>1. HubInv => InOrder
  BY DEF HubInv, PipelineInv, InLine, Increasing, InOrder
<1> QED BY <1>1, HubInvariance, PTL

=============================================================================
