-------------------------- MODULE LiveStreamProofs --------------------------
(***************************************************************************)
(* Proofs about LiveStream, for any number of events, rows, tokens,        *)
(* failures, ticks and overlapping refreshes: the dashboard has one        *)
(* stream, its status is backed by a socket, and its list shows no row     *)
(* that is not stored and none twice.  Two inductive invariants that need  *)
(* nothing of each other: IInv for the sockets and effects, ListInv for    *)
(* the rows.                                                               *)
(***************************************************************************)
EXTENDS LiveStream, ListProofs

\* The part of the types that sockets and effects depend on.
SocketType ==
  /\ issued \in Tokens /\ token \in 0..issued
  /\ sock \in [Tokens -> {"none", "connecting", "open", "closing"}]
  /\ retryTimer \subseteq Tokens
  /\ isConnected \in BOOLEAN
  /\ committed.token \in 0..issued
  /\ ran.token \in 0..issued

\* A token that is not yet stored, rendered, or run has had no socket.  Without it
\* a new socket might take the place of one whose close event is still to come.
OrderInv ==
  /\ \A t \in Tokens : sock[t] # "none" => t <= issued
  /\ committed.token \notin {0, ran.token} => sock[committed.token] = "none"
  /\ ~crashed /\ token \notin {0, committed.token}
       => token # ran.token /\ sock[token] = "none"

\* A timer runs only while its effect has no socket.
TimerInv == \A t \in retryTimer : sock[t] = "none"

IInv == SocketType /\ OrderInv /\ TimerInv /\ OneStream /\ StatusBacked

\* A clean-up changes the sockets of no token but its own.
LEMMA CloseSocketType ==
  ASSUME SocketType, NEW t
  PROVE  /\ CloseSocket(t) \in [Tokens -> {"none", "connecting", "open", "closing"}]
         /\ \A s \in Tokens : CloseSocket(t)[s] =
              IF s = t /\ sock[s] # "none" THEN "closing" ELSE sock[s]
BY DEF CloseSocket, SocketType

\* The initial state: no socket, no timer.
LEMMA InitOK == Init => IInv
<1> SUFFICES ASSUME Init PROVE IInv
  OBVIOUS
<1>1. /\ issued = 1 /\ token = 1 /\ committed.token = 0 /\ ran.token = 0
      /\ retryTimer = {} /\ sock = [t \in Tokens |-> "none"] /\ ~isConnected
  BY DEF Init, NoDeps
<1>2. SocketType
  <2>1. isConnected \in BOOLEAN
    BY DEF Init
  <2> QED BY <1>1, <2>1, BoundsAssumption DEF SocketType, Tokens
<1>3. OrderInv
  BY <1>1, BoundsAssumption DEF OrderInv, Tokens
<1>4. TimerInv /\ OneStream /\ StatusBacked
  BY <1>1 DEF TimerInv, OneStream, StatusBacked
<1> QED BY <1>2, <1>3, <1>4 DEF IInv

\* The steps that leave sockets, effects and the token alone.
LEMMA UnchangedOK ==
  ASSUME IInv, UNCHANGED <<issued, token, sock, retryTimer, isConnected, crashed>>,
         committed'.token = committed.token, ran'.token = ran.token
  PROVE  IInv'
BY DEF IInv, SocketType, OrderInv, TimerInv, OneStream, StatusBacked, Tokens, Current

\* A close event, of whichever socket, leaves neither a status nor a timer behind
\* that is not backed.
LEMMA CloseOK ==
  ASSUME IInv, NEW t \in Tokens, OnClose(t), sock[t] # "none",
         UNCHANGED <<issued, token, committed, ran, crashed>>
  PROVE  IInv'
<1> USE DEF IInv, SocketType, OrderInv, TimerInv, OneStream, StatusBacked, Current, OnClose
<1>1. sock' = [sock EXCEPT ![t] = "none"] /\ isConnected' = FALSE
  OBVIOUS
<1>2. SocketType'
  BY <1>1 DEF Tokens
<1>3. OrderInv'
  BY <1>1 DEF Tokens
<1>4. TimerInv' /\ OneStream' /\ StatusBacked'
  BY <1>1
<1> QED BY <1>2, <1>3, <1>4

\* The effects: the socket that is replaced is told to close in the same step in
\* which its successor, if there is one, is opened.
LEMMA EffectsOK == IInv /\ RunEffects => IInv'
<1> SUFFICES ASSUME IInv, RunEffects PROVE IInv'
  OBVIOUS
<1> USE DEF IInv
<1>a. /\ committed'.token = committed.token /\ ran'.token = committed.token
      /\ UNCHANGED <<issued, token, isConnected, crashed>>
  BY DEF RunEffects, tokenVars
<1>1. CASE committed.token = ran.token
  <2>1. UNCHANGED <<sock, retryTimer>>
    BY <1>1 DEF RunEffects
  <2> QED BY <1>a, <1>1, <2>1, UnchangedOK
<1>2. CASE committed.token # ran.token
  <2> DEFINE o == ran.token
             n == committed.token
  <2>1. /\ n \in 0..issued /\ o \in 0..issued /\ o # n
        /\ retryTimer' = retryTimer \ {o}
        /\ sock' = [s \in Tokens |-> IF s = n THEN "connecting" ELSE CloseSocket(o)[s]]
    BY <1>2 DEF RunEffects, Cleanup, SocketType
  <2>2. \A s \in Tokens : sock'[s] = IF s = n THEN "connecting"
          ELSE IF s = o /\ sock[s] # "none" THEN "closing" ELSE sock[s]
    BY <2>1, CloseSocketType
  <2>3. SocketType'
    BY <1>a, <2>1, CloseSocketType DEF SocketType
  <2>4. OrderInv'
    <3>1. \A t \in Tokens : sock'[t] # "none" => t <= issued'
      BY <1>a, <2>1, <2>2 DEF OrderInv, SocketType, Tokens
    <3>2. ~crashed /\ token \notin {0, n} => token # o /\ token \in Tokens /\ sock[token] = "none"
      BY BoundsAssumption DEF OrderInv, SocketType, Tokens
    <3> QED BY <1>a, <2>2, <3>1, <3>2 DEF OrderInv
  <2>5. retryTimer' = {}
    BY <2>1 DEF OneStream, Current, SocketType
  <2>6. OneStream' /\ TimerInv'
    BY <1>a, <2>1, <2>2, <2>5 DEF OneStream, TimerInv, Current, SocketType
  <2>7. n \in Tokens => sock[n] = "none"
    BY <2>1 DEF OrderInv, SocketType, Tokens
  <2>8. StatusBacked'
    BY <1>a, <2>1, <2>2, <2>7 DEF StatusBacked
  <2> QED BY <2>3, <2>4, <2>6, <2>8
<1> QED BY <1>1, <1>2

\* The dashboard is unmounted: its socket is told to close, nothing else is left.
LEMMA CrashOK ==
  ASSUME IInv, NEW s, RefreshCrashes(s)
  PROVE  IInv'
<1> USE DEF IInv
<1> DEFINE o == ran.token
<1>1. /\ sock' = CloseSocket(o) /\ retryTimer' = retryTimer \ {o} /\ isConnected' = FALSE
      /\ committed'.token = 0 /\ ran'.token = 0 /\ UNCHANGED <<issued, token>>
  BY DEF RefreshCrashes, Cleanup, NoDeps, tokenVars
<1>2. \A t \in Tokens :
        sock'[t] = IF t = o /\ sock[t] # "none" THEN "closing" ELSE sock[t]
  BY <1>1, CloseSocketType
<1>3. SocketType'
  <2>1. CloseSocket(o) \in [Tokens -> {"none", "connecting", "open", "closing"}]
    BY CloseSocketType
  <2>2. /\ issued \in Tokens /\ token \in 0..issued
        /\ retryTimer \ {o} \subseteq Tokens
    BY DEF SocketType
  <2>4. 0 \in 0..issued
    BY <2>2, BoundsAssumption DEF Tokens
  <2>3. isConnected' \in BOOLEAN
    BY <1>1
  <2> QED BY <1>1, <2>1, <2>2, <2>3, <2>4, Zenon DEF SocketType
<1>4. crashed' /\ OrderInv'
  BY <1>1, <1>2 DEF RefreshCrashes, OrderInv, SocketType
<1>5. retryTimer' = {}
  BY <1>1 DEF OneStream, Current, SocketType
<1>6. TimerInv' /\ OneStream' /\ StatusBacked'
  BY <1>1, <1>2, <1>5 DEF TimerInv, OneStream, Current, StatusBacked, SocketType
<1> QED BY <1>3, <1>4, <1>6

\* Every step keeps the invariant.
LEMMA StepOK == IInv /\ [Next]_vars => IInv'
<1> SUFFICES ASSUME IInv, [Next]_vars PROVE IInv'
  OBVIOUS
<1> USE DEF tokenVars, socketVars, renderVars, listVars
<1>1. ASSUME NEW batch, NEW ok, NEW n, Insert(batch, ok) \/ Broadcast(n) PROVE IInv'
  BY <1>1, UnchangedOK DEF Insert, Broadcast
<1>2. CASE StoreToken
  <2>1. /\ issued < MaxTokens /\ issued' = issued + 1 /\ token' = issued + 1
        /\ UNCHANGED <<sock, retryTimer, isConnected, committed, ran, crashed>>
    BY <1>2 DEF StoreToken
  <2>2. SocketType'
    BY <2>1, BoundsAssumption DEF IInv, SocketType, Tokens
  <2>3. issued + 1 \in Tokens /\ sock[issued + 1] = "none"
    BY <2>1, BoundsAssumption DEF IInv, SocketType, OrderInv, Tokens
  <2>4. OrderInv'
    BY <2>1, <2>3, BoundsAssumption DEF IInv, SocketType, OrderInv, Tokens
  <2>5. TimerInv' /\ OneStream' /\ StatusBacked'
    BY <2>1 DEF IInv, TimerInv, OneStream, StatusBacked, Current
  <2> QED BY <2>2, <2>4, <2>5 DEF IInv
<1>3. CASE RemoveToken
  <2>1. /\ token' = 0
        /\ UNCHANGED <<issued, sock, retryTimer, isConnected, committed, ran, crashed>>
    BY <1>3 DEF RemoveToken
  <2>2. SocketType' /\ OrderInv'
    BY <2>1, BoundsAssumption DEF IInv, SocketType, OrderInv, Tokens
  <2>3. TimerInv' /\ OneStream' /\ StatusBacked'
    BY <2>1 DEF IInv, TimerInv, OneStream, StatusBacked, Current
  <2> QED BY <2>2, <2>3 DEF IInv
<1>4. ASSUME NEW t \in Tokens, OnOpen(t) PROVE IInv'
  <2>1. /\ sock[t] = "connecting" /\ sock' = [sock EXCEPT ![t] = "open"] /\ isConnected' = TRUE
        /\ UNCHANGED <<issued, token, retryTimer, committed, ran, crashed>>
    BY <1>4 DEF OnOpen
  <2>2. SocketType'
    BY <2>1 DEF IInv, SocketType
  <2>3. \A s \in Tokens : sock'[s] = "none" <=> sock[s] = "none"
    BY <2>1 DEF IInv, SocketType
  <2>4. committed.token # 0 => committed.token \in Tokens
    BY BoundsAssumption DEF IInv, SocketType, Tokens
  <2>5. token # 0 => token \in Tokens
    BY BoundsAssumption DEF IInv, SocketType, Tokens
  <2>6. OrderInv' /\ TimerInv'
    BY <2>1, <2>3, <2>4, <2>5 DEF IInv, SocketType, OrderInv, TimerInv
  <2>7. OneStream' /\ StatusBacked'
    BY <2>1 DEF IInv, SocketType, OneStream, StatusBacked, Current
  <2> QED BY <2>2, <2>6, <2>7 DEF IInv
<1>5. ASSUME NEW t \in Tokens, OnMessage(t) PROVE IInv'
  BY <1>5, UnchangedOK DEF OnMessage
<1>6. ASSUME NEW t \in Tokens, CloseEnds(t) \/ ConnectionLost(t) PROVE IInv'
  BY <1>6, CloseOK DEF CloseEnds, ConnectionLost
<1>7. ASSUME NEW t \in Tokens, Reconnect(t) PROVE IInv'
  <2>1. t = ran.token /\ sock[t] = "none" /\ sock' = [sock EXCEPT ![t] = "connecting"]
    BY <1>7 DEF Reconnect, IInv, TimerInv, OneStream, Current
  <2>2. /\ retryTimer' = retryTimer \ {t}
        /\ UNCHANGED <<issued, token, isConnected, committed, ran, crashed>>
    BY <1>7 DEF Reconnect
  <2>3. SocketType'
    BY <2>1, <2>2 DEF IInv, SocketType
  <2>4. \A s \in Tokens : s # t => sock'[s] = sock[s]
    BY <2>1 DEF IInv, SocketType
  <2>5. \A s \in Tokens : sock'[s] # "none" => s <= issued
    BY <2>1, <2>4 DEF IInv, SocketType, OrderInv
  <2>6. (committed.token # 0 => committed.token \in Tokens) /\ (token # 0 => token \in Tokens)
    BY BoundsAssumption DEF IInv, SocketType, Tokens
  <2>7. OrderInv'
    BY <2>1, <2>2, <2>4, <2>5, <2>6 DEF IInv, OrderInv
  <2>8. TimerInv' /\ OneStream'
    BY <2>1, <2>2 DEF IInv, SocketType, TimerInv, OneStream, Current
  <2>9. StatusBacked'
    BY <2>1, <2>2 DEF IInv, SocketType, StatusBacked
  <2> QED BY <2>3, <2>7, <2>8, <2>9 DEF IInv
<1>8. CASE Render
  <2>1. /\ committed'.token = token /\ ran = committed /\ ~crashed
        /\ UNCHANGED <<issued, token, sock, retryTimer, isConnected, ran, crashed>>
    BY <1>8 DEF Render, Deps
  <2>2. SocketType' /\ OrderInv'
    BY <2>1 DEF IInv, SocketType, OrderInv, Tokens
  <2>3. TimerInv' /\ OneStream' /\ StatusBacked'
    BY <2>1 DEF IInv, TimerInv, OneStream, StatusBacked, Current
  <2> QED BY <2>2, <2>3 DEF IInv
<1>9. CASE RunEffects
  BY <1>9, EffectsOK
<1>10. CASE ProbeAnswered \/ ProbeFailed \/ DemoTick \/ RefreshAnswered \/ RefreshFailed
  BY <1>10, UnchangedOK
     DEF ProbeAnswered, ProbeFailed, DemoTick, RefreshAnswered, RefreshFailed
<1>11. ASSUME NEW s, RefreshDone(s) PROVE IInv'
  BY <1>11, UnchangedOK DEF RefreshDone
<1>12. ASSUME NEW s, RefreshCrashes(s) PROVE IInv'
  BY <1>12, CrashOK
<1>13. CASE UNCHANGED vars
  BY <1>13, UnchangedOK DEF vars
<1> QED
  BY <1>1, <1>2, <1>3, <1>4, <1>5, <1>6, <1>7, <1>8, <1>9, <1>10, <1>11, <1>12, <1>13
     DEF Next

\* The inductive invariant holds throughout.
THEOREM Invariance == Spec => []IInv
BY InitOK, StepOK, PTL DEF Spec

\* LiveContext keeps one WebSocket for the whole dashboard, for any number of
\* token refreshes and failures.
THEOREM SingleStream == Spec => []OneStream
<1>1. IInv => OneStream
  BY DEF IInv
<1> QED BY <1>1, Invariance, PTL

\* The LIVE pill is never left on by a socket that is gone.
THEOREM BackedStatus == Spec => []StatusBacked
<1>1. IInv => StatusBacked
  BY DEF IInv
<1> QED BY <1>1, Invariance, PTL

-----------------------------------------------------------------------------
(* The list.  What the updates of it are made of never repeats a row.      *)

\* A live row that is stored, or a simulated one numbered up to k.
Backed(r, k) ==
  /\ r.src = "live" => r \in Stored
  /\ r.src = "demo" => r.n <= k

\* A list of such rows, none of them repeated.
Rows(s, k) ==
  /\ s \in Seq(Row) /\ Len(s) <= Window
  /\ Distinct(s)
  /\ \A i \in 1..Len(s) : Backed(s[i], k)

\* The events a frame may be of: the ones that are stored.
Known == {n \in Events : copies[n] >= 1}

\* Frames are only of stored events, wherever they are on their way, and answers
\* hold stored rows.  That a simulated row is never numbered beyond the ticks is
\* what makes the row of the next tick new: the tick, unlike a frame, does not
\* look for an older copy.
ListInv ==
  /\ copies \in [Events -> Nat] /\ ticks \in Nat
  /\ due \subseteq Known
  /\ wire \in [Tokens -> Seq(Known)]
  /\ {data, committed.data} \subseteq Known \cup {0}
  /\ \A s \in answers : Rows(s, Backfill + ticks)
  /\ Rows(events, Backfill + ticks)

\* slice(0, 50) keeps a beginning of the list.
LEMMA TruncateFacts ==
  ASSUME NEW S, NEW s \in Seq(S)
  PROVE  /\ Truncate(s) \in Seq(S) /\ Len(Truncate(s)) <= Window
         /\ Len(Truncate(s)) <= Len(s)
         /\ \A i \in 1..Len(Truncate(s)) : Truncate(s)[i] = s[i]
<1> DEFINE m == IF Len(s) < Window THEN Len(s) ELSE Window
<1>1. m \in Nat /\ m <= Len(s) /\ m <= Window
  BY WindowAssumption
<1> HIDE DEF m
<1>2. SubSeq(s, 1, m) = [i \in 1..m |-> s[i]]
  BY <1>1
<1>3. SubSeq(s, 1, m) \in Seq(S) /\ Len(SubSeq(s, 1, m)) = m
  BY <1>1, <1>2
<1>4. Truncate(s) = SubSeq(s, 1, m)
  BY DEF Truncate, m
<1> QED BY <1>1, <1>2, <1>3, <1>4

\* A row that is not listed may be put in front.
LEMMA FrontOK ==
  ASSUME NEW s \in Seq(Row), Distinct(s), NEW k \in Nat, NEW e \in Row,
         \A i \in 1..Len(s) : s[i] # e /\ Backed(s[i], k), Backed(e, k)
  PROVE  Rows(Truncate(<<e>> \o s), k)
<1> DEFINE q == <<e>> \o s
           r == Truncate(q)
<1>1. /\ q \in Seq(Row) /\ Len(q) = Len(s) + 1 /\ q[1] = e
      /\ \A i \in 2..Len(q) : q[i] = s[i - 1]
  OBVIOUS
<1> HIDE DEF q
<1>2. /\ r \in Seq(Row) /\ Len(r) <= Window /\ Len(r) <= Len(q)
      /\ \A i \in 1..Len(r) : r[i] = q[i]
  BY <1>1, TruncateFacts
<1> HIDE DEF r
<1>3. Len(q) \in Nat /\ Len(r) \in Nat /\ Len(s) \in Nat
  BY <1>1, <1>2
<1>4. \A i \in 1..Len(r) : r[i] = IF i = 1 THEN e ELSE s[i - 1]
  BY <1>1, <1>2, <1>3
<1>5. \A i \in 1..Len(r) : i # 1 => i - 1 \in 1..Len(s)
  BY <1>1, <1>2, <1>3
<1>6. Distinct(r)
  <2> SUFFICES ASSUME NEW i \in 1..Len(r), NEW j \in 1..Len(r), r[i] = r[j] PROVE i = j
    BY DEF Distinct
  <2>1. CASE i = 1 \/ j = 1
    BY <1>3, <1>4, <1>5, <2>1
  <2>2. CASE i # 1 /\ j # 1
    <3>1. /\ i - 1 \in 1..Len(s) /\ j - 1 \in 1..Len(s)
          /\ s[i - 1] = s[j - 1]
      BY <1>3, <1>4, <1>5, <2>2
    <3>2. i - 1 = j - 1
      BY <3>1 DEF Distinct
    <3> QED BY <1>3, <3>2
  <2> QED BY <2>1, <2>2
<1>7. \A i \in 1..Len(r) : Backed(r[i], k)
  <2> TAKE i \in 1..Len(r)
  <2>1. CASE i = 1
    BY <1>4, <2>1
  <2>2. CASE i # 1
    BY <1>4, <1>5, <2>2
  <2> QED BY <2>1, <2>2
<1> QED BY <1>2, <1>6, <1>7 DEF Rows, r, q

\* The update of the live effect, also when rows of the event are listed already.
LEMMA PrependOK ==
  ASSUME NEW k \in Nat, Rows(events, k), NEW n \in Known, copies \in [Events -> Nat]
  PROVE  Rows(Prepend(n), k)
<1> DEFINE e == Live(n, 1)
           D == WithId(n)
           w == Without(events, D)
<1>1. e \in Row /\ e.src = "live" /\ e \in D
  BY BoundsAssumption DEF Live, Row, WithId, Known, Events
<1>2. e \in Stored
  BY DEF Stored, Known, Live
<1>3. Prepend(n) = Truncate(<<e>> \o w)
  BY DEF Prepend
<1> HIDE DEF e, D
<1>4. w \in Seq(Row) /\ Sifted(w, events, D, Len(events))
  BY WithoutFacts DEF Rows
<1> HIDE DEF w
<1>5. /\ \A j \in 1..Len(w) : \E i \in 1..Len(events) :
           w[j] = events[i] /\ events[i] \notin D
      /\ Distinct(w)
  BY <1>4 DEF Sifted, Rows
<1>6. \A j \in 1..Len(w) : w[j] # e /\ Backed(w[j], k)
  BY <1>1, <1>5 DEF Rows
<1>7. Backed(e, k)
  BY <1>1, <1>2 DEF Backed
<1>8. Rows(Truncate(<<e>> \o w), k)
  BY <1>1, <1>4, <1>5, <1>6, <1>7, FrontOK
<1> QED BY <1>3, <1>8

\* The rows of the table are rows of a list.
LEMMA StoredRows ==
  ASSUME copies \in [Events -> Nat]
  PROVE  \A r \in Stored : r \in Row /\ r.src = "live"
BY BoundsAssumption DEF Stored, Live, Row, Events

\* An answer of the API repeats no row, for its rows are in a strict order.
LEMMA NewestOK ==
  ASSUME copies \in [Events -> Nat], NEW k \in Nat, NEW m \in Nat,
         NEW s \in [1..m -> Stored], IsNewest(s)
  PROVE  Rows(s, k)
<1>1. s \in [1..m -> Row] /\ \A i \in 1..m : s[i].src = "live"
  BY StoredRows
<1>2. s \in Seq(Row) /\ Len(s) = m
  BY <1>1
<1>3. Distinct(s)
  <2> SUFFICES ASSUME NEW i \in 1..m, NEW j \in 1..m, s[i] = s[j], i < j PROVE FALSE
    BY <1>2 DEF Distinct
  <2>1. Before(s[i], s[i])
    BY <1>2 DEF IsNewest
  <2>2. s[i].n \in Nat /\ s[i].c \in Nat
    BY <1>1 DEF Row
  <2> QED BY <2>1, <2>2 DEF Before
<1> QED BY <1>1, <1>2, <1>3 DEF Rows, Backed, IsNewest

\* The backfill of the simulation.
LEMMA BackfillOK ==
  ASSUME NEW k \in Nat
  PROVE  Rows([i \in 1..Backfill |-> Demo(i)], Backfill + k)
<1> DEFINE r == [i \in 1..Backfill |-> Demo(i)]
<1>1. Backfill \in Nat /\ Backfill <= Window
  BY WindowAssumption
<1>2. \A i \in 1..Backfill : Demo(i) \in Row
  BY <1>1 DEF Demo, Row
<1>3. r \in Seq(Row) /\ Len(r) = Backfill
  BY <1>1, <1>2
<1>4. \A i \in 1..Backfill : r[i].n = i /\ r[i].src = "demo"
  BY DEF Demo
<1> HIDE DEF r
<1>5. Distinct(r)
  BY <1>1, <1>3, <1>4 DEF Distinct
<1> QED BY <1>1, <1>3, <1>4, <1>5 DEF Rows, Backed, r

\* The initial state: an empty list.
LEMMA ListInitOK == Init => ListInv
<1> SUFFICES ASSUME Init PROVE ListInv
  OBVIOUS
<1>1. Rows(<<>>, Backfill + 0)
  BY WindowAssumption DEF Rows, Distinct
<1>2. /\ events = <<>> /\ ticks = 0 /\ answers = {} /\ due = {} /\ data = 0
      /\ committed.data = 0 /\ copies = [n \in Events |-> 0]
      /\ wire = [t \in Tokens |-> <<>>]
  BY DEF Init, NoDeps
<1> QED BY <1>1, <1>2 DEF ListInv

\* A row that was inserted stays, so what was known and listed remains so.
LEMMA RowsStay ==
  ASSUME ListInv, copies' \in [Events -> Nat], \A n \in Events : copies[n] <= copies'[n]
  PROVE  /\ Known \subseteq Known'
         /\ Stored \subseteq Stored'
<1>1. Known \subseteq Known'
  BY DEF Known, ListInv
<1>2. Stored \subseteq Stored'
  <2> SUFFICES ASSUME NEW n \in Events, NEW c \in 1..copies[n]
               PROVE  Live(n, c) \in Stored'
    BY DEF Stored
  <2>1. c \in 1..copies'[n]
    BY DEF ListInv
  <2> QED BY <2>1 DEF Stored
<1> QED BY <1>1, <1>2

\* The steps that leave the rows alone.
LEMMA ListUnchangedOK ==
  ASSUME ListInv, UNCHANGED <<copies, ticks, events, answers>>, due' \subseteq Known,
         wire' \in [Tokens -> Seq(Known)],
         {data', committed'.data} \subseteq Known \cup {0}
  PROVE  ListInv'
<1>1. Known' = Known /\ Stored' = Stored
  BY DEF Known, Stored
<1>2. /\ copies' \in [Events -> Nat] /\ ticks' \in Nat
      /\ Rows(events, Backfill + ticks)'
      /\ \A s \in answers' : Rows(s, Backfill + ticks)'
  BY <1>1 DEF ListInv, Rows, Backed
<1> QED BY <1>1, <1>2 DEF ListInv

\* A socket without a frame on its way.
LEMMA EmptyWire == <<>> \in Seq(Known)
OBVIOUS

\* A batch is stored: only then are its events handed on.
LEMMA InsertOK ==
  ASSUME ListInv, NEW batch \in SUBSET Events, NEW ok \in BOOLEAN, Insert(batch, ok)
  PROVE  ListInv'
<1>1. /\ copies' = [n \in Events |-> IF n \in batch THEN copies[n] + 1 ELSE copies[n]]
      /\ due' = (IF ok THEN due \cup batch ELSE due)
      /\ UNCHANGED <<ticks, events, answers, wire, data, committed>>
  BY DEF Insert, socketVars, dataVars, renderVars, listVars
<1>2. /\ copies' \in [Events -> Nat]
      /\ \A n \in Events : copies[n] <= copies'[n]
  BY <1>1 DEF ListInv
<1>3. due' \subseteq Known'
  <2> SUFFICES ASSUME NEW n \in due' PROVE n \in Known'
    OBVIOUS
  <2>1. CASE n \in batch
    <3>1. copies'[n] = copies[n] + 1 /\ copies[n] \in Nat
      BY <1>1, <2>1 DEF ListInv
    <3> QED BY <2>1, <3>1 DEF Known
  <2>2. CASE n \notin batch
    BY <1>1, <1>2, <2>2, RowsStay DEF ListInv
  <2> QED BY <2>1, <2>2
<1>4. wire' \in [Tokens -> Seq(Known')]
  <2>1. \A t \in Tokens : wire[t] \in Seq(Known')
    BY <1>2, RowsStay DEF ListInv
  <2> QED BY <1>1, <2>1 DEF ListInv
<1>5. {data', committed'.data} \subseteq Known' \cup {0}
  BY <1>1, <1>2, RowsStay DEF ListInv
<1>6. Rows(events, Backfill + ticks)' /\ \A s \in answers : Rows(s, Backfill + ticks)'
  <2>1. Stored \subseteq Stored'
    BY <1>2, RowsStay
  <2> QED BY <1>1, <2>1 DEF ListInv, Rows, Backed
<1> QED BY <1>1, <1>2, <1>3, <1>4, <1>5, <1>6 DEF ListInv

\* The steps of the hub, the tokens, the sockets and the renderer.
LEMMA FeedOK ==
  ASSUME ListInv,
         \/ StoreToken \/ RemoveToken \/ Render \/ ProbeAnswered \/ RefreshFailed
         \/ \E n \in Events : Broadcast(n)
         \/ \E t \in Tokens : \/ OnOpen(t) \/ OnMessage(t) \/ CloseEnds(t)
                              \/ ConnectionLost(t) \/ Reconnect(t)
  PROVE  ListInv'
<1> USE DEF backendVars, socketVars, dataVars, renderVars, listVars
<1>1. ASSUME NEW n \in Events, Broadcast(n) PROVE ListInv'
  <2>1. n \in Known /\ \A t \in Tokens : Append(wire[t], n) \in Seq(Known)
    BY <1>1 DEF ListInv, Broadcast
  <2>2. wire' \in [Tokens -> Seq(Known)]
    BY <1>1, <2>1 DEF Broadcast, ListInv
  <2> QED BY <1>1, <2>2, ListUnchangedOK DEF Broadcast, ListInv
<1>2. CASE StoreToken \/ RemoveToken
  BY <1>2, ListUnchangedOK DEF StoreToken, RemoveToken, ListInv
<1>3. CASE ProbeAnswered \/ RefreshFailed
  BY <1>3, ListUnchangedOK DEF ProbeAnswered, RefreshFailed, ListInv
<1>4. CASE Render
  <2>1. committed'.data = data
    BY <1>4 DEF Render, Deps
  <2> QED BY <1>4, <2>1, ListUnchangedOK DEF Render, ListInv
<1>5. ASSUME NEW t \in Tokens, OnOpen(t) \/ Reconnect(t) PROVE ListInv'
  BY <1>5, ListUnchangedOK DEF OnOpen, Reconnect, ListInv
<1>6. ASSUME NEW t \in Tokens, OnMessage(t) PROVE ListInv'
  <2>1. Head(wire[t]) \in Known /\ Tail(wire[t]) \in Seq(Known)
    BY <1>6 DEF OnMessage, ListInv
  <2>2. wire' \in [Tokens -> Seq(Known)] /\ data' \in Known
    BY <1>6, <2>1 DEF OnMessage, ListInv
  <2> QED BY <1>6, <2>2, ListUnchangedOK DEF OnMessage, ListInv
<1>7. ASSUME NEW t \in Tokens, CloseEnds(t) \/ ConnectionLost(t) PROVE ListInv'
  <2>1. wire' = [wire EXCEPT ![t] = <<>>]
    BY <1>7 DEF CloseEnds, ConnectionLost, OnClose
  <2>2. wire' \in [Tokens -> Seq(Known)]
    BY <2>1, EmptyWire DEF ListInv
  <2> QED BY <1>7, <2>2, ListUnchangedOK DEF CloseEnds, ConnectionLost, ListInv
<1> QED BY <1>1, <1>2, <1>3, <1>4, <1>5, <1>6, <1>7

\* The list may become any list of stored rows.
LEMMA ListReplacedOK ==
  ASSUME ListInv, UNCHANGED <<copies, due>>, ticks' \in Nat, ticks <= ticks',
         answers' \subseteq answers, wire' \in [Tokens -> Seq(Known)],
         {data', committed'.data} \subseteq Known \cup {0},
         Rows(events', Backfill + ticks')
  PROVE  ListInv'
<1>1. Known' = Known /\ Stored' = Stored
  BY DEF Known, Stored
<1>2. Rows(events, Backfill + ticks)'
  BY <1>1 DEF Rows, Backed
<1>3. ASSUME NEW s \in answers' PROVE Rows(s, Backfill + ticks)'
  <2>1. Rows(s, Backfill + ticks)
    BY <1>3 DEF ListInv
  <2>2. ASSUME NEW i \in 1..Len(s), s[i].src = "demo" PROVE s[i].n <= Backfill + ticks'
    <3>1. s[i] \in Row /\ s[i].n <= Backfill + ticks
      BY <2>1, <2>2 DEF Rows, Backed
    <3>2. s[i].n \in Nat
      BY <3>1 DEF Row
    <3> QED BY <3>1, <3>2, WindowAssumption DEF ListInv
  <2> QED BY <1>1, <2>1, <2>2 DEF Rows, Backed
<1> QED BY <1>1, <1>2, <1>3 DEF ListInv

\* The live effect.
LEMMA LiveEffectOK == ListInv /\ RunEffects => ListInv'
<1> SUFFICES ASSUME ListInv, RunEffects PROVE ListInv'
  OBVIOUS
<1>1. wire' \in [Tokens -> Seq(Known)]
  <2>1. \/ wire' = wire
        \/ wire' = [s \in Tokens |-> IF s = ran.token THEN <<>> ELSE wire[s]]
    BY DEF RunEffects, Cleanup
  <2> QED BY <2>1, EmptyWire DEF ListInv
<1>2. /\ committed'.data = committed.data
      /\ UNCHANGED <<copies, due, data, ticks, answers>>
      /\ \/ events' = events
         \/ committed.data # 0 /\ events' = Prepend(committed.data)
  BY DEF RunEffects, backendVars, dataVars
<1>3. Backfill + ticks \in Nat
  BY WindowAssumption DEF ListInv
<1>4. Rows(events', Backfill + ticks)
  BY <1>2, <1>3, PrependOK DEF ListInv
<1> QED BY <1>1, <1>2, <1>4, ListReplacedOK DEF ListInv

\* The row of a tick is new.
LEMMA TickOK == ListInv /\ DemoTick => ListInv'
<1> SUFFICES ASSUME ListInv, DemoTick PROVE ListInv'
  OBVIOUS
<1> DEFINE k == Backfill + ticks
           e == Demo(k + 1)
<1>1. /\ events' = Truncate(<<Demo(Backfill + ticks + 1)>> \o events)
      /\ ticks' = ticks + 1
      /\ UNCHANGED <<copies, due, data, committed, wire, answers>>
  BY DEF DemoTick, backendVars, socketVars, dataVars, renderVars
<1>2. k \in Nat /\ Backfill + (ticks + 1) = k + 1
  BY WindowAssumption DEF ListInv
<1>3. e \in Row /\ e.src = "demo" /\ e.n = k + 1
  BY <1>2 DEF Demo, Row
<1>4. /\ events \in Seq(Row) /\ Distinct(events)
      /\ \A i \in 1..Len(events) : Backed(events[i], k)
  BY DEF ListInv, Rows
<1>5. events' = Truncate(<<e>> \o events)
  BY <1>1
<1> HIDE DEF k, e
<1>6. \A i \in 1..Len(events) :
        events[i] # e /\ Backed(events[i], k + 1)
  <2> TAKE i \in 1..Len(events)
  <2>1. events[i] \in Row
    BY <1>4
  <2>2. events[i].n \in Nat
    BY <2>1 DEF Row
  <2> QED BY <1>2, <1>3, <1>4, <2>2 DEF Backed
<1>7. Rows(events', k + 1)
  <2>1. Backed(e, k + 1) /\ k + 1 \in Nat
    BY <1>2, <1>3 DEF Backed
  <2> QED BY <1>3, <1>4, <1>5, <1>6, <2>1, FrontOK
<1>8. Rows(events', Backfill + ticks')
  BY <1>1, <1>2, <1>7
<1> QED BY <1>1, <1>8, ListReplacedOK DEF ListInv

\* The answers: what the API reads is stored, what a refresh applies was read, and
\* the crash leaves nothing.
LEMMA RefreshOK ==
  ASSUME ListInv,
         RefreshAnswered \/ \E s \in answers : RefreshDone(s) \/ RefreshCrashes(s)
  PROVE  ListInv'
<1> USE DEF backendVars, socketVars, dataVars, renderVars, listVars
<1>0. Backfill + ticks \in Nat
  BY WindowAssumption DEF ListInv
<1>1. CASE RefreshAnswered
  <2>1. PICK s \in UNION {[1..m -> Stored] : m \in 0..Window} :
          IsNewest(s) /\ answers' = answers \cup {s}
    BY <1>1 DEF RefreshAnswered
  <2>a. PICK m \in 0..Window : s \in [1..m -> Stored]
    OBVIOUS
  <2>2. Rows(s, Backfill + ticks)
    BY <1>0, <2>1, <2>a, NewestOK, WindowAssumption DEF ListInv
  <2>3. UNCHANGED <<copies, due, ticks, wire, data, committed, events>>
    BY <1>1 DEF RefreshAnswered
  <2>4. Known' = Known /\ Stored' = Stored
    BY <2>3 DEF Known, Stored
  <2>5. \A q \in answers' \cup {events} : Rows(q, Backfill + ticks)'
    BY <2>1, <2>2, <2>3, <2>4 DEF ListInv, Rows, Backed
  <2> QED BY <2>3, <2>4, <2>5 DEF ListInv
<1>2. ASSUME NEW s \in answers, RefreshDone(s) PROVE ListInv'
  BY <1>2, ListReplacedOK DEF RefreshDone, ListInv
<1>3. ASSUME NEW s \in answers, RefreshCrashes(s) PROVE ListInv'
  <2>1. wire' \in [Tokens -> Seq(Known)]
    BY <1>3, EmptyWire DEF RefreshCrashes, Cleanup, ListInv
  <2>2. Rows(<<>>, Backfill + ticks)
    BY WindowAssumption DEF Rows, Distinct
  <2> QED BY <1>3, <2>1, <2>2, ListReplacedOK DEF RefreshCrashes, NoDeps, ListInv
<1> QED BY <1>1, <1>2, <1>3

\* Every step keeps the rows of the list stored and distinct.
LEMMA ListStepOK == ListInv /\ [Next]_vars => ListInv'
<1> SUFFICES ASSUME ListInv, [Next]_vars PROVE ListInv'
  OBVIOUS
<1> USE DEF backendVars, socketVars, dataVars, renderVars, listVars
<1>1. CASE ProbeFailed
  <2>1. Rows(events', Backfill + ticks)
    BY <1>1, BackfillOK DEF ProbeFailed, ListInv
  <2> QED BY <1>1, <2>1, ListReplacedOK DEF ProbeFailed, ListInv
<1>2. CASE UNCHANGED vars
  BY <1>2, ListUnchangedOK DEF vars, ListInv
<1> QED
  BY <1>1, <1>2, InsertOK, FeedOK, LiveEffectOK, TickOK, RefreshOK DEF Next

\* The hook adds nothing to what the table holds: whatever frames, polls and
\* simulated ticks come in whatever order, and however often the engine stored an
\* event, every row of the list is a stored one and is listed once.
THEOREM ListBacked == Spec => []RowsBacked
<1>1. ASSUME ListInv PROVE RowsBacked
  <2>1. /\ DOMAIN events = 1..Len(events) /\ Distinct(events)
        /\ \A i \in 1..Len(events) : Backed(events[i], Backfill + ticks)
    BY <1>1 DEF ListInv, Rows
  <2> QED BY <2>1 DEF Backed, Distinct, RowsBacked
<1> QED BY <1>1, ListInitOK, ListStepOK, PTL DEF Spec

=============================================================================
