----------------------------- MODULE LiveStream -----------------------------
(***************************************************************************)
(* dashboard: the one live feed every page reads.  useWebSocket keeps a    *)
(* socket to the analytics hub and reconnects it; useAnalytics probes the  *)
(* backend once and then either polls the REST API every 30 s and prepends *)
(* the socket's events to the polled list, or, when the probe fails, runs  *)
(* on simulated events.                                                    *)
(*                                                                         *)
(* The browser runs one handler at a time.  A state change is seen by an   *)
(* effect only after a render (Render), which fixes the values the effect  *)
(* closes over, and the effect itself runs later still (RunEffects); other *)
(* handlers may run in between.                                            *)
(*                                                                         *)
(* The events of the backend are numbered in the order of their            *)
(* timestamps, whatever order they arrive in.  The analytics engine        *)
(* inserts a batch into ClickHouse, which the REST API reads, and then     *)
(* hands its events to the hub.  The table keeps every row it is given: an *)
(* attempt that failed after it stored, or a redelivery, stores the event  *)
(* again.  A row is [src, n, c], the c-th row of event n; its id is n, the *)
(* dashboard does not see c.                                               *)
(*                                                                         *)
(* Access tokens are numbered as they are stored, 0 is none; the socket's  *)
(* URL holds the token, so sockets are named by it: the effect of one URL  *)
(* has at most one socket at a time.                                       *)
(***************************************************************************)
EXTENDS ListOps, FiniteSets

CONSTANTS
  Window,       \* events the list keeps (50)
  Backfill,     \* simulated events a demo starts with (48)
  MaxPolls,     \* bound: answers on their way at the same time
  MaxEvents,    \* bound: events of the backend
  MaxRows,      \* bound: rows of the table
  MaxTokens,    \* bound: access tokens, the first one and its successors
  MaxDrops,     \* bound: sockets that fail
  MaxTicks      \* bound: ticks of the simulation

ASSUME WindowAssumption == Window \in Nat \ {0} /\ Backfill \in 1..Window
ASSUME BoundsAssumption ==
  /\ MaxTokens \in Nat \ {0}
  /\ {MaxEvents, MaxRows, MaxPolls, MaxDrops, MaxTicks} \subseteq Nat

VARIABLES
  copies,      \* copies[n]: rows of event n in the table
  due,         \* events inserted that the engine has still to hand to the hub
  issued,      \* access tokens stored so far
  token,       \* sentinel_access_token in localStorage (0: removed)
  sock,        \* sock[t]: state of the socket opened with token t
  wire,        \* wire[t]: frames on their way on that socket
  retryTimer,  \* tokens whose effect has a reconnection timer running
  isConnected, \* state of useWebSocket
  data,        \* state of useWebSocket: the event of the last frame (0: null)
  arrived,     \* a frame came since the last render: data is a new object
  committed,   \* what the last render gave to the effects
  ran,         \* what the effects last ran with
  probe,       \* the probe of the backend
  demo,        \* state of useAnalytics, as the next three
  events,
  loading,
  error,
  crashed,     \* a render threw: the dashboard is unmounted
  answers,     \* answers of the API on their way to the refreshes they are for
  inserts,     \* rows stored so far
  drops,       \* sockets that failed so far
  ticks        \* ticks of the simulation so far

backendVars == <<copies, due, inserts>>
tokenVars   == <<issued, token>>
socketVars  == <<sock, wire, retryTimer, isConnected, drops>>
dataVars    == <<data, arrived>>
renderVars  == <<committed, ran>>
listVars    == <<demo, events, loading, error, crashed>>
vars == <<backendVars, tokenVars, socketVars, dataVars, renderVars, probe,
          listVars, answers, ticks>>

Events == 1..MaxEvents
Tokens == 1..MaxTokens

Live(n, c) == [src |-> "live", n |-> n, c |-> c]
Demo(n)    == [src |-> "demo", n |-> n, c |-> 1]

Row == [src : {"live", "demo"}, n : Nat, c : Nat]

\* The dependencies of the effects, as the next render would see them.  The url
\* is null without a token.
Deps == [token |-> token, data |-> data, fresh |-> arrived, demo |-> demo]

\* Before the first render, and after the dashboard is unmounted.
NoDeps == [token |-> 0, data |-> 0, fresh |-> FALSE, demo |-> FALSE]

\* The URL effect that is in force (0: none); the ones before it are cancelled.
Current == ran.token

Init ==
  /\ copies = [n \in Events |-> 0] /\ due = {}
  /\ issued = 1 /\ token = 1
  /\ sock = [t \in Tokens |-> "none"]
  /\ wire = [t \in Tokens |-> <<>>]
  /\ retryTimer = {}
  /\ isConnected = FALSE
  /\ data = 0 /\ arrived = FALSE
  /\ committed = NoDeps /\ ran = NoDeps
  /\ probe = "pending"
  /\ demo = FALSE
  /\ events = <<>>
  /\ loading = TRUE
  /\ error = FALSE
  /\ crashed = FALSE
  /\ answers = {}
  /\ inserts = 0 /\ drops = 0 /\ ticks = 0

\* slice(0, 50).
Truncate(s) == SubSeq(s, 1, IF Len(s) < Window THEN Len(s) ELSE Window)

\* The rows with the id of event n.
WithId(n) == [src : {"live"}, n : {n}, c : Nat]

\* Seeded fault: the rows already listed are not filtered out.
PrependTwice(n) == Truncate(<<Live(n, 1)>> \o events)

\* The update of the live effect: the event to the front, every row that has its
\* id out.
Prepend(n) == Truncate(<<Live(n, 1)>> \o Without(events, WithId(n)))

\* The rows of the table, and their order in an answer.
Stored == UNION {{Live(n, c) : c \in 1..copies[n]} : n \in Events}

Before(r, q) == r.n > q.n \/ (r.n = q.n /\ r.c < q.c)

\* GetEvents, ORDER BY timestamp DESC LIMIT 50: s is the beginning of the table.
IsNewest(s) ==
  /\ Len(s) <= Window
  /\ \A i \in 1..Len(s) : s[i] \in Stored
  /\ \A i, j \in 1..Len(s) : i < j => Before(s[i], s[j])
  /\ \A r \in Stored : \/ \E i \in 1..Len(s) : s[i] = r
                       \/ Len(s) = Window /\ Before(s[Window], r)

-----------------------------------------------------------------------------
(* The backend.                                                            *)

\* InsertBatch stores a batch.  When it also answers in time the engine goes on
\* to hand the events to the hub (ok); otherwise the rows stay and the engine
\* tries again, or is gone.
Insert(batch, ok) ==
  /\ inserts + Cardinality(batch) <= MaxRows
  /\ inserts' = inserts + Cardinality(batch)
  /\ copies' = [n \in Events |-> IF n \in batch THEN copies[n] + 1 ELSE copies[n]]
  /\ due' = IF ok THEN due \cup batch ELSE due
  /\ UNCHANGED <<tokenVars, socketVars, dataVars, renderVars, probe, listVars,
                 answers, ticks>>

\* onEvent: the hub sends the event to the open sockets whose queue has room.
Broadcast(n) ==
  /\ n \in due
  /\ due' = due \ {n}
  /\ \E reached \in SUBSET {t \in Tokens : sock[t] = "open"} :
       wire' = [t \in Tokens |-> IF t \in reached THEN Append(wire[t], n)
                                 ELSE wire[t]]
  /\ UNCHANGED <<copies, inserts, tokenVars, sock, retryTimer, isConnected, drops,
                 dataVars, renderVars, probe, listVars, answers, ticks>>

\* A login, or fetchWithRefresh in some request of the browser, stored a token.
StoreToken ==
  /\ issued < MaxTokens
  /\ issued' = issued + 1
  /\ token' = issued + 1
  /\ UNCHANGED <<backendVars, socketVars, dataVars, renderVars, probe, listVars,
                 answers, ticks>>

\* A logout, or a refresh that was refused, removed it.
RemoveToken ==
  /\ token # 0
  /\ token' = 0
  /\ UNCHANGED <<issued, backendVars, socketVars, dataVars, renderVars, probe,
                 listVars, answers, ticks>>

-----------------------------------------------------------------------------
(* The socket.                                                             *)

OnOpen(t) ==
  /\ sock[t] = "connecting"
  /\ sock' = [sock EXCEPT ![t] = "open"]
  /\ isConnected' = TRUE
  /\ UNCHANGED <<backendVars, tokenVars, wire, retryTimer, drops, dataVars,
                 renderVars, probe, listVars, answers, ticks>>

\* Two frames before a render leave only the second one.
OnMessage(t) ==
  /\ sock[t] = "open" /\ wire[t] # <<>>
  /\ data' = Head(wire[t])
  /\ arrived' = TRUE
  /\ wire' = [wire EXCEPT ![t] = Tail(@)]
  /\ UNCHANGED <<backendVars, tokenVars, sock, retryTimer, isConnected, drops,
                 renderVars, probe, listVars, answers, ticks>>

\* Seeded fault: the close event of a replaced socket is ignored.
OnCloseCurrent(t) ==
  /\ sock' = [sock EXCEPT ![t] = "none"]
  /\ wire' = [wire EXCEPT ![t] = <<>>]
  /\ IF t = Current
     THEN isConnected' = FALSE /\ retryTimer' = retryTimer \cup {t}
     ELSE UNCHANGED <<isConnected, retryTimer>>

\* Seeded fault: only a connection that was up is reconnected.
OnCloseGivesUp(t) ==
  /\ sock' = [sock EXCEPT ![t] = "none"]
  /\ wire' = [wire EXCEPT ![t] = <<>>]
  /\ isConnected' = FALSE
  /\ retryTimer' = IF t = Current /\ sock[t] = "open" THEN retryTimer \cup {t}
                   ELSE retryTimer

\* The close event.  It marks the stream as down whichever socket it is of;
\* unless the effect was cancelled a timer will reconnect (its delay grows from
\* 0.5 s to 30 s).
OnClose(t) ==
  /\ sock' = [sock EXCEPT ![t] = "none"]
  /\ wire' = [wire EXCEPT ![t] = <<>>]
  /\ isConnected' = FALSE
  /\ retryTimer' = IF t = Current THEN retryTimer \cup {t} ELSE retryTimer

\* The handshake that close() began ends.
CloseEnds(t) ==
  /\ sock[t] = "closing"
  /\ OnClose(t)
  /\ UNCHANGED <<backendVars, tokenVars, drops, dataVars, renderVars, probe,
                 listVars, answers, ticks>>

\* The connection fails or the hub closes it.
ConnectionLost(t) ==
  /\ sock[t] \in {"connecting", "open"}
  /\ drops < MaxDrops
  /\ drops' = drops + 1
  /\ OnClose(t)
  /\ UNCHANGED <<backendVars, tokenVars, dataVars, renderVars, probe, listVars,
                 answers, ticks>>

Reconnect(t) ==
  /\ t \in retryTimer
  /\ retryTimer' = retryTimer \ {t}
  /\ sock' = [sock EXCEPT ![t] = "connecting"]
  /\ UNCHANGED <<backendVars, tokenVars, wire, isConnected, drops, dataVars,
                 renderVars, probe, listVars, answers, ticks>>

-----------------------------------------------------------------------------
(* Rendering.                                                              *)

\* React runs the effects of the last render before it renders again.
Render ==
  /\ ~crashed
  /\ ran = committed
  /\ committed # Deps
  /\ committed' = Deps
  /\ arrived' = FALSE
  /\ UNCHANGED <<backendVars, tokenVars, socketVars, data, ran, probe, listVars,
                 answers, ticks>>

\* Seeded fault: the socket is left open.
LeaveSocket(t) == sock

\* The state of the sockets after the clean-up of the effect of token t.
CloseSocket(t) ==
  [s \in Tokens |-> IF s = t /\ sock[s] # "none" THEN "closing" ELSE sock[s]]

\* The clean-up of the effect of token t.
Cleanup(t) ==
  /\ retryTimer' = retryTimer \ {t}
  /\ wire' = [s \in Tokens |-> IF s = t THEN <<>> ELSE wire[s]]

\* The effects of the last render: [url] replaces the socket, by none when the
\* url is null; [liveEvent, demo] prepends the event unless that render was in
\* demo mode.
RunEffects ==
  /\ committed # ran
  /\ committed' = [committed EXCEPT !.fresh = FALSE]
  /\ ran' = [committed EXCEPT !.fresh = FALSE]
  /\ IF committed.token = ran.token THEN UNCHANGED <<sock, wire, retryTimer>>
     ELSE /\ Cleanup(ran.token)
          /\ sock' = [s \in Tokens |-> IF s = committed.token THEN "connecting"
                                       ELSE CloseSocket(ran.token)[s]]
  /\ events' = IF /\ committed.fresh \/ committed.demo # ran.demo
                  /\ committed.data # 0 /\ ~committed.demo
               THEN Prepend(committed.data) ELSE events
  /\ UNCHANGED <<backendVars, tokenVars, isConnected, drops, dataVars, probe,
                 demo, loading, error, crashed, answers, ticks>>

-----------------------------------------------------------------------------
(* The probe, the refreshes and the simulation.                            *)

\* Any answer within 2.5 s.
ProbeAnswered ==
  /\ probe = "pending"
  /\ probe' = "reachable"
  /\ UNCHANGED <<backendVars, tokenVars, socketVars, dataVars, renderVars,
                 listVars, answers, ticks>>

\* No answer: demo mode, with a backfill that runs from the oldest event to the
\* newest one.
ProbeFailed ==
  /\ probe = "pending"
  /\ probe' = "unreachable"
  /\ demo' = TRUE
  /\ events' = [i \in 1..Backfill |-> Demo(i)]
  /\ error' = FALSE
  /\ loading' = FALSE
  /\ UNCHANGED <<backendVars, tokenVars, socketVars, dataVars, renderVars,
                 crashed, answers, ticks>>

\* One tick of the simulation.
DemoTick ==
  /\ probe = "unreachable"
  /\ ticks < MaxTicks
  /\ ticks' = ticks + 1
  /\ events' = Truncate(<<Demo(Backfill + ticks + 1)>> \o events)
  /\ UNCHANGED <<backendVars, tokenVars, socketVars, dataVars, renderVars, probe,
                 demo, loading, error, crashed, answers>>

\* Seeded fault: the interval is missing, the list is loaded once.
RefreshOnce ==
  /\ probe = "reachable" /\ ~crashed
  /\ loading
  /\ answers = {}

\* A refresh runs right after the probe and then every 30 s, whether or not the
\* one before has ended.
Refresh ==
  /\ probe = "reachable" /\ ~crashed
  /\ Cardinality(answers) < MaxPolls

\* The API answers from what is stored then; nothing of a refresh can be seen
\* before that.
RefreshAnswered ==
  /\ Refresh
  /\ \E s \in UNION {[1..k -> Stored] : k \in 0..Window} :
       IsNewest(s) /\ answers' = answers \cup {s}
  /\ UNCHANGED <<backendVars, tokenVars, socketVars, dataVars, renderVars, probe,
                 listVars, ticks>>

\* Both requests are answered: the rows replace the list, also when an answer
\* that was read later has come first.
RefreshDone(s) ==
  /\ s # <<>>
  /\ events' = s
  /\ error' = FALSE
  /\ demo' = FALSE
  /\ loading' = FALSE
  /\ answers' = answers \ {s}
  /\ UNCHANGED <<backendVars, tokenVars, socketVars, dataVars, renderVars, probe,
                 crashed, ticks>>

\* An empty table is a nil slice in GetEvents and null in its JSON: the render
\* that follows setEvents throws at events.filter.  No error boundary is there to
\* catch it, so React unmounts the dashboard, the clean-up of the URL effect
\* included, and what the refreshes still bring reaches nothing.
RefreshCrashes(s) ==
  /\ s = <<>>
  /\ crashed' = TRUE
  /\ sock' = CloseSocket(ran.token)
  /\ Cleanup(ran.token)
  /\ isConnected' = FALSE
  /\ events' = <<>>
  /\ data' = 0 /\ arrived' = FALSE
  /\ committed' = NoDeps /\ ran' = NoDeps
  /\ demo' = FALSE /\ loading' = FALSE /\ error' = FALSE
  /\ answers' = {}
  /\ UNCHANGED <<backendVars, tokenVars, drops, probe, ticks>>

\* One of the requests fails or is answered with an error status.
RefreshFailed ==
  /\ Refresh
  /\ error' = TRUE
  /\ loading' = FALSE
  /\ UNCHANGED <<backendVars, tokenVars, socketVars, dataVars, renderVars, probe,
                 demo, events, crashed, answers, ticks>>

-----------------------------------------------------------------------------
Next ==
  \/ \E batch \in SUBSET Events \ {{}}, ok \in BOOLEAN : Insert(batch, ok)
  \/ \E n \in Events : Broadcast(n)
  \/ StoreToken \/ RemoveToken
  \/ \E t \in Tokens :
       \/ OnOpen(t) \/ OnMessage(t) \/ CloseEnds(t)
       \/ ConnectionLost(t) \/ Reconnect(t)
  \/ Render \/ RunEffects
  \/ ProbeAnswered \/ ProbeFailed \/ DemoTick
  \/ RefreshAnswered \/ RefreshFailed
  \/ \E s \in answers : RefreshDone(s) \/ RefreshCrashes(s)

\* The browser runs its timers and callbacks and React renders (a refresh or a
\* tick gives it reason to, every 30 s or 1.4 s, whatever else happens); a
\* connection attempt that does not fail is answered, not every refresh fails, and a
\* frame that was sent arrives.  Nothing makes inserts, failures, logins or logouts
\* happen, and nothing is assumed of the hub.
Fairness ==
  /\ WF_vars(Render) /\ WF_vars(RunEffects)
  /\ \A t \in Tokens :
       /\ WF_vars(OnOpen(t)) /\ WF_vars(OnMessage(t))
       /\ WF_vars(CloseEnds(t)) /\ WF_vars(Reconnect(t))
  /\ WF_vars(RefreshAnswered)
  /\ WF_vars(\E s \in answers : RefreshDone(s) \/ RefreshCrashes(s))

Spec == Init /\ [][Next]_vars /\ Fairness

-----------------------------------------------------------------------------
(* Properties.                                                             *)

DepsType ==
  [token : 0..MaxTokens, data : 0..MaxEvents, fresh : BOOLEAN, demo : BOOLEAN]

TypeOK ==
  /\ copies \in [Events -> 0..inserts] /\ due \subseteq Events
  /\ issued \in Tokens /\ token \in 0..issued
  /\ sock \in [Tokens -> {"none", "connecting", "open", "closing"}]
  /\ wire \in [Tokens -> Seq(Events)]
  /\ retryTimer \subseteq Tokens
  /\ isConnected \in BOOLEAN
  /\ data \in 0..MaxEvents /\ arrived \in BOOLEAN
  /\ committed \in DepsType /\ ran \in DepsType
  /\ probe \in {"pending", "reachable", "unreachable"}
  /\ demo \in BOOLEAN
  /\ events \in Seq(Row) /\ Len(events) <= Window
  /\ loading \in BOOLEAN /\ error \in BOOLEAN /\ crashed \in BOOLEAN
  /\ answers \subseteq Seq(Row)
  /\ {inserts, drops, ticks} \subseteq Nat

\* LiveContext: one WebSocket for the whole dashboard.  Whatever order token
\* changes, failures and reconnection timers come in, no effect but the one in
\* force has a socket that is up or coming up, or a timer that would open one.
OneStream ==
  \A t \in Tokens :
    sock[t] \in {"connecting", "open"} \/ t \in retryTimer => t = Current

\* The LIVE pill is never left on by a socket that is gone: while isConnected is
\* set, some socket is open or has its close event still to come.
StatusBacked ==
  isConnected => \E t \in Tokens : sock[t] \in {"open", "closing"}

\* Whether a row came by a frame, by a poll or by both, in any order, the list
\* never shows more than the table holds: every live row is a stored one and is
\* listed once, so an event shows as often as it was stored and no more, and a
\* simulated row is never repeated.
RowsBacked ==
  /\ \A i, j \in DOMAIN events : events[i] = events[j] => i = j
  /\ \A i \in DOMAIN events : events[i].src = "live" => events[i] \in Stored

\* Frames that were coalesced or lost, live rows that a poll removed and answers
\* that overtook each other are all repaired: with a backend, the list ends up
\* being what the API reads from the table, unless the table was found empty.
ListSettles ==
  <>[](probe = "reachable" => crashed \/ IsNewest(events))

\* The stream is always restored: after the last failure and the last change of
\* the token the socket of the current token, if there is one, opens and stays
\* open.
StreamRestored ==
  <>[](crashed \/ token = 0 \/ (Current = token /\ sock[token] = "open"))

=============================================================================
