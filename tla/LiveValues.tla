----------------------------- MODULE LiveValues -----------------------------
(***************************************************************************)
(* dashboard: what the pages depend on.  From LiveContext (useLive) they   *)
(* get a list of events, the same one twice where the store has it twice,  *)
(* that changes under them, the state of the stream, and the demo flag,    *)
(* which is set at most once; and they ask services, which fail and        *)
(* recover, and queries that may find no row.  The pages share one shell;  *)
(* a page that is left is unmounted and loses its state.                   *)
(***************************************************************************)
EXTENDS Integers, Sequences, Functions

CONSTANTS
  Ids,          \* events
  Window,       \* events the list keeps
  Services,     \* services the pages ask: "gateway", "auth", "analytics"
  RollupNames,  \* rollups of the store: "fraudRate", "geo", "topThreats"
  MaxChanges,   \* bound: changes of what the pages depend on
  MaxVisits     \* bound: navigations between pages

ASSUME ValuesAssumption ==
  /\ {Window, MaxChanges, MaxVisits} \subseteq Nat
  /\ {"gateway", "analytics"} \subseteq Services
  /\ "fraudRate" \in RollupNames

VARIABLES
  page,        \* the page that is shown
  visits,      \* navigations so far
  events,      \* live values: the list
  connected,   \* live values: isConnected
  liveDemo,    \* live values: demo
  up,          \* what a service answers: a success, an error or nothing
  bare,        \* rollups whose query finds no row
  changes      \* changes so far

liveVars == <<events, connected, liveDemo, up, bare, changes>>

PageNames == {"home", "threats", "analytics", "system"}
Crashed   == "crashed"   \* an exception while rendering: nothing is shown any more
Answers   == {"ok", "error", "none"}
NotYet    == "not yet"

\* The lists the live feed may hold.
Lists == UNION {[1..n -> Ids] : n \in 0..Window}

LiveInit ==
  /\ page \in PageNames /\ visits = 0
  /\ events \in Lists /\ connected = FALSE /\ liveDemo = FALSE
  /\ up = [s \in Services |-> "ok"]
  /\ bare = {}
  /\ changes = 0

\* Something changed outside the pages.
Change == changes < MaxChanges /\ changes' = changes + 1

\* A frame or a poll: events come and go, and may come back.
ListChanges ==
  /\ Change
  /\ events' \in Lists \ {events}
  /\ UNCHANGED <<connected, liveDemo, up, bare>>

StreamChanges ==
  /\ Change
  /\ ~liveDemo
  /\ connected' = ~connected
  /\ UNCHANGED <<events, liveDemo, up, bare>>

\* The probe of useAnalytics fails: simulated events replace whatever frames
\* brought, and the simulation counts as connected.
DemoStarts ==
  /\ Change
  /\ ~liveDemo
  /\ liveDemo' = TRUE
  /\ events' \in Lists \ {<<>>}
  /\ connected' = TRUE
  /\ UNCHANGED <<up, bare>>

\* A service fails or recovers.
ServiceChanges ==
  /\ Change
  /\ \E s \in Services, a \in Answers : up[s] # a /\ up' = [up EXCEPT ![s] = a]
  /\ UNCHANGED <<events, connected, liveDemo, bare>>

\* Events are stored, or the last one leaves the 24 hours a query looks at.
RowsChange ==
  /\ Change
  /\ \E r \in RollupNames : bare' = IF r \in bare THEN bare \ {r} ELSE bare \cup {r}
  /\ UNCHANGED <<events, connected, liveDemo, up>>

LiveStep ==
  ListChanges \/ StreamChanges \/ DemoStarts \/ ServiceChanges \/ RowsChange

=============================================================================
