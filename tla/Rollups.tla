------------------------------ MODULE Rollups -------------------------------
(***************************************************************************)
(* dashboard: the rollups of the Analytics page.  Each is fetched when the *)
(* page is shown and every 60 s; fetches overlap and end in any order, and *)
(* each replaces what is shown.  A fetch that the service refuses shows    *)
(* nothing, one that does not reach it shows simulated figures, and one    *)
(* that finds no row takes the dashboard down: analytics-service answers   *)
(* with null, which the page treats as a list.                             *)
(***************************************************************************)
EXTENDS LiveValues

CONSTANT Fetches   \* fetches of one rollup that may be in flight

VARIABLES
  fetch,    \* fetch[r][f]: a fetch of rollup r
  rollup    \* rollup[r]: what the page has of r

rollupVars == <<fetch, rollup>>

NoFetches == [r \in RollupNames |-> [f \in Fetches |-> "idle"]]

RollupInit ==
  /\ fetch = NoFetches
  /\ rollup = [r \in RollupNames |-> "empty"]

\* The page is left.
RollupUnmount ==
  /\ fetch' = NoFetches
  /\ rollup' = [r \in RollupNames |-> "empty"]

\* demoFraudRate, demoGeo, demoTopThreats: made-up figures.
Simulated == "simulated"

\* GetFraudRate, GetGeo, GetTopThreats: the rows of the query, or a nil slice,
\* which is null in JSON.
Null == "null"
Reply(r) ==
  IF up["analytics"] = "ok" /\ r \in bare THEN Null ELSE up["analytics"]

\* fetchFraudRate, fetchGeo, fetchTopThreats: what the page gets, but for null.
Fetched(a) ==
  CASE a = "ok"    -> "stored"
    [] a = "error" -> "empty"
    [] a = "none"  -> Simulated

\* load() starts a fetch of r.  When Fetches are in flight there is none left.
Started(r) ==
  LET free == {f \in Fetches : fetch[r][f] = "idle"}
  IN  IF free = {} THEN fetch[r]
      ELSE [fetch[r] EXCEPT ![CHOOSE f \in free : TRUE] = NotYet]

\* Seeded fault: the interval is missing, the rollups are loaded once.
LoadsOnce ==
  /\ page = "analytics"
  /\ fetch = NoFetches /\ \A r \in RollupNames : rollup[r] = "empty"

\* The effect runs load() at once and again every 60 s.
LoadDue == page = "analytics"

LoadRollups ==
  /\ LoadDue
  /\ fetch' = [r \in RollupNames |-> Started(r)]
  /\ UNCHANGED rollup

\* The service answers, or its connection fails.
FetchAnswered(r, f) ==
  /\ fetch[r][f] = NotYet
  /\ fetch' = [fetch EXCEPT ![r][f] = Reply(r)]
  /\ UNCHANGED rollup

\* The result is shown, also when that of a later fetch was shown before.
FetchShown(r, f) ==
  /\ fetch[r][f] \in Answers
  /\ rollup' = [rollup EXCEPT ![r] = Fetched(fetch[r][f])]
  /\ fetch' = [fetch EXCEPT ![r][f] = "idle"]

\* The result is null: rendering the page with it throws (fraudRateSeries.length,
\* geoData.slice, threatSources.length), and nothing catches it.
RenderThrows(r, f) ==
  /\ fetch[r][f] = Null
  /\ page' = Crashed

\* The chart of the hourly volume falls back on the live list, the other cards
\* on a placeholder.
HourlyData ==
  IF rollup["fraudRate"] # "empty" THEN rollup["fraudRate"] ELSE "live list"

Card(r) == IF rollup[r] # "empty" THEN rollup[r] ELSE "awaiting"

-----------------------------------------------------------------------------
(* Properties.                                                             *)

RollupTypeOK ==
  /\ fetch \in [RollupNames -> [Fetches -> {"idle", NotYet, Null} \cup Answers]]
  /\ rollup \in [RollupNames -> {"empty", "stored", "simulated"}]

\* The Analytics page recovers: after the last failure or recovery of the
\* service every figure it shows is of the present kind for good, and neither
\* simulated figures nor a placeholder outlive the failure they stand for,
\* however the fetches of before and after it overlap; unless an answer
\* without rows has taken it down, and then no page is shown at all.
RollupsConverge ==
  <>[](page = "analytics" =>
         /\ up["analytics"] = "ok" =>
              /\ HourlyData = "stored"
              /\ \A r \in RollupNames : Card(r) = "stored"
         /\ up["analytics"] = "error" =>
              /\ HourlyData = "live list"
              /\ \A r \in RollupNames : Card(r) = "awaiting"
         /\ up["analytics"] = "none" =>
              \A r \in RollupNames : Card(r) = "simulated")

=============================================================================
