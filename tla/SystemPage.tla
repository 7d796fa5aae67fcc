----------------------------- MODULE SystemPage -----------------------------
(***************************************************************************)
(* dashboard: the System page.  runProbes asks the services concurrently   *)
(* and then writes all rows at once; it closes over the live values of the *)
(* render that created it.  An effect runs it when those values change and *)
(* every 30 s; runs overlap and end in any order.                          *)
(***************************************************************************)
EXTENDS LiveValues

CONSTANT Runs   \* runs of the probes that may be in flight

VARIABLES
  deps,      \* the live values the effect last ran with, {} before it ran
  run,       \* run[k]: a run of the probes
  probes     \* the rows shown, {} before the first run

systemVars == <<deps, run, probes>>

Statuses == {"ok", "degraded", "down"}

\* The live values runProbes closes over.
LiveDeps == [connected |-> connected, len |-> Len(events), demo |-> liveDemo]

NoRun == [deps |-> {}, got |-> [s \in Services |-> NotYet]]

SystemInit ==
  /\ deps = {}
  /\ run = [k \in Runs |-> NoRun]
  /\ probes = {}

\* The page is left.
SystemUnmount ==
  /\ deps' = {} /\ run' = [k \in Runs |-> NoRun] /\ probes' = {}

\* "redis" in the body of GET /health is a JSON boolean (gateway, main), and the
\* page compares it with the strings "true" and "ok".
GatewayRedis == <<"boolean", "true">>
Healthy(v)   == v \in {<<"string", "true">>, <<"string", "ok">>}

\* The status a probe derives from the answer of its service.
ProbeStatus(s, a) ==
  CASE a = "none"  -> "down"
    [] a = "error" -> "degraded"
    [] a = "ok"    -> IF s = "gateway" /\ ~Healthy(GatewayRedis) THEN "degraded" ELSE "ok"

\* The rows after a run with the live values d in which the services gave got.
Rows(d, got) ==
  LET analytics == ProbeStatus("analytics", got["analytics"])
      derived == [websocket  |-> IF d.connected THEN "ok" ELSE "down",
                  clickhouse |-> analytics,
                  risk |-> IF analytics = "ok" /\ d.len > 0 THEN "ok" ELSE "degraded"]
  IN  [r \in Services \cup DOMAIN derived |->
         IF r \in Services THEN ProbeStatus(r, got[r]) ELSE derived[r]]

\* The rows of a simulation.
DemoRows == [r \in Services \cup {"websocket", "clickhouse", "risk"} |->
               IF r = "clickhouse" THEN "degraded" ELSE "ok"]

\* runProbes with the live values d: at once in demo mode, else a run starts.
\* When Runs are in flight there is none left to start.
RunProbes(d) ==
  \/ /\ d.demo
     /\ probes' = {DemoRows}
     /\ UNCHANGED run
  \/ /\ ~d.demo
     /\ \E k \in Runs :
          /\ run[k] = NoRun
          /\ run' = [run EXCEPT ![k].deps = {d}]
     /\ UNCHANGED probes
  \/ /\ ~d.demo /\ \A k \in Runs : run[k] # NoRun
     /\ UNCHANGED <<run, probes>>

\* Seeded fault: the effect has no dependencies.
RunsOnce == deps = {}

\* The dependencies of the effect differ from the ones it ran with.
EffectDue == deps # {LiveDeps}

\* The effect: it runs the probes and restarts the interval.
ProbeEffect ==
  /\ page = "system" /\ EffectDue
  /\ deps' = {LiveDeps}
  /\ RunProbes(LiveDeps)

\* 30 s passed, or the Re-probe button was pressed.
Interval ==
  /\ page = "system"
  /\ \E d \in deps : RunProbes(d)
  /\ UNCHANGED deps

\* A service answers one run, or its connection fails.
ProbeAnswered(k, s) ==
  /\ run[k] # NoRun /\ run[k].got[s] = NotYet
  /\ run' = [run EXCEPT ![k].got[s] = up[s]]
  /\ UNCHANGED <<deps, probes>>

\* All are answered: the rows are replaced, also those of a run that is newer.
RunEnds(k) ==
  /\ \A s \in Services : run[k].got[s] # NotYet
  /\ \E d \in run[k].deps : probes' = {Rows(d, run[k].got)}
  /\ run' = [run EXCEPT ![k] = NoRun]
  /\ UNCHANGED deps

\* The status in the card of a service.
CardStatus(r) == IF probes = {} THEN {"checking"} ELSE {rows[r] : rows \in probes}

\* The pill beside the title: the worst status there is.
Overall ==
  IF liveDemo THEN "simulated"
  ELSE IF probes = {} THEN "checking"
  ELSE LET statuses == UNION {Range(rows) : rows \in probes}
       IN  IF "down" \in statuses THEN "down"
           ELSE IF "degraded" \in statuses THEN "degraded" ELSE "ok"

-----------------------------------------------------------------------------
(* Properties.                                                             *)

SystemTypeOK ==
  /\ deps \subseteq {[connected |-> c, len |-> n, demo |-> d] :
                       c \in BOOLEAN, n \in 0..Window, d \in BOOLEAN}
  /\ \A k \in Runs : run[k].got \in [Services -> Answers \cup {NotYet}]
  /\ \A rows \in probes : \A r \in DOMAIN rows : rows[r] \in Statuses

\* What the cards should say.
TrueRows == IF liveDemo THEN DemoRows ELSE Rows(LiveDeps, up)

\* The page shows the truth in the end: once services, stream and list are left
\* alone, rows written by overlapping runs, by runs with values that are out of
\* date or by one from before demo mode are all replaced by current ones, on
\* the cards and in the pill.
HealthConverges ==
  <>[](page = "system" =>
         /\ \A r \in DOMAIN TrueRows : CardStatus(r) = {TrueRows[r]}
         /\ liveDemo <=> Overall = "simulated"
         /\ ~liveDemo => Overall # "checking" /\ (Overall = "down" <=>
               up["analytics"] = "none" \/ ~connected \/ \E s \in Services : up[s] = "none"))

=============================================================================
