------------------------------- MODULE Figures ------------------------------
(***************************************************************************)
(* dashboard: the figures that pages and hooks derive from the live list,  *)
(* each with a loop of its own.                                            *)
(***************************************************************************)
EXTENDS LiveValues, FiniteSetsExt

CONSTANTS
  Action,     \* Action[e]: the decision on an event, "none" if it has none
  Score,      \* Score[e]: its risk score, 0 if it has none
  EventType   \* EventType[e]: its type

Actions == {"ALLOW", "REVIEW", "CHALLENGE", "BLOCK"}

ASSUME FiguresAssumption ==
  /\ Action \in [Ids -> Actions \cup {"none"}]
  /\ Score \in [Ids -> 0..100]
  /\ EventType \in [Ids -> STRING]

\* Entries of the list with an event in S.
Count(S) == Cardinality({i \in DOMAIN events : events[i] \in S})

\* The decisions that count as fraud.
Flagged == {e \in Ids : Action[e] \in {"BLOCK", "CHALLENGE"}}

\* metrics.activeAlerts.
ActiveAlerts == Count(Flagged)

\* The points of the volume chart, oldest first.
History ==
  [i \in DOMAIN events |->
     [transactions |-> 1,
      fraud |-> IF events[Len(events) + 1 - i] \in Flagged THEN 1 ELSE 0]]

\* The slices of the typology chart: the types with a flagged event.
FraudTypes ==
  [t \in {EventType[e] : e \in Flagged \cap Range(events)} |->
     Count({e \in Flagged : EventType[e] = t})]

\* Seeded fault: a score of 100 has no bucket.
BucketUnbounded(s) == s \div 20

\* The index of the bucket of a score.
Bucket(s) == IF s \div 20 < 4 THEN s \div 20 ELSE 4

\* The bars of the score distribution.
ScoreBuckets == [b \in 0..4 |-> Count({e \in Ids : Bucket(Score[e]) = b})]

With(a) == {e \in Ids : Action[e] = a}

\* The bars of the decision chart: the actions that occur.
ActionBreakdown ==
  [a \in {b \in Actions : Count(With(b)) > 0} |-> Count(With(a))]

\* Block rate and challenge rate of the Threats page, in percent.
Posture ==
  LET Rate(a) == IF events = <<>> THEN 0 ELSE (Count(With(a)) * 100) \div Len(events)
  IN  [blocked |-> Rate("BLOCK"), challenged |-> Rate("CHALLENGE")]

-----------------------------------------------------------------------------
(* Properties.                                                             *)

Total(f) == LET value(x) == f[x] IN MapThenSumSet(value, DOMAIN f)

\* The figures agree whatever is listed: the alerts counted on the Command
\* Center, the fraud in the volume chart, the slices of the typology and the
\* bars of the decision chart are the same events, the score distribution
\* leaves no event out, and the gauges are within their scale.
FiguresAgree ==
  /\ Total([i \in DOMAIN History |-> History[i].fraud]) = ActiveAlerts
  /\ Total(FraudTypes) = ActiveAlerts
  /\ Total([a \in DOMAIN ActionBreakdown \cap {"BLOCK", "CHALLENGE"} |-> ActionBreakdown[a]])
       = ActiveAlerts
  /\ Total(ScoreBuckets) = Len(events)
  /\ Posture.blocked + Posture.challenged \in 0..100

=============================================================================
