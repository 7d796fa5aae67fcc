----------------------------- MODULE RuleScoring ----------------------------
(***************************************************************************)
(* risk-engine: POST /score next to the rules API.  The rules are          *)
(* evaluated in a worker thread (asyncio.to_thread), so while the event    *)
(* loop replaces the compiled rules; the hit counters of the rules that    *)
(* matched are then updated by a task that evaluate() creates itself, in   *)
(* that thread.  What the other signals contribute is left out.            *)
(***************************************************************************)
EXTENDS RulesEngine

CONSTANTS
  Workers,    \* scoring requests in progress
  MaxScores   \* bound: scoring requests

VARIABLES
  score,     \* score[w]: a scoring request
  scores     \* scoring requests so far

vars == <<engineVars, score, scores>>

NoScore == [pc |-> "idle", matched |-> {}]

Init ==
  /\ EngineInit
  /\ score = [w \in Workers |-> NoScore]
  /\ scores = 0

\* Features and IP score are gathered; evaluate() is handed to a thread.
Score(w) ==
  /\ LoopFree
  /\ score[w].pc # "evaluate"
  /\ scores < MaxScores
  /\ scores' = scores + 1
  /\ score' = [score EXCEPT ![w] = [pc |-> "evaluate", matched |-> {}]]
  /\ UNCHANGED engineVars

\* asyncio.create_task looks for the running event loop of its own thread; a
\* worker thread has none, so the call raises (and increment_hit_counts never
\* runs).
CreateTask(matched) == IF matched = {} THEN "ok" ELSE "raised"

\* evaluate(): the loaded rules that match the features; the loop thread may be
\* filling the list.  score_request does not catch what it raises.
Evaluate(w) ==
  /\ score[w].pc = "evaluate"
  /\ \E features \in SUBSET Rules :
       LET matched == {r \in features : cache[r] # 0} IN
       score' = [score EXCEPT ![w] =
         [pc |-> IF CreateTask(matched) = "raised" THEN "500" ELSE "200",
          matched |-> matched]]
  /\ UNCHANGED <<engineVars, scores>>

Next ==
  \/ \E h \in Handlers : (OtherRequest(h) \/ Handle(h)) /\ UNCHANGED <<score, scores>>
  \/ \E w \in Workers : Score(w) \/ Evaluate(w)

Spec == Init /\ [][Next]_vars

-----------------------------------------------------------------------------
(* Properties.                                                             *)

\* README, Score a request: "Response includes the verdict, per-signal
\* breakdown, triggered rules", so a request that triggers a rule is answered.
TriggeredRulesAnswered ==
  \A w \in Workers : score[w].matched # {} => score[w].pc = "200"

=============================================================================
