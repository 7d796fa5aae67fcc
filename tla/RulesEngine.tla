----------------------------- MODULE RulesEngine ----------------------------
(***************************************************************************)
(* risk-engine: the fraud rules in Postgres, the API that changes them and *)
(* the compiled copy that requests are scored with.  A change is written,  *)
(* then the enabled rules are selected and the copy is emptied and filled  *)
(* rule by rule.  Handlers are coroutines of one event loop: another runs  *)
(* at every await, so between a handler's write, its select and the use of *)
(* what it selected; while the copy is filled the loop runs nothing else.  *)
(*                                                                         *)
(* The n-th write gives the row it touches version n; the copy holds, for  *)
(* every rule, the version it was compiled from.  An expression that does  *)
(* not compile is refused before it is written (validate_expression), so   *)
(* the one load_rules would skip is left out.                              *)
(***************************************************************************)
EXTENDS Naturals

CONSTANTS
  Rules,      \* rule ids
  Handlers,   \* requests to the rules API in progress
  MaxOps      \* bound: requests to the rules API

ASSUME OpsAssumption == MaxOps \in Nat /\ Rules # {}

VARIABLES
  db,        \* db[r]: the row of a rule
  writes,    \* rows written so far
  cache,     \* _rules_cache: version of every loaded rule (0: not loaded)
  filling,   \* the handler that fills the cache, if one does
  hs,        \* hs[h]: a request
  ops,       \* requests so far
  cacheAt,   \* history: the writes that the selection in the cache includes
  missed     \* history: a write was lost to the cache, and no load made good for it

engineVars == <<db, writes, cache, filling, hs, ops, cacheAt, missed>>

Absent    == [v |-> 0, enabled |-> FALSE]
Row(v, e) == [v |-> v, enabled |-> e]

Kinds == {"create", "update", "delete", "reload"}

\* A request: what it asks for, whether the dashboard waits for it, its control
\* state, and the selection it has to load, with the writes that includes.
Idle == [kind |-> "none", rule |-> CHOOSE r \in Rules : TRUE, page |-> FALSE,
         pc |-> "idle", snap |-> [r \in Rules |-> 0], at |-> 0]

\* SELECT ... WHERE is_enabled = true.
EnabledRules == [r \in Rules |-> IF db[r].enabled THEN db[r].v ELSE 0]

NoRules == [r \in Rules |-> 0]

\* The seeded rules are write 1.  main loads them at start; a failure is logged
\* and start-up goes on.
EngineInit ==
  /\ db \in [Rules -> {Absent, Row(1, TRUE)}]
  /\ writes = 1
  /\ \/ cache = EnabledRules /\ cacheAt = 1 /\ missed = FALSE
     \/ cache = NoRules /\ cacheAt = 0 /\ missed = TRUE
  /\ filling = {}
  /\ hs = [h \in Handlers |-> Idle]
  /\ ops = 0

\* No handler occupies the event loop.
LoopFree == filling = {}

\* A request arrives: page tells whether the dashboard sent it.
Arrive(h, kind, r, page) ==
  /\ hs[h].pc = "idle"
  /\ ops < MaxOps
  /\ ops' = ops + 1
  /\ hs' = [hs EXCEPT ![h] = [Idle EXCEPT !.kind = kind, !.rule = r, !.page = page,
                       !.pc = IF kind = "reload" THEN "select" ELSE "start"]]
  /\ UNCHANGED <<db, writes, cache, filling, cacheAt, missed>>

\* The request of somebody else: another admin, a service, POST /reload.
OtherRequest(h) ==
  \E kind \in Kinds, r \in Rules : Arrive(h, kind, r, FALSE)

\* The request ends with status s; nobody in this model waits for the answer to
\* somebody else's.
Ended(h, s) == IF hs[h].page THEN [hs[h] EXCEPT !.pc = s, !.snap = NoRules, !.at = 0] ELSE Idle

\* require_admin, validate_expression and a statement that fails: 403, 422 or
\* 500.
Reject(h) ==
  /\ LoopFree /\ hs[h].pc = "start"
  /\ hs' = [hs EXCEPT ![h] = Ended(h, "error")]
  /\ UNCHANGED <<db, writes, cache, filling, ops, cacheAt, missed>>

\* 409 for a rule that is there, 404 for one that is not.
Conflicts(kind, r) == (kind = "create") = (db[r] # Absent)

Conflict(h) ==
  /\ LoopFree /\ hs[h].pc = "start"
  /\ Conflicts(hs[h].kind, hs[h].rule)
  /\ hs' = [hs EXCEPT ![h] = Ended(h, "error")]
  /\ UNCHANGED <<db, writes, cache, filling, ops, cacheAt, missed>>

\* INSERT, UPDATE or DELETE takes effect.
Changed(h) ==
  /\ LoopFree /\ hs[h].pc = "start"
  /\ ~Conflicts(hs[h].kind, hs[h].rule)
  /\ writes' = writes + 1
  /\ \E e \in BOOLEAN :
       db' = [db EXCEPT ![hs[h].rule] =
                IF hs[h].kind = "delete" THEN Absent ELSE Row(writes + 1, e)]

\* Seeded fault: an update is answered without a reload.
UpdateUnloaded(kind) == IF kind = "update" THEN "ok" ELSE "select"

\* Every change is followed by reload_rules.
AfterWrite(kind) == "select"

Write(h) ==
  /\ Changed(h)
  /\ hs' = [hs EXCEPT ![h].pc = AfterWrite(hs[h].kind)]
  /\ UNCHANGED <<cache, filling, ops, cacheAt, missed>>

\* The statement is committed and its answer is lost: the handler takes it for
\* one that failed and answers 500 without a reload.
WriteLost(h) ==
  /\ Changed(h)
  /\ hs' = [hs EXCEPT ![h] = Ended(h, "error")]
  /\ missed' = TRUE
  /\ UNCHANGED <<cache, filling, ops, cacheAt>>

\* load_rules: the query is answered.
Select(h) ==
  /\ LoopFree /\ hs[h].pc = "select"
  /\ hs' = [hs EXCEPT ![h].snap = EnabledRules, ![h].at = writes, ![h].pc = "load"]
  /\ UNCHANGED <<db, writes, cache, filling, ops, cacheAt, missed>>

\* The query fails: 500, and what was written stays.  A reload may be refused as
\* well (403).
SelectFails(h) ==
  /\ LoopFree /\ hs[h].pc = "select"
  /\ hs' = [hs EXCEPT ![h] = Ended(h, "error")]
  /\ missed' = (missed \/ hs[h].kind # "reload")
  /\ UNCHANGED <<db, writes, cache, filling, ops, cacheAt>>

\* self._rules_cache = [].
EmptyCache == NoRules

\* The copy is emptied; the loop is taken until it is full again.  Nothing keeps
\* an older selection from replacing a newer one.
Load(h) ==
  /\ LoopFree /\ hs[h].pc = "load"
  /\ cache' = EmptyCache
  /\ cacheAt' = hs[h].at
  /\ missed' = (hs[h].at < writes /\ (missed \/ hs[h].at < cacheAt))
  /\ filling' = {h}
  /\ hs' = [hs EXCEPT ![h].pc = "fill"]
  /\ UNCHANGED <<db, writes, ops>>

\* One rule is compiled and appended; a worker thread may look at the copy in
\* between.
AppendRule(h, r) ==
  /\ hs[h].pc = "fill"
  /\ cache[r] # hs[h].snap[r]
  /\ hs[h].snap[r] # 0
  /\ cache' = [cache EXCEPT ![r] = hs[h].snap[r]]
  /\ UNCHANGED <<db, writes, filling, hs, ops, cacheAt, missed>>

\* The rule that create and update return has a UUID where RuleResponse has
\* id: str; FastAPI refuses to convert it and answers 500.  A deletion returns
\* nothing, a reload a count.
Answer(kind) == IF kind \in {"create", "update"} THEN "error" ELSE "ok"

\* All rules are loaded.
Loaded(h) ==
  /\ hs[h].pc = "fill"
  /\ \A r \in Rules : hs[h].snap[r] # 0 => cache[r] = hs[h].snap[r]
  /\ filling' = {}
  /\ hs' = [hs EXCEPT ![h] = Ended(h, Answer(hs[h].kind))]
  /\ UNCHANGED <<db, writes, cache, ops, cacheAt, missed>>

\* What the engine does with a request after its arrival.
Handle(h) ==
  \/ Reject(h) \/ Conflict(h) \/ Write(h) \/ WriteLost(h) \/ Select(h)
  \/ SelectFails(h) \/ Load(h) \/ Loaded(h)
  \/ \E r \in Rules : AppendRule(h, r)

-----------------------------------------------------------------------------
(* Properties.                                                             *)

EngineTypeOK ==
  /\ db \in [Rules -> [v : 0..writes, enabled : BOOLEAN]]
  /\ writes \in Nat /\ cacheAt \in 0..writes /\ ops \in 0..MaxOps
  /\ cache \in [Rules -> 0..writes]
  /\ filling \subseteq Handlers
  /\ hs \in [Handlers ->
       [kind : Kinds \cup {"none"}, rule : Rules, page : BOOLEAN,
        pc : {"idle", "start", "select", "load", "fill", "ok", "error"},
        snap : [Rules -> 0..writes], at : 0..writes]]
  /\ missed \in BOOLEAN

\* README, "hot-reloadable": when no request is in progress the engine scores
\* with exactly the enabled rules, whatever mix of changes, reloads, failures and
\* lost answers came before, as soon as a load included every write.  It may
\* have missed one only by a failed load or a lost answer, or by an older
\* selection that replaced a newer one, and only until the next load.
EngineFresh ==
  /\ ~missed
  /\ \A h \in Handlers : hs[h].pc \in {"idle", "ok", "error"}
  => cache = EnabledRules

=============================================================================
