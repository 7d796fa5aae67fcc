----------------------------- MODULE PagesProofs ----------------------------
(***************************************************************************)
(* Proofs about the pages of the dashboard, for any events, lists, visits, *)
(* filters, toasts, rules and requests.                                    *)
(*                                                                         *)
(* RulesConsole and the RulesEngine it manages come first.  Pages is next: *)
(* its inductive invariant PagesInv says of the map data, the alerts and   *)
(* the toasts what their handlers leave to each other.  What the pages     *)
(* compute from the list is proved by induction over the loop that does    *)
(* it, and about sums, over the set that is summed.                        *)
(***************************************************************************)
EXTENDS RulesConsole, Pages, ListProofs, FiniteSetTheorems

-----------------------------------------------------------------------------
(* The Rules page and the rules engine.                                    *)

Pcs == {"idle", "start", "select", "load", "fill", "ok", "error"}

Request == [kind : Kinds \cup {"none"}, rule : Rules, page : BOOLEAN, pc : Pcs,
            snap : [Rules -> Nat], at : Nat]

\* The types, without the bounds on versions.
EngineType ==
  /\ db \in [Rules -> [v : Nat, enabled : BOOLEAN]]
  /\ {writes, cacheAt} \subseteq Nat
  /\ cache \in [Rules -> Nat]
  /\ hs \in [Handlers -> Request]
  /\ missed \in BOOLEAN

\* A selection includes writes that were made, and a reload writes nothing.
RequestInv ==
  /\ cacheAt <= writes
  /\ \A h \in Handlers :
       /\ hs[h].at <= writes
       /\ hs[h].pc = "start" => hs[h].kind # "reload"

Holds(h) == hs[h].pc \in {"load", "fill"}

\* One request at a time fills the cache, with what it selected.
FillInv ==
  /\ filling = {h \in Handlers : hs[h].pc = "fill"}
  /\ \A g, h \in Handlers : hs[g].pc = "fill" /\ hs[h].pc = "fill" => g = h
  /\ \A h \in Handlers : hs[h].pc = "fill" =>
       /\ hs[h].at = cacheAt
       /\ \A r \in Rules : cache[r] \in {0, hs[h].snap[r]}

\* A selection, or a full cache, that includes all writes has the enabled rules.
CurrentInv ==
  /\ \A h \in Handlers : Holds(h) /\ hs[h].at = writes => hs[h].snap = EnabledRules
  /\ filling = {} /\ cacheAt = writes => cache = EnabledRules

\* A request that has a selection with all writes, and one that wrote and has yet
\* to select.
Current(h)   == Holds(h) /\ hs[h].at = writes
WillLoad(h)  == hs[h].pc = "select" /\ hs[h].kind # "reload"

\* Unless a write was missed, all writes are in the cache or on their way there.
FreshInv ==
  \/ missed \/ cacheAt = writes
  \/ \E h \in Handlers : Current(h) \/ WillLoad(h)

EngineInv == EngineType /\ RequestInv /\ FillInv /\ CurrentInv /\ FreshInv

\* A modal edits a rule of the list or a new one.
PageType ==
  /\ list \in [Loads -> {"idle", "asked", "empty"}]
  /\ editor \subseteq [rule : Rules, kind : {"create", "update"}]
  /\ saving \subseteq Handlers
  /\ confirm \subseteq Rules

\* The two halves of PageReleased.
ListReleased == loading => \E q \in Loads : list[q] # "idle"
Awaited(h) ==
  /\ hs[h].page /\ hs[h].pc # "idle"
  /\ \E e \in editor : hs[h].rule = e.rule /\ hs[h].kind = e.kind

ModalReleased == \A h \in saving : Awaited(h)

IInv == EngineInv /\ PageType /\ ListReleased /\ ModalReleased

-----------------------------------------------------------------------------
(* The engine.                                                             *)

\* A request that is not running has the type of a request.
LEMMA IdleType == Idle \in Request
<1>1. (CHOOSE r \in Rules : TRUE) \in Rules
  BY OpsAssumption
<1> QED BY <1>1 DEF Idle, Request, Pcs

\* So has one that ended.
LEMMA EndedType ==
  ASSUME EngineType, NEW h \in Handlers, NEW s \in {"ok", "error"}
  PROVE  /\ Ended(h, s) \in Request
         /\ Ended(h, s).pc \in {"idle", s}
         /\ Ended(h, s).at = 0
         /\ hs[h].page => /\ Ended(h, s).page /\ Ended(h, s).pc = s
                          /\ Ended(h, s).rule = hs[h].rule
                          /\ Ended(h, s).kind = hs[h].kind
BY IdleType DEF Ended, EngineType, Request, Pcs, NoRules, Idle

\* The enabled rules are a version for every rule.
LEMMA EnabledType == ASSUME EngineType PROVE EnabledRules \in [Rules -> Nat]
BY DEF EngineType, EnabledRules

\* The engine at start: loaded, or empty after a failure that is remembered.
LEMMA EngineInitOK == EngineInit => EngineInv
<1> SUFFICES ASSUME EngineInit PROVE EngineInv
  OBVIOUS
<1>1. \A h \in Handlers : hs[h] = Idle /\ Idle.pc = "idle" /\ Idle.at = 0
  BY DEF EngineInit, Idle
<1>2. db \in [Rules -> [v : Nat, enabled : BOOLEAN]]
  <2>1. Absent \in [v : Nat, enabled : BOOLEAN] /\ Row(1, TRUE) \in [v : Nat, enabled : BOOLEAN]
    BY DEF Absent, Row
  <2> QED BY <2>1 DEF EngineInit
<1>3. cache \in [Rules -> Nat]
  BY <1>2 DEF EngineInit, EnabledRules, NoRules
<1>4. missed \in BOOLEAN /\ cacheAt \in {0, 1} /\ writes = 1
  BY DEF EngineInit
<1>5. EngineType
  BY <1>2, <1>3, <1>4, IdleType DEF EngineInit, EngineType
<1>6. RequestInv
  BY <1>1, <1>4 DEF RequestInv
<1>7. FillInv
  BY <1>1 DEF FillInv, EngineInit
<1>8. CurrentInv
  BY <1>1 DEF CurrentInv, EngineInit, Holds
<1>9. FreshInv
  BY DEF FreshInv, EngineInit
<1> QED BY <1>5, <1>6, <1>7, <1>8, <1>9 DEF EngineInv

\* Steps that leave the engine's data alone and neither take nor drop a selection.
LEMMA QuietOK ==
  ASSUME EngineInv, hs' \in [Handlers -> Request],
         UNCHANGED <<db, writes, cache, filling, cacheAt, missed>>,
         \A g \in Handlers :
           \/ /\ hs'[g].pc = hs[g].pc /\ hs'[g].kind = hs[g].kind
              /\ hs'[g].snap = hs[g].snap /\ hs'[g].at = hs[g].at
           \/ /\ hs[g].pc \in {"idle", "start", "ok", "error"}
              /\ hs'[g].pc \in {"idle", "start", "select", "error"}
              /\ hs'[g].pc = "start" => hs'[g].kind # "reload"
              /\ hs'[g].at = 0
  PROVE  EngineInv'
<1> USE DEF EngineInv
<1>1. EngineType'
  BY DEF EngineType
<1>2. RequestInv'
  BY DEF RequestInv, EngineType
<1>3. FillInv'
  BY DEF FillInv
<1>4. EnabledRules' = EnabledRules
  BY DEF EnabledRules
<1>5. \A g \in Handlers :
        (Holds(g)' <=> Holds(g)) /\ (Holds(g) => hs'[g].snap = hs[g].snap /\ hs'[g].at = hs[g].at)
  BY DEF Holds
<1>6. CurrentInv'
  BY <1>4, <1>5 DEF CurrentInv
<1>7. \A g \in Handlers : (Current(g) => Current(g)') /\ (WillLoad(g) => WillLoad(g)')
  BY <1>5 DEF Current, WillLoad
<1>8. FreshInv'
  BY <1>7 DEF FreshInv
<1> QED BY <1>1, <1>2, <1>3, <1>6, <1>8

\* One request's entry changes.
LEMMA OneQuietOK ==
  ASSUME EngineInv, NEW h \in Handlers, NEW x \in Request,
         hs' = [hs EXCEPT ![h] = x],
         UNCHANGED <<db, writes, cache, filling, cacheAt, missed>>,
         \/ /\ x.pc = hs[h].pc /\ x.kind = hs[h].kind
            /\ x.snap = hs[h].snap /\ x.at = hs[h].at
         \/ /\ hs[h].pc \in {"idle", "start", "ok", "error"}
            /\ x.pc \in {"idle", "start", "select", "error"}
            /\ x.pc = "start" => x.kind # "reload"
            /\ x.at = 0
  PROVE  EngineInv'
<1>1. hs' \in [Handlers -> Request] /\ hs'[h] = x
      /\ \A g \in Handlers \ {h} : hs'[g] = hs[g]
  BY DEF EngineInv, EngineType
<1> QED BY <1>1, QuietOK

\* A request arrives.
LEMMA ArriveOK ==
  ASSUME EngineInv, NEW h \in Handlers, NEW kind \in Kinds, NEW r \in Rules,
         NEW pg \in BOOLEAN, Arrive(h, kind, r, pg)
  PROVE  EngineInv'
<1> DEFINE x == [Idle EXCEPT !.kind = kind, !.rule = r, !.page = pg,
                   !.pc = IF kind = "reload" THEN "select" ELSE "start"]
<1>1. /\ x \in Request /\ x.pc \in {"start", "select"} /\ x.at = 0
      /\ x.pc = "start" => x.kind # "reload"
  <2>1. x.pc = (IF kind = "reload" THEN "select" ELSE "start") /\ x.kind = kind /\ x.at = 0
    BY DEF Idle
  <2>2. x \in Request
    BY IdleType DEF Request, Idle, Pcs
  <2> QED BY <2>1, <2>2
<1> QED BY <1>1, OneQuietOK DEF Arrive

\* A request that ended, well or not, is forgotten.
LEMMA ForgetOK ==
  ASSUME EngineInv, NEW h \in Handlers, hs[h].pc \in {"ok", "error"},
         hs' = [hs EXCEPT ![h] = Idle],
         UNCHANGED <<db, writes, cache, filling, cacheAt, missed>>
  PROVE  EngineInv'
<1>1. Idle.pc = "idle" /\ Idle.at = 0
  BY DEF Idle
<1> QED BY <1>1, IdleType, OneQuietOK

\* A request is refused.
LEMMA RefuseOK ==
  ASSUME EngineInv, NEW h \in Handlers, Reject(h) \/ Conflict(h)
  PROVE  EngineInv'
<1> DEFINE x == Ended(h, "error")
<1>1. x \in Request /\ x.pc \in {"idle", "error"} /\ x.at = 0
  BY EndedType DEF EngineInv
<1>2. /\ hs[h].pc = "start" /\ hs' = [hs EXCEPT ![h] = x]
      /\ UNCHANGED <<db, writes, cache, filling, cacheAt, missed>>
  BY DEF Reject, Conflict
<1> QED BY <1>1, <1>2, OneQuietOK

\* A row is changed, and the request that did it ends or goes on to select: no
\* selection and no cache has the change.
LEMMA ChangedOK ==
  ASSUME EngineInv, NEW h \in Handlers, Changed(h), NEW x \in Request,
         hs' = [hs EXCEPT ![h] = x], x.at <= writes,
         UNCHANGED <<cache, filling, cacheAt>>, missed' \in BOOLEAN,
         \/ x.pc = "select" /\ x.kind # "reload"
         \/ x.pc \in {"idle", "error"} /\ missed'
  PROVE  EngineInv'
<1> USE DEF EngineInv
<1>1. hs[h].pc = "start" /\ writes' = writes + 1
  BY DEF Changed
<1>2. db' \in [Rules -> [v : Nat, enabled : BOOLEAN]]
  <2>1. PICK e \in BOOLEAN :
          db' = [db EXCEPT ![hs[h].rule] =
                   IF hs[h].kind = "delete" THEN Absent ELSE Row(writes + 1, e)]
    BY DEF Changed
  <2>2. /\ Absent \in [v : Nat, enabled : BOOLEAN]
        /\ Row(writes + 1, e) \in [v : Nat, enabled : BOOLEAN]
    BY DEF Absent, Row, EngineType
  <2> QED BY <2>1, <2>2 DEF EngineType
<1>3. hs'[h] = x /\ \A g \in Handlers \ {h} : hs'[g] = hs[g]
  BY DEF EngineType
<1>4. EngineType'
  BY <1>1, <1>2, <1>3 DEF EngineType
<1>5. /\ writes \in Nat /\ cacheAt \in Nat /\ cacheAt <= writes
      /\ \A g \in Handlers : hs'[g].at \in Nat /\ hs'[g].at <= writes
  BY <1>3 DEF EngineType, RequestInv, Request
<1>6. RequestInv'
  BY <1>1, <1>3, <1>5 DEF RequestInv
<1>7. FillInv'
  <2>1. \A g \in Handlers : hs'[g].pc = "fill" <=> hs[g].pc = "fill"
    BY <1>1, <1>3
  <2>2. \A g \in Handlers : hs[g].pc = "fill" => hs'[g] = hs[g]
    BY <1>1, <1>3
  <2>3. filling' = {g \in Handlers : hs'[g].pc = "fill"}
    BY <2>1 DEF FillInv
  <2> QED BY <2>1, <2>2, <2>3 DEF FillInv
<1>8. CurrentInv'
  BY <1>1, <1>5 DEF CurrentInv
<1>9. FreshInv'
  BY <1>3 DEF FreshInv, WillLoad
<1> QED BY <1>4, <1>6, <1>7, <1>8, <1>9

\* A change is written and will be selected, or is missed.
LEMMA WriteOK ==
  ASSUME EngineInv, NEW h \in Handlers, Write(h) \/ WriteLost(h)
  PROVE  EngineInv'
<1>1. hs[h] \in Request /\ hs[h].at <= writes /\ writes \in Nat
  BY DEF EngineInv, EngineType, RequestInv
<1>2. CASE Write(h)
  <2> DEFINE x == [hs[h] EXCEPT !.pc = "select"]
  <2>1. x \in Request /\ x.at = hs[h].at /\ x.pc = "select" /\ x.kind = hs[h].kind
    BY <1>1 DEF Request, Pcs
  <2>2. hs[h].kind # "reload"
    BY <1>2 DEF Write, Changed, EngineInv, RequestInv
  <2>3. hs' = [hs EXCEPT ![h] = x]
    BY <1>2 DEF Write, AfterWrite
  <2>4. missed' \in BOOLEAN /\ UNCHANGED <<cache, filling, cacheAt>> /\ Changed(h)
    BY <1>2 DEF Write, EngineInv, EngineType
  <2> HIDE DEF x
  <2> QED BY <1>1, <2>1, <2>2, <2>3, <2>4, ChangedOK
<1>3. CASE WriteLost(h)
  <2> DEFINE x == Ended(h, "error")
  <2>1. x \in Request /\ x.pc \in {"idle", "error"} /\ x.at = 0
    BY EndedType DEF EngineInv
  <2>2. /\ hs' = [hs EXCEPT ![h] = x] /\ missed' = TRUE /\ Changed(h)
        /\ UNCHANGED <<cache, filling, cacheAt>>
    BY <1>3 DEF WriteLost
  <2> HIDE DEF x
  <2>3. x.at <= writes
    BY <1>1, <2>1
  <2> QED BY <2>1, <2>2, <2>3, ChangedOK
<1> QED BY <1>2, <1>3

\* The rules are selected, all writes included.
LEMMA SelectOK ==
  ASSUME EngineInv, NEW h \in Handlers, Select(h)
  PROVE  EngineInv'
<1> USE DEF EngineInv
<1>1. /\ LoopFree /\ hs[h].pc = "select"
      /\ hs' = [hs EXCEPT ![h].snap = EnabledRules, ![h].at = writes, ![h].pc = "load"]
      /\ UNCHANGED <<db, writes, cache, filling, cacheAt, missed>>
  BY DEF Select
<1>2. /\ hs'[h].pc = "load" /\ hs'[h].at = writes /\ hs'[h].snap = EnabledRules
      /\ hs'[h] \in Request /\ \A g \in Handlers \ {h} : hs'[g] = hs[g]
  BY <1>1, EnabledType DEF EngineType, Request, Pcs
<1>3. EngineType'
  BY <1>1, <1>2 DEF EngineType
<1>4. RequestInv'
  BY <1>1, <1>2 DEF RequestInv, EngineType
<1>5. FillInv'
  <2>1. \A g \in Handlers : hs[g].pc # "fill"
    BY <1>1 DEF LoopFree, FillInv
  <2>2. \A g \in Handlers : hs'[g].pc # "fill"
    BY <1>2, <2>1
  <2>3. filling' = {}
    BY <1>1 DEF LoopFree
  <2> QED BY <2>2, <2>3 DEF FillInv
<1>6. EnabledRules' = EnabledRules
  <2>1. db' = db
    BY <1>1
  <2> QED BY <2>1 DEF EnabledRules
<1>7. CurrentInv'
  BY <1>1, <1>2, <1>6 DEF CurrentInv, Holds
<1>8. Current(h)'
  BY <1>1, <1>2 DEF Current, Holds
<1>9. FreshInv'
  BY <1>8 DEF FreshInv
<1> QED BY <1>3, <1>4, <1>5, <1>7, <1>9

\* A request ends without a change of the data: one that had no selection and no
\* write to load, or whose write is missed.
LEMMA SelectFailsOK ==
  ASSUME EngineInv, NEW h \in Handlers, SelectFails(h)
  PROVE  EngineInv'
<1> USE DEF EngineInv
<1> DEFINE x == Ended(h, "error")
<1>1. /\ hs[h].pc = "select" /\ missed' = (missed \/ hs[h].kind # "reload")
      /\ hs' = [hs EXCEPT ![h] = x]
      /\ UNCHANGED <<db, writes, cache, filling, cacheAt>>
  BY DEF SelectFails
<1>2. x \in Request /\ x.pc \in {"idle", "error"} /\ x.at = 0
  BY EndedType
<1>3. hs'[h] = x /\ \A g \in Handlers \ {h} : hs'[g] = hs[g]
  BY <1>1 DEF EngineType
<1> HIDE DEF x
<1>4. EngineType'
  BY <1>1, <1>2, <1>3 DEF EngineType
<1>5. RequestInv'
  BY <1>1, <1>2, <1>3 DEF RequestInv, EngineType
<1>6. FillInv'
  BY <1>1, <1>2, <1>3 DEF FillInv
<1>7. EnabledRules' = EnabledRules
  BY <1>1 DEF EnabledRules
<1>8. ~Holds(h) /\ ~Holds(h)' /\ \A g \in Handlers \ {h} : Holds(g)' <=> Holds(g)
  BY <1>1, <1>2, <1>3 DEF Holds
<1>9. CurrentInv'
  BY <1>1, <1>3, <1>7, <1>8 DEF CurrentInv
<1>10. \A g \in Handlers \ {h} : (Current(g) => Current(g)') /\ (WillLoad(g) => WillLoad(g)')
  BY <1>1, <1>3, <1>8 DEF Current, WillLoad
<1>11. FreshInv'
  BY <1>1, <1>8, <1>10 DEF FreshInv, Current, WillLoad
<1> QED BY <1>4, <1>5, <1>6, <1>9, <1>11

\* The cache is emptied: no other request is filling it.  A selection without
\* the last write leaves that to another request, or the write is missed.
LEMMA LoadOK ==
  ASSUME EngineInv, NEW h \in Handlers, Load(h)
  PROVE  EngineInv'
<1> USE DEF EngineInv
<1>1. /\ LoopFree /\ hs[h].pc = "load" /\ cache' = [r \in Rules |-> 0] /\ filling' = {h}
      /\ cacheAt' = hs[h].at
      /\ missed' = (hs[h].at < writes /\ (missed \/ hs[h].at < cacheAt))
      /\ hs' = [hs EXCEPT ![h].pc = "fill"]
      /\ UNCHANGED <<db, writes>>
  BY DEF Load, EmptyCache, NoRules
<1>2. /\ hs'[h].pc = "fill" /\ hs'[h].at = hs[h].at
      /\ hs'[h].snap = hs[h].snap /\ hs'[h] \in Request
      /\ \A g \in Handlers \ {h} : hs'[g] = hs[g]
  BY <1>1 DEF EngineType, Request, Pcs
<1>3. /\ writes \in Nat /\ cacheAt \in Nat /\ hs[h].at \in Nat
      /\ hs[h].at <= writes /\ cacheAt <= writes
  BY DEF EngineType, Request, RequestInv
<1>4. EngineType'
  BY <1>1, <1>2, <1>3 DEF EngineType
<1>5. RequestInv'
  BY <1>1, <1>2, <1>3 DEF RequestInv
<1>6. \A g \in Handlers : hs[g].pc # "fill"
  BY <1>1 DEF LoopFree, FillInv
<1>7. FillInv'
  BY <1>1, <1>2, <1>6 DEF FillInv
<1>8. EnabledRules' = EnabledRules
  BY <1>1 DEF EnabledRules
<1>9. \A g \in Handlers :
        (Holds(g)' <=> Holds(g)) /\ hs'[g].snap = hs[g].snap /\ hs'[g].at = hs[g].at
  BY <1>1, <1>2 DEF Holds
<1>10. CurrentInv'
  BY <1>1, <1>8, <1>9 DEF CurrentInv
<1>11. FreshInv'
  <2>1. CASE hs[h].at = writes
    BY <1>1, <2>1 DEF FreshInv
  <2>2. CASE hs[h].at # writes
    <3>1. hs[h].at < writes
      BY <1>3, <2>2
    <3>2. CASE missed \/ hs[h].at < cacheAt
      BY <1>1, <3>1, <3>2 DEF FreshInv
    <3>3. CASE ~missed /\ ~(hs[h].at < cacheAt)
      <4>1. cacheAt # writes
        BY <1>3, <3>1, <3>3
      <4>2. PICK g \in Handlers : Current(g) \/ WillLoad(g)
        BY <3>3, <4>1 DEF FreshInv
      <4>3. g # h
        BY <1>1, <2>2, <4>2 DEF Current, WillLoad
      <4>4. Current(g)' \/ WillLoad(g)'
        BY <1>1, <1>2, <1>9, <4>2, <4>3 DEF Current, WillLoad
      <4> QED BY <4>4 DEF FreshInv
    <3> QED BY <3>2, <3>3
  <2> QED BY <2>1, <2>2
<1> QED BY <1>4, <1>5, <1>7, <1>10, <1>11

\* A rule is appended.
LEMMA AppendOK ==
  ASSUME EngineInv, NEW h \in Handlers, NEW r \in Rules, AppendRule(h, r)
  PROVE  EngineInv'
<1> USE DEF EngineInv
<1>1. /\ hs[h].pc = "fill" /\ cache' = [cache EXCEPT ![r] = hs[h].snap[r]]
      /\ UNCHANGED <<db, writes, filling, hs, cacheAt, missed>>
  BY DEF AppendRule
<1>2. EngineType'
  BY <1>1 DEF EngineType, Request
<1>3. RequestInv'
  BY <1>1 DEF RequestInv
<1>4. FillInv'
  BY <1>1 DEF FillInv, EngineType
<1>5. filling # {}
  BY <1>1 DEF FillInv
<1>6. EnabledRules' = EnabledRules
  BY <1>1 DEF EnabledRules
<1>7. CurrentInv'
  BY <1>1, <1>5, <1>6 DEF CurrentInv, Holds
<1>8. FreshInv'
  BY <1>1 DEF FreshInv, Current, WillLoad, Holds
<1> QED BY <1>2, <1>3, <1>4, <1>7, <1>8

\* The cache is full: it is what the request selected.
LEMMA LoadedOK ==
  ASSUME EngineInv, NEW h \in Handlers, Loaded(h)
  PROVE  EngineInv'
<1> USE DEF EngineInv
<1> DEFINE x == Ended(h, Answer(hs[h].kind))
<1>1. /\ hs[h].pc = "fill"
      /\ \A r \in Rules : hs[h].snap[r] # 0 => cache[r] = hs[h].snap[r]
      /\ filling' = {} /\ hs' = [hs EXCEPT ![h] = x]
      /\ UNCHANGED <<db, writes, cache, cacheAt, missed>>
  BY DEF Loaded
<1>2. x \in Request /\ x.pc \in {"idle", "ok", "error"} /\ x.at = 0
  <2>1. Answer(hs[h].kind) \in {"ok", "error"}
    BY DEF Answer
  <2> QED BY <2>1, EndedType
<1>3. hs'[h] = x /\ \A g \in Handlers \ {h} : hs'[g] = hs[g]
  BY <1>1 DEF EngineType
<1> HIDE DEF x
<1>4. hs[h] \in Request /\ writes \in Nat
  BY DEF EngineType
<1>5. EngineType'
  BY <1>1, <1>2, <1>3 DEF EngineType
<1>6. RequestInv'
  BY <1>1, <1>2, <1>3, <1>4 DEF RequestInv
<1>7. FillInv'
  BY <1>1, <1>2, <1>3 DEF FillInv
<1>8. cache = hs[h].snap /\ hs[h].at = cacheAt
  <2>1. hs[h].snap \in [Rules -> Nat] /\ cache \in [Rules -> Nat]
    BY <1>4 DEF EngineType, Request
  <2>2. \A r \in Rules : cache[r] = hs[h].snap[r]
    BY <1>1 DEF FillInv
  <2>3. hs[h].at = cacheAt
    BY <1>1 DEF FillInv
  <2> QED BY <2>1, <2>2, <2>3
<1>9. EnabledRules' = EnabledRules
  BY <1>1 DEF EnabledRules
<1>10. Holds(h) /\ ~Holds(h)' /\ \A g \in Handlers \ {h} : Holds(g)' <=> Holds(g)
  BY <1>1, <1>2, <1>3 DEF Holds
<1>11. CurrentInv'
  BY <1>1, <1>3, <1>8, <1>9, <1>10 DEF CurrentInv
<1>12. \A g \in Handlers \ {h} : (Current(g) => Current(g)') /\ (WillLoad(g) => WillLoad(g)')
  BY <1>1, <1>3, <1>10 DEF Current, WillLoad
<1>13. Current(h) \/ WillLoad(h) => cacheAt = writes
  BY <1>1, <1>8 DEF Current, WillLoad
<1>14. FreshInv'
  BY <1>1, <1>12, <1>13 DEF FreshInv
<1> QED BY <1>5, <1>6, <1>7, <1>11, <1>14

\* What the engine does with a request keeps its invariant.
LEMMA HandleOK ==
  ASSUME EngineInv, NEW h \in Handlers, Handle(h)
  PROVE  EngineInv'
BY RefuseOK, WriteOK, SelectOK, SelectFailsOK, LoadOK, AppendOK, LoadedOK DEF Handle

-----------------------------------------------------------------------------
(* The page.                                                               *)

PageInv == PageType /\ ListReleased /\ ModalReleased

\* A load of the list is started, or none is left to start.
LEMMA StartLoadOK ==
  ASSUME PageType, ListReleased, StartLoad
  PROVE  /\ list' \in [Loads -> {"idle", "asked", "empty"}]
         /\ ListReleased'
<1>1. CASE UNCHANGED listVars
  BY <1>1 DEF listVars, PageType, ListReleased
<1>2. ASSUME NEW q \in Loads, list' = [list EXCEPT ![q] = "asked"]
      PROVE  list' \in [Loads -> {"idle", "asked", "empty"}] /\ ListReleased'
  BY <1>2 DEF PageType, ListReleased
<1> QED BY <1>1, <1>2 DEF StartLoad

\* A step of the engine keeps what the modal waits for.
LEMMA EngineKeepsPage ==
  ASSUME IInv, NEW h \in Handlers, OtherRequest(h) \/ Handle(h),
         UNCHANGED <<listVars, modalVars>>
  PROVE  PageInv'
<1>1. PageType' /\ ListReleased'
  BY DEF IInv, PageType, ListReleased, listVars, modalVars
<1>2. \A g \in Handlers \ {h} : hs'[g] = hs[g]
  <2>1. hs \in [Handlers -> Request]
    BY DEF IInv, EngineInv, EngineType
  <2>2. CASE OtherRequest(h)
    BY <2>1, <2>2 DEF OtherRequest, Arrive
  <2>3. CASE Reject(h) \/ Conflict(h) \/ WriteLost(h) \/ SelectFails(h) \/ Loaded(h)
    BY <2>1, <2>3 DEF Reject, Conflict, WriteLost, SelectFails, Loaded
  <2>4. CASE Write(h) \/ Load(h)
    BY <2>1, <2>4 DEF Write, Load
  <2>5. CASE Select(h)
    BY <2>1, <2>5 DEF Select
  <2>6. CASE \E r \in Rules : AppendRule(h, r)
    BY <2>6 DEF AppendRule
  <2> QED BY <2>2, <2>3, <2>4, <2>5, <2>6 DEF Handle
<1>3. ASSUME h \in saving PROVE Awaited(h)'
  <2>1. hs[h].page /\ hs[h].pc # "idle"
    BY <1>3 DEF IInv, ModalReleased, Awaited
  <2>2. Handle(h)
    <3>1. ~OtherRequest(h)
      BY <2>1 DEF OtherRequest, Arrive
    <3> QED BY <3>1
  <2>3. /\ hs'[h].page /\ hs'[h].pc # "idle"
        /\ hs'[h].rule = hs[h].rule /\ hs'[h].kind = hs[h].kind
    <3>1. CASE Reject(h) \/ Conflict(h) \/ WriteLost(h) \/ SelectFails(h)
      BY <2>1, <3>1, EndedType
         DEF Reject, Conflict, WriteLost, SelectFails, IInv, EngineInv, EngineType
    <3>2. CASE Loaded(h)
      <4>1. Answer(hs[h].kind) \in {"ok", "error"}
        BY DEF Answer
      <4> QED BY <2>1, <3>2, <4>1, EndedType DEF Loaded, IInv, EngineInv, EngineType
    <3>3. CASE Write(h) \/ Select(h) \/ Load(h)
      <4>1. hs \in [Handlers -> Request]
        BY DEF IInv, EngineInv, EngineType
      <4>2. CASE Write(h)
        <5>1. hs' = [hs EXCEPT ![h].pc = "select"]
          BY <4>2 DEF Write, AfterWrite
        <5> QED BY <2>1, <4>1, <5>1 DEF Request
      <4>3. CASE Select(h)
        <5>1. hs' = [hs EXCEPT ![h].snap = EnabledRules, ![h].at = writes, ![h].pc = "load"]
          BY <4>3 DEF Select
        <5> QED BY <2>1, <4>1, <5>1 DEF Request
      <4>4. CASE Load(h)
        <5>1. hs' = [hs EXCEPT ![h].pc = "fill"]
          BY <4>4 DEF Load
        <5> QED BY <2>1, <4>1, <5>1 DEF Request
      <4> QED BY <3>3, <4>2, <4>3, <4>4
    <3>4. CASE \E r \in Rules : AppendRule(h, r)
      BY <2>1, <3>4 DEF AppendRule
    <3> QED BY <2>2, <3>1, <3>2, <3>3, <3>4 DEF Handle
  <2> QED BY <1>3, <2>3 DEF IInv, ModalReleased, Awaited, modalVars
<1>4. ModalReleased'
  BY <1>2, <1>3 DEF IInv, PageType, ModalReleased, Awaited, modalVars
<1> QED BY <1>1, <1>4 DEF PageInv

\* The requests of the page.
LEMMA RequestsOK ==
  ASSUME IInv, NEW h \in Handlers,
         Save(h) \/ SaveFailed(h) \/ Remove(h) \/ Removed(h) \/ AnswerLost(h)
  PROVE  IInv'
<1> USE DEF IInv
<1>1. CASE Save(h)
  <2>1. PICK e \in editor : Arrive(h, e.kind, e.rule, TRUE)
    BY <1>1 DEF Save
  <2>2. e.kind \in Kinds /\ e.rule \in Rules
    BY DEF PageType, Kinds
  <2>3. EngineInv'
    BY <2>1, <2>2, ArriveOK
  <2>4. /\ hs'[h].page /\ hs'[h].pc # "idle"
        /\ hs'[h].rule = e.rule /\ hs'[h].kind = e.kind
    BY <2>1 DEF Arrive, EngineInv, EngineType, Idle
  <2>5. PageType' /\ ListReleased' /\ ModalReleased'
    BY <1>1, <2>4 DEF Save, PageType, ListReleased, ModalReleased, Awaited, listVars
  <2> QED BY <2>3, <2>5
<1>2. CASE SaveFailed(h)
  <2>1. EngineInv'
    BY <1>2, ForgetOK DEF SaveFailed
  <2>2. saving' = saving \ {h} /\ \A g \in Handlers \ {h} : hs'[g] = hs[g]
    BY <1>2 DEF SaveFailed, SavingEnds, EngineInv, EngineType
  <2>3. PageType' /\ ListReleased' /\ ModalReleased'
    BY <1>2, <2>2
       DEF SaveFailed, PageType, ListReleased, ModalReleased, Awaited, listVars
  <2> QED BY <2>1, <2>3
<1>3. CASE Remove(h)
  <2>1. PICK r \in confirm : Arrive(h, "delete", r, TRUE)
    BY <1>3 DEF Remove
  <2>2. EngineInv'
    BY <2>1, ArriveOK DEF PageType, Kinds
  <2>3. h \notin saving /\ \A g \in Handlers \ {h} : hs'[g] = hs[g]
    BY <2>1 DEF Arrive, ModalReleased, Awaited, EngineInv, EngineType
  <2>4. PageType' /\ ListReleased' /\ ModalReleased'
    BY <1>3, <2>3
       DEF Remove, PageType, ListReleased, ModalReleased, Awaited, listVars, modalVars
  <2> QED BY <2>2, <2>4
<1>4. CASE Removed(h)
  <2>1. EngineInv'
    BY <1>4, ForgetOK DEF Removed
  <2>2. h \notin saving
    BY <1>4 DEF Removed, ModalReleased, Awaited, PageType
  <2>3. \A g \in Handlers \ {h} : hs'[g] = hs[g]
    BY <1>4 DEF Removed, EngineInv, EngineType
  <2>4. ModalReleased'
    BY <1>4, <2>2, <2>3 DEF Removed, ModalReleased, Awaited, PageType
  <2>5. ListReleased' /\ PageType'
    <3>1. CASE StartLoad
      BY <1>4, <3>1, StartLoadOK DEF Removed, PageType
    <3>2. CASE UNCHANGED listVars
      BY <1>4, <3>2 DEF Removed, PageType, ListReleased, listVars
    <3> QED BY <1>4, <3>1, <3>2 DEF Removed
  <2> QED BY <2>1, <2>4, <2>5
<1>5. CASE AnswerLost(h)
  <2> DEFINE x == [hs[h] EXCEPT !.page = FALSE]
  <2>1. x \in Request /\ x.pc = hs[h].pc /\ x.kind = hs[h].kind
        /\ x.snap = hs[h].snap /\ x.at = hs[h].at
    BY DEF EngineInv, EngineType, Request
  <2>2. hs' = [hs EXCEPT ![h] = x]
    BY <1>5 DEF AnswerLost
  <2>3. EngineInv'
    BY <1>5, <2>1, <2>2, OneQuietOK DEF AnswerLost
  <2>4. saving' = saving \ {h} /\ \A g \in Handlers \ {h} : hs'[g] = hs[g]
    BY <1>5, <2>2 DEF AnswerLost, SavingEnds, EngineInv, EngineType
  <2>5. PageType' /\ ListReleased' /\ ModalReleased'
    BY <1>5, <2>4
       DEF AnswerLost, PageType, ListReleased, ModalReleased, Awaited, listVars
  <2> QED BY <2>3, <2>5
<1> QED BY <1>1, <1>2, <1>3, <1>4, <1>5

\* What the page does by itself leaves the engine alone.
LEMMA EngineUntouched ==
  ASSUME EngineInv, UNCHANGED engineVars
  PROVE  EngineInv'
BY QuietOK DEF engineVars, EngineInv, EngineType

\* Loads of the list.
LEMMA LoadsOK ==
  ASSUME IInv, NEW q \in Loads, AnswerList(q) \/ ListShown(q) \/ ListFailed(q)
  PROVE  IInv'
<1> USE DEF IInv
<1>1. EngineInv'
  BY EngineUntouched DEF AnswerList, ListShown, ListFailed
<1>3. ModalReleased'
  BY DEF AnswerList, ListShown, ListFailed, ModalReleased, Awaited, engineVars, modalVars
<1>4. CASE AnswerList(q)
  <2>1. PageType'
    BY <1>4 DEF AnswerList, PageType, EngineInv, EngineType, modalVars
  <2>2. list'[q] = "empty"
    BY <1>4 DEF AnswerList, PageType
  <2> QED BY <1>1, <1>3, <2>1, <2>2 DEF ListReleased
<1>5. CASE ListShown(q) \/ ListFailed(q)
  <2>1. PageType'
    BY <1>5 DEF ListShown, ListFailed, PageType, modalVars
  <2>2. ~loading'
    BY <1>5 DEF ListShown, ListFailed, SpinnerEnds
  <2> QED BY <1>1, <1>3, <2>1, <2>2 DEF ListReleased
<1> QED BY <1>4, <1>5

\* Clicks and typing.
LEMMA ClicksOK ==
  ASSUME IInv,
         \/ Refresh \/ Type \/ CloseEditor \/ CancelDelete
         \/ \E r \in Rules : OpenEditor(r) \/ AskDelete(r)
  PROVE  IInv'
<1> USE DEF IInv
<1>1. EngineInv' /\ UNCHANGED hs
  BY EngineUntouched
     DEF Refresh, Type, CloseEditor, CancelDelete, OpenEditor, AskDelete, engineVars
<1>2. CASE Refresh
  BY <1>1, <1>2, StartLoadOK DEF Refresh, PageType, ModalReleased, Awaited, modalVars
<1>3. CASE Type \/ CancelDelete
  BY <1>1, <1>3
     DEF Type, CancelDelete, PageType, ListReleased, ModalReleased, Awaited, listVars
<1>4. CASE CloseEditor
  BY <1>1, <1>4 DEF CloseEditor, PageType, ListReleased, ModalReleased, listVars
<1>5. ASSUME NEW r \in Rules, OpenEditor(r) PROVE IInv'
  <2>1. saving = {}
    BY <1>5 DEF OpenEditor, ModalReleased, Awaited
  <2>2. PageType' /\ ListReleased'
    BY <1>5 DEF OpenEditor, PageType, ListReleased, listVars
  <2> QED BY <1>1, <1>5, <2>1, <2>2 DEF OpenEditor, ModalReleased
<1>6. ASSUME NEW r \in Rules, AskDelete(r) PROVE IInv'
  BY <1>1, <1>6
     DEF AskDelete, PageType, ListReleased, ModalReleased, Awaited, listVars
<1> QED BY <1>2, <1>3, <1>4, <1>5, <1>6

\* The page when it is shown.
LEMMA InitOK == Init => IInv
<1> SUFFICES ASSUME Init PROVE IInv
  OBVIOUS
<1>1. EngineInv
  BY EngineInitOK DEF Init
<1>2. PICK q \in Loads : list = [p \in Loads |-> IF p = q THEN "asked" ELSE "idle"]
  BY DEF Init
<1>3. PageType
  BY <1>2 DEF PageType, Init
<1>4. ListReleased /\ ModalReleased
  BY <1>2 DEF ListReleased, ModalReleased, Init
<1> QED BY <1>1, <1>3, <1>4 DEF IInv

\* Every step keeps the invariant.
LEMMA StepOK == IInv /\ [Next]_vars => IInv'
<1> SUFFICES ASSUME IInv, [Next]_vars PROVE IInv'
  OBVIOUS
<1>1. ASSUME NEW h \in Handlers, OtherRequest(h) \/ Handle(h),
             UNCHANGED <<listVars, modalVars>>
      PROVE  IInv'
  <2>1. EngineInv'
    BY <1>1, ArriveOK, HandleOK DEF OtherRequest, IInv
  <2>2. PageInv'
    BY <1>1, EngineKeepsPage
  <2> QED BY <2>1, <2>2 DEF IInv, PageInv
<1>2. CASE UNCHANGED vars
  <2>1. EngineInv'
    BY <1>2, EngineUntouched DEF vars, IInv
  <2> QED
    BY <1>2, <2>1 DEF vars, listVars, modalVars, engineVars, IInv, PageType,
                      ListReleased, ModalReleased, Awaited
<1> QED BY <1>1, <1>2, RequestsOK, LoadsOK, ClicksOK DEF Next

\* The inductive invariant holds throughout.
THEOREM Invariance == Spec => []IInv
BY InitOK, StepOK, PTL DEF Spec

\* At rest the engine scores with exactly the enabled rules, once a load included
\* every write: a failed load, a lost answer and an older selection loaded last
\* are made good by the next load (load_rules, RulesEngine).
THEOREM FreshAtRest == Spec => []EngineFresh
<1>1. IInv => EngineFresh
  <2> SUFFICES ASSUME IInv, ~missed,
                      \A h \in Handlers : hs[h].pc \in {"idle", "ok", "error"}
               PROVE  cache = EnabledRules
    BY DEF EngineFresh
  <2>1. \A h \in Handlers : ~Current(h) /\ ~WillLoad(h)
    BY DEF Current, WillLoad, Holds
  <2>2. cacheAt = writes
    BY <2>1 DEF IInv, EngineInv, FreshInv
  <2>3. filling = {}
    BY DEF IInv, EngineInv, FillInv
  <2> QED BY <2>2, <2>3 DEF IInv, EngineInv, CurrentInv
<1> QED BY <1>1, Invariance, PTL

\* Neither the list nor a modal of the Rules page waits for nothing.
THEOREM Released == Spec => []PageReleased
<1>1. IInv => PageReleased
  BY DEF IInv, ListReleased, ModalReleased, Awaited, PageReleased
<1> QED BY <1>1, Invariance, PTL

-----------------------------------------------------------------------------
(* The invariant of the pages.                                             *)

\* A promise that is kept is the one of a fetch that is under way or that
\* succeeded: a map that asks finds land, or has something to wait for.
MapInv ==
  /\ MapTypeOK
  /\ atlasCache <=> atlasPromise = "settled"
  /\ MapRetries

\* alertedRef and the toasts of this visit go together, and what the effect last
\* ran with is in it.
AlertInv ==
  /\ raised = [e \in Ids |-> IF e \in alerted THEN 1 ELSE 0]
  /\ \A s \in effectRan, e \in Critical : e \in Range(s) => e \in alerted

\* Numbers are handed out once.
ToastInv == ToastTypeOK /\ NoStickyToast

PagesInv == events \in Lists /\ MapInv /\ AlertInv /\ ToastInv

-----------------------------------------------------------------------------
(* The map data.                                                           *)

\* A map is mounted, its data comes or fails, or it is left.
LEMMA MapStepOK ==
  ASSUME MapInv, MapStep \/ MapUnmount \/ UNCHANGED mapVars
  PROVE  MapInv'
<1> USE DEF MapInv, MapTypeOK, MapRetries
<1>1. CASE MountMap
  <2>1. atlasCache' = atlasCache /\ sawFailure' = sawFailure
    BY <1>1 DEF MountMap
  <2>2. CASE atlasCache
    <3>1. land' = "drawn" /\ atlasPromise' = "settled"
      BY <1>1, <2>2 DEF MountMap, LoadAtlas
    <3> QED BY <2>1, <2>2, <3>1
  <2>3. CASE ~atlasCache
    <3>1. atlasPromise' = "pending"
      BY <1>1, <2>3 DEF MountMap, LoadAtlas
    <3>2. land' = "waiting"
      BY <1>1, <2>3, <3>1 DEF MountMap, LoadAtlas
    <3> QED BY <2>1, <2>3, <3>1, <3>2
  <2> QED BY <2>2, <2>3
<1>2. CASE AtlasLoaded
  BY <1>2 DEF AtlasLoaded, Settle
<1>3. CASE AtlasFailed
  BY <1>3 DEF AtlasFailed, Settle, AfterFailure
<1>4. CASE MapUnmount
  BY <1>4 DEF MapUnmount
<1>5. CASE UNCHANGED mapVars
  BY <1>5 DEF mapVars
<1> QED BY <1>1, <1>2, <1>3, <1>4, <1>5 DEF MapStep

-----------------------------------------------------------------------------
(* The alerts.                                                             *)

\* The effect raises a toast for exactly the events that it adds to alertedRef.
LEMMA AlertEffectOK == AlertInv /\ AlertEffect => AlertInv'
<1> SUFFICES ASSUME AlertInv, AlertEffect PROVE AlertInv'
  OBVIOUS
<1> DEFINE now == {e \in Critical : e \in Range(events)}
<1>1. /\ effectRan' = {events}
      /\ alerted' = alerted \cup now
      /\ raised' = [e \in Ids |-> IF e \in now \ alerted THEN raised[e] + 1 ELSE raised[e]]
  BY DEF AlertEffect, NowAlerted
<1>2. raised' = [e \in Ids |-> IF e \in alerted' THEN 1 ELSE 0]
  <2> HIDE DEF now
  <2> QED BY <1>1 DEF AlertInv
<1>3. \A s \in effectRan', e \in Critical : e \in Range(s) => e \in alerted'
  BY <1>1
<1> QED BY <1>2, <1>3 DEF AlertInv, Critical

\* A visit starts, or nothing is announced.
LEMMA AlertKeptOK ==
  ASSUME AlertInv, ThreatsUnmount \/ UNCHANGED <<alerted, effectRan, raised>>
  PROVE  AlertInv'
BY DEF AlertInv, ThreatsUnmount, Critical

-----------------------------------------------------------------------------
(* The toasts.                                                             *)

\* slice(-n) keeps an end of the list.
LEMMA LastOfFacts ==
  ASSUME NEW S, NEW s \in Seq(S), NEW n \in Nat
  PROVE  /\ LastOf(s, n) \in Seq(S) /\ Len(LastOf(s, n)) <= n
         /\ \E d \in Nat : \A i \in 1..Len(LastOf(s, n)) :
              i + d \in 1..Len(s) /\ LastOf(s, n)[i] = s[i + d]
<1>1. CASE Len(s) <= n
  <2>1. LastOf(s, n) = s
    BY <1>1 DEF LastOf
  <2>2. \A i \in 1..Len(s) : i + 0 \in 1..Len(s) /\ s[i] = s[i + 0]
    OBVIOUS
  <2> QED BY <1>1, <2>1, <2>2
<1>2. CASE Len(s) > n
  <2> DEFINE d == Len(s) - n
             m == d + 1
             l == Len(s)
             r == SubSeq(s, m, l)
  <2>1. d \in Nat /\ m \in 1..(l + 1) /\ l \in Nat /\ l + 1 - m = n
    BY <1>2
  <2>2. LastOf(s, n) = r
    BY <1>2 DEF LastOf
  <2>3. r = [i \in 1..n |-> s[i + d]]
    BY <2>1
  <2>4. \A i \in 1..n : i + d \in 1..l
    BY <2>1
  <2>5. \A i \in 1..n : s[i + d] \in S
    BY <2>4
  <2> HIDE DEF r, d, m
  <2>6. r \in Seq(S) /\ Len(r) = n
    BY <2>3, <2>5
  <2>7. \A i \in 1..Len(r) : i + d \in 1..Len(s) /\ r[i] = s[i + d]
    BY <2>3, <2>4, <2>6
  <2>8. LastOf(s, n) \in Seq(S) /\ Len(LastOf(s, n)) <= n
    BY <2>2, <2>6
  <2>9. \A i \in 1..Len(LastOf(s, n)) : i + d \in 1..Len(s) /\ LastOf(s, n)[i] = s[i + d]
    BY <2>2, <2>7
  <2>10. \E e \in Nat : \A i \in 1..Len(LastOf(s, n)) :
           i + e \in 1..Len(s) /\ LastOf(s, n)[i] = s[i + e]
    BY <2>1, <2>9, Zenon
  <2> QED BY <2>8, <2>10
<1> QED BY <1>1, <1>2

\* What is to be shown of the toasts after a step.
LEMMA ToastsPrimed ==
  ASSUME idRef' \in Nat \ {0}, toasts' \in Seq(1..(idRef' - 1)), Len(toasts') <= Kept + 1,
         timers' \subseteq 1..(idRef' - 1), Distinct(toasts'),
         \A i \in 1..Len(toasts') : toasts'[i] \in timers'
  PROVE  ToastInv'
<1>1. DOMAIN toasts' = 1..Len(toasts')
  OBVIOUS
<1>2. NoStickyToast'
  BY <1>1 DEF NoStickyToast, Distinct
<1> QED BY <1>2 DEF ToastInv, ToastTypeOK

\* New toasts have new numbers and timers; what is pushed out is gone.
LEMMA RaiseOK ==
  ASSUME ToastInv, NEW n \in Nat, Raise(n)
  PROVE  ToastInv'
<1> DEFINE new == [i \in 1..n |-> idRef + i - 1]
           S == 1..(idRef + n - 1)
           all == toasts \o new
           l == Len(toasts)
<1>1. /\ idRef \in Nat \ {0} /\ l \in Nat /\ l <= Kept + 1 /\ Kept \in Nat
      /\ timers \subseteq S /\ toasts \in Seq(1..(idRef - 1))
      /\ \A i \in 1..l : toasts[i] \in 1..(idRef - 1) /\ toasts[i] \in timers
      /\ Distinct(toasts)
  BY ToastsAssumption DEF ToastInv, ToastTypeOK, NoStickyToast, Distinct
<1>2. /\ idRef' = idRef + n /\ idRef' - 1 = idRef + n - 1
      /\ timers' = timers \cup {new[i] : i \in 1..n}
      /\ toasts' = IF n = 0 THEN toasts ELSE LastOf(all, Kept + 1)
  BY <1>1 DEF Raise
<1>3. \A i \in 1..n : new[i] = idRef + i - 1 /\ new[i] \in S
  BY <1>1
<1>4. new \in Seq(S) /\ Len(new) = n
  BY <1>3
<1>5. toasts \in Seq(S)
  BY <1>1
<1> HIDE DEF new
<1>6. all \in Seq(S) /\ Len(all) = l + n
  BY <1>4, <1>5
<1>7. \A i \in 1..(l + n) : all[i] = IF i <= l THEN toasts[i] ELSE new[i - l]
  BY <1>1, <1>4, <1>5
<1> HIDE DEF l, all
<1>8. \A i \in 1..(l + n) : all[i] \in timers'
  <2> TAKE i \in 1..(l + n)
  <2>1. CASE i <= l
    BY <1>1, <1>2, <1>7, <2>1
  <2>2. CASE ~(i <= l)
    <3>1. i - l \in 1..n
      BY <1>1, <2>2
    <3> QED BY <1>2, <1>7, <2>2, <3>1
  <2> QED BY <2>1, <2>2
<1>9. Distinct(all)
  <2> SUFFICES ASSUME NEW i \in 1..(l + n), NEW j \in 1..(l + n), i < j
               PROVE  all[i] # all[j]
    BY <1>1, <1>6 DEF Distinct
  <2>1. CASE j <= l
    BY <1>1, <1>7, <2>1 DEF Distinct, l
  <2>2. CASE ~(j <= l)
    <3>1. j - l \in 1..n /\ all[j] = idRef + (j - l) - 1
      BY <1>1, <1>3, <1>7, <2>2
    <3>2. CASE i <= l
      BY <1>1, <1>7, <3>1, <3>2
    <3>3. CASE ~(i <= l)
      <4>1. i - l \in 1..n /\ all[i] = idRef + (i - l) - 1
        BY <1>1, <1>3, <1>7, <3>3
      <4> QED BY <1>1, <3>1, <4>1
    <3> QED BY <3>2, <3>3
  <2> QED BY <2>1, <2>2
<1>10. /\ toasts' \in Seq(S) /\ Len(toasts') <= Kept + 1
       /\ \E d \in Nat : \A i \in 1..Len(toasts') :
            i + d \in 1..(l + n) /\ toasts'[i] = all[i + d]
  <2>1. CASE n = 0
    <3>1. toasts' = toasts /\ Len(toasts') = l
      BY <1>2, <2>1 DEF l
    <3>2. \A i \in 1..Len(toasts') : i + 0 \in 1..(l + n) /\ toasts'[i] = all[i + 0]
      BY <1>1, <1>7, <3>1
    <3> QED BY <1>1, <1>5, <3>1, <3>2
  <2>2. CASE n # 0
    <3>1. toasts' = LastOf(all, Kept + 1) /\ Kept + 1 \in Nat
      BY <1>1, <1>2, <2>2
    <3> QED BY <1>6, <3>1, LastOfFacts
  <2> QED BY <2>1, <2>2
<1>11. PICK d \in Nat : \A i \in 1..Len(toasts') :
              i + d \in 1..(l + n) /\ toasts'[i] = all[i + d]
  BY <1>10
<1>12. Len(toasts') \in Nat
  BY <1>10
<1>13. Distinct(toasts')
  <2> SUFFICES ASSUME NEW i \in 1..Len(toasts'), NEW j \in 1..Len(toasts'),
                      toasts'[i] = toasts'[j]
               PROVE  i = j
    BY DEF Distinct
  <2>1. i + d = j + d
    BY <1>6, <1>9, <1>11 DEF Distinct
  <2> QED BY <1>12, <2>1
<1>14. \A i \in 1..Len(toasts') : toasts'[i] \in timers'
  BY <1>8, <1>11
<1>15. {new[i] : i \in 1..n} \subseteq S
  BY <1>3
<1>16. timers' \subseteq S
  BY <1>1, <1>2, <1>15
<1>17. idRef' \in Nat \ {0}
  BY <1>1, <1>2
<1> QED BY <1>2, <1>10, <1>13, <1>14, <1>16, <1>17, ToastsPrimed

\* A toast that times out or is dismissed takes no other one with it, and loses
\* its timer only together with its place.
LEMMA ToastGoesOK ==
  ASSUME ToastInv, NEW id, TimerFires(id) \/ Dismiss(id)
  PROVE  ToastInv'
<1> DEFINE S == 1..(idRef - 1)
           w == Without(toasts, {id})
<1>1. /\ toasts \in Seq(S) /\ Len(toasts) <= Kept + 1 /\ Kept \in Nat
      /\ idRef \in Nat \ {0} /\ timers \subseteq S
      /\ \A i \in 1..Len(toasts) : toasts[i] \in timers
      /\ Distinct(toasts)
  BY ToastsAssumption DEF ToastInv, ToastTypeOK, NoStickyToast, Distinct
<1>2. /\ toasts' = w /\ idRef' = idRef
      /\ (timers' = timers \ {id} \/ timers' = timers)
  BY DEF TimerFires, Dismiss, Dismissed
<1>3. w \in Seq(S) /\ Sifted(w, toasts, {id}, Len(toasts))
  BY <1>1, WithoutFacts
<1> HIDE DEF w
<1>4. /\ Len(w) <= Len(toasts) /\ Distinct(w)
      /\ \A j \in 1..Len(w) : \E i \in 1..Len(toasts) : w[j] = toasts[i] /\ toasts[i] # id
  BY <1>1, <1>3 DEF Sifted
<1>5. Len(w) <= Kept + 1
  BY <1>1, <1>3, <1>4
<1>6. \A j \in 1..Len(w) : w[j] \in timers'
  BY <1>1, <1>2, <1>4
<1>7. timers' \subseteq S
  BY <1>1, <1>2
<1> QED BY <1>1, <1>2, <1>3, <1>4, <1>5, <1>6, <1>7, ToastsPrimed

-----------------------------------------------------------------------------
(* The pages together.                                                     *)

\* What a list of the feed is.
LEMMA ListFacts ==
  ASSUME events \in Lists
  PROVE  /\ events \in Seq(Ids) /\ Len(events) \in Nat
         /\ DOMAIN events = 1..Len(events)
<1>1. PICK n \in 0..Window : events \in [1..n -> Ids]
  BY DEF Lists
<1>2. n \in Nat
  BY ValuesAssumption
<1>3. events \in Seq(Ids) /\ Len(events) = n
  BY <1>1, <1>2
<1> QED BY <1>1, <1>2, <1>3

\* Finitely many events are listed.
LEMMA ListedFinite ==
  ASSUME events \in Lists
  PROVE  IsFiniteSet(Range(events))
<1> DEFINE S == 1..Len(events)
           T == Range(events)
<1>1. Len(events) \in Nat /\ DOMAIN events = S /\ events \in [S -> T]
  BY ListFacts DEF Range
<1>2. events \in Surjection(S, T)
  BY <1>1 DEF Surjection, Range
<1>3. IsFiniteSet(S)
  BY <1>1, FS_Interval
<1> QED BY <1>2, <1>3, FS_Surjection

\* The first page is shown.
LEMMA PagesInitOK == PagesInit => PagesInv
<1> SUFFICES ASSUME PagesInit PROVE PagesInv
  OBVIOUS
<1>1. events \in Lists
  BY DEF PagesInit, LiveInit
<1>2. MapInv
  BY DEF PagesInit, MapInit, MapInv, MapTypeOK, MapRetries
<1>3. AlertInv
  BY DEF PagesInit, ThreatsInit, AlertInv
<1>4. ToastInv
  <2>1. PICK n \in 0..MaxOthers : ToastInit(n)
    BY DEF PagesInit
  <2>2. n \in Nat /\ n <= Kept + 1 /\ Kept \in Nat
    BY ToastsAssumption
  <2>3. toasts = [i \in 1..n |-> i] /\ timers = 1..n /\ idRef = n + 1 /\ idRef - 1 = n
    BY <2>1, <2>2 DEF ToastInit
  <2>4. toasts \in Seq(1..n) /\ Len(toasts) = n /\ DOMAIN toasts = 1..n
    BY <2>2, <2>3
  <2> QED BY <2>2, <2>3, <2>4 DEF ToastInv, ToastTypeOK, NoStickyToast
<1> QED BY <1>1, <1>2, <1>3, <1>4 DEF PagesInv

\* The toasts do not change.
LEMMA ToastsKeptOK == ToastInv /\ UNCHANGED toastVars => ToastInv'
BY DEF ToastInv, ToastTypeOK, NoStickyToast, toastVars

\* Every step of the page that is shown, of the toasts, of the map data and of
\* what the pages depend on keeps the invariant.
LEMMA PagesStepOK == PagesInv /\ [PagesNext]_pagesVars => PagesInv'
<1> SUFFICES ASSUME PagesInv, [PagesNext]_pagesVars PROVE PagesInv'
  OBVIOUS
<1> USE DEF PagesInv
<1>1. ASSUME UNCHANGED <<events, toastVars, mapVars>>,
             ThreatsUnmount \/ UNCHANGED <<alerted, effectRan, raised>>
      PROVE  PagesInv'
  BY <1>1, MapStepOK, AlertKeptOK, ToastsKeptOK
<1>2. CASE Navigate
  BY <1>2, MapStepOK, AlertKeptOK, ToastsKeptOK DEF Navigate, liveVars
<1>3. CASE Crash
  <2>1. ToastInv'
    <3>1. toasts' = <<>> /\ timers' = timers /\ idRef' = idRef
      BY <1>3 DEF Crash
    <3>2. /\ idRef \in Nat \ {0} /\ timers \subseteq 1..(idRef - 1) /\ Kept \in Nat
      BY ToastsAssumption DEF ToastInv, ToastTypeOK
    <3>3. Len(toasts') = 0 /\ toasts' \in Seq(1..(idRef' - 1)) /\ Distinct(toasts')
      BY <3>1 DEF Distinct
    <3> QED BY <3>1, <3>2, <3>3, ToastsPrimed
  <2> QED BY <1>3, <2>1, MapStepOK, AlertKeptOK DEF Crash, liveVars
<1>4. CASE SystemStep \/ RollupStep
  BY <1>1, <1>4
     DEF SystemStep, RollupStep, OfSystem, OfRollups, liveVars, threatsVars
<1>5. CASE ThreatsStep
  <2>1. CASE AlertEffect
    <3> DEFINE new == {e \in Critical : e \in Range(events)} \ alerted
    <3>1. Raise(Cardinality(new))
      BY <2>1 DEF AlertEffect
    <3>2. new \subseteq Range(events)
      OBVIOUS
    <3> HIDE DEF new
    <3>3. Cardinality(new) \in Nat
      BY <3>2, ListedFinite, FS_Subset, FS_CardinalityType
    <3>4. ToastInv'
      BY <3>1, <3>3, RaiseOK
    <3> QED BY <1>5, <2>1, <3>4, AlertEffectOK, MapStepOK DEF ThreatsStep, liveVars
  <2>2. CASE ~AlertEffect
    BY <1>1, <1>5, <2>2 DEF ThreatsStep, SetFilter, SelectThreat, CloseDetail, liveVars
  <2> QED BY <2>1, <2>2
<1>6. CASE ToastStep
  BY <1>6, ToastGoesOK, AlertKeptOK, MapStepOK DEF ToastStep, threatsVars, liveVars
<1>7. CASE OutsideStep
  <2>1. UNCHANGED <<toastVars, alerted, effectRan, raised>>
    BY <1>7 DEF OutsideStep, threatsVars
  <2>2. events' \in Lists
    BY <1>7 DEF OutsideStep, LiveStep, ListChanges, StreamChanges, DemoStarts,
                ServiceChanges, RowsChange, liveVars
  <2>3. MapInv'
    BY <1>7, MapStepOK DEF OutsideStep
  <2> QED BY <2>1, <2>2, <2>3, AlertKeptOK, ToastsKeptOK
<1>8. CASE UNCHANGED pagesVars
  BY <1>1, <1>8 DEF pagesVars, liveVars, threatsVars
<1> QED BY <1>2, <1>3, <1>4, <1>5, <1>6, <1>7, <1>8 DEF PagesNext

\* The inductive invariant of the pages holds throughout.
THEOREM PagesInvariance == PagesSpec => []PagesInv
BY PagesInitOK, PagesStepOK, PTL DEF PagesSpec

\* A failed fetch of the map data costs one visit, whichever page asked for it.
THEOREM LandReturns == PagesSpec => []MapRetries
<1>1. PagesInv => MapRetries
  BY DEF PagesInv, MapInv
<1> QED BY <1>1, PagesInvariance, PTL

\* "fire once per event id", for any lists and any number of visits.
THEOREM OneToastPerEvent == PagesSpec => []AlertedOnce
<1>1. PagesInv => AlertedOnce
  BY DEF PagesInv, AlertInv, AlertedOnce, Critical
<1> QED BY <1>1, PagesInvariance, PTL

\* No toast is left on screen for ever, for any number of toasts.
THEOREM ToastsLeave == PagesSpec => []NoStickyToast
<1>1. PagesInv => NoStickyToast
  BY DEF PagesInv, ToastInv
<1> QED BY <1>1, PagesInvariance, PTL

-----------------------------------------------------------------------------
(* The markers.                                                            *)

Markers == [seen : SUBSET Sources, out : Seq(Ids)]

\* After i turns of the loop: the sources seen are those of the events to show
\* so far, and there is one marker for each.
Marked(acc, i) ==
  /\ \A s \in acc.seen : \E k \in 1..i : OnMap(events[k]) /\ Source[events[k]] = s
  /\ \A k \in 1..i : OnMap(events[k]) => Source[events[k]] \in acc.seen
  /\ \A s \in acc.seen : \E j \in 1..Len(acc.out) : Source[acc.out[j]] = s
  /\ \A j \in 1..Len(acc.out) : Source[acc.out[j]] \in acc.seen
  /\ \A j, k \in 1..Len(acc.out) : Source[acc.out[j]] = Source[acc.out[k]] => j = k

\* A turn yields sources and markers again.
LEMMA AddMarkerType ==
  ASSUME NEW acc \in Markers, NEW e \in Ids
  PROVE  AddMarker(acc, e) \in Markers
<1>1. Source[e] \in Sources
  BY ThreatsAssumption
<1>2. acc.seen \in SUBSET Sources /\ acc.out \in Seq(Ids)
  BY DEF Markers
<1>3. acc.seen \cup {Source[e]} \in SUBSET Sources /\ Append(acc.out, e) \in Seq(Ids)
  BY <1>1, <1>2
<1>4. [seen |-> acc.seen \cup {Source[e]}, out |-> Append(acc.out, e)] \in Markers
  BY <1>3 DEF Markers
<1> QED BY <1>4 DEF AddMarker

\* One turn of the loop.
LEMMA MarkerTurn ==
  ASSUME events \in Seq(Ids), NEW i \in 1..Len(events), NEW acc \in Markers,
         Marked(acc, i - 1)
  PROVE  Marked(AddMarker(acc, events[i]), i)
<1> DEFINE e == events[i]
           s0 == Source[e]
           m == Len(acc.out)
<1>0. /\ acc.seen \in SUBSET Sources /\ acc.out \in Seq(Ids) /\ m \in Nat /\ i \in Nat
      /\ e \in Ids
  BY DEF Markers
<1>1. CASE Source[e] \in acc.seen \/ ~OnMap(e)
  <2>1. AddMarker(acc, e) = acc
    BY <1>1 DEF AddMarker
  <2>2. \A s \in acc.seen : \E k \in 1..i : OnMap(events[k]) /\ Source[events[k]] = s
    <3> TAKE s \in acc.seen
    <3>1. PICK k \in 1..(i - 1) : OnMap(events[k]) /\ Source[events[k]] = s
      BY DEF Marked
    <3> QED BY <3>1
  <2>3. \A k \in 1..i : OnMap(events[k]) => Source[events[k]] \in acc.seen
    <3> TAKE k \in 1..i
    <3>1. CASE k = i
      BY <1>1, <3>1
    <3>2. CASE k # i
      <4>1. k \in 1..(i - 1)
        BY <3>2
      <4> QED BY <4>1 DEF Marked
    <3> QED BY <3>1, <3>2
  <2> QED BY <2>1, <2>2, <2>3 DEF Marked
<1>2. CASE s0 \notin acc.seen /\ OnMap(e)
  <2> DEFINE seen == acc.seen \cup {s0}
             out == Append(acc.out, e)
             new == [seen |-> seen, out |-> out]
  <2>1. AddMarker(acc, e) = new /\ new.seen = seen /\ new.out = out
    BY <1>2 DEF AddMarker
  <2>2. /\ Len(out) = m + 1 /\ out[m + 1] = e
        /\ \A j \in 1..m : out[j] = acc.out[j]
    BY <1>0
  <2> HIDE DEF out, new, e
  <2>3. \A s \in seen : \E k \in 1..i : OnMap(events[k]) /\ Source[events[k]] = s
    <3> TAKE s \in seen
    <3>1. CASE s = s0
      BY <1>0, <1>2, <3>1 DEF e
    <3>2. CASE s # s0
      <4>1. PICK k \in 1..(i - 1) : OnMap(events[k]) /\ Source[events[k]] = s
        BY <3>2 DEF Marked
      <4> QED BY <4>1
    <3> QED BY <3>1, <3>2
  <2>4. \A k \in 1..i : OnMap(events[k]) => Source[events[k]] \in seen
    <3> TAKE k \in 1..i
    <3>1. CASE k = i
      BY <3>1 DEF e
    <3>2. CASE k # i
      <4>1. k \in 1..(i - 1)
        BY <3>2
      <4> QED BY <4>1 DEF Marked
    <3> QED BY <3>1, <3>2
  <2>5. \A s \in seen : \E j \in 1..(m + 1) : Source[out[j]] = s
    <3> TAKE s \in seen
    <3>1. CASE s = s0
      BY <1>0, <2>2, <3>1
    <3>2. CASE s # s0
      <4>1. PICK j \in 1..m : Source[acc.out[j]] = s
        BY <3>2 DEF Marked
      <4>2. j \in 1..(m + 1) /\ out[j] = acc.out[j]
        BY <1>0, <2>2
      <4> QED BY <4>1, <4>2
    <3> QED BY <3>1, <3>2
  <2>6. \A j \in 1..m : Source[out[j]] = Source[acc.out[j]] /\ Source[out[j]] \in acc.seen
    BY <2>2 DEF Marked
  <2>7. \A j \in 1..(m + 1) : Source[out[j]] \in seen
    <3> TAKE j \in 1..(m + 1)
    <3>1. CASE j = m + 1
      BY <2>2, <3>1
    <3>2. CASE j # m + 1
      <4>1. j \in 1..m
        BY <1>0, <3>2
      <4> QED BY <2>6, <4>1
    <3> QED BY <3>1, <3>2
  <2>8. \A j, k \in 1..(m + 1) : Source[out[j]] = Source[out[k]] => j = k
    <3> SUFFICES ASSUME NEW j \in 1..(m + 1), NEW k \in 1..(m + 1), j < k,
                        Source[out[j]] = Source[out[k]]
                 PROVE  FALSE
      BY <1>0
    <3>1. j \in 1..m
      BY <1>0
    <3>2. CASE k = m + 1
      BY <1>2, <2>2, <2>6, <3>1, <3>2
    <3>3. CASE k # m + 1
      <4>1. k \in 1..m
        BY <1>0, <3>3
      <4>2. Source[acc.out[j]] = Source[acc.out[k]]
        BY <2>6, <3>1, <4>1
      <4>3. j = k
        BY <3>1, <4>1, <4>2 DEF Marked
      <4> QED BY <1>0, <4>3
    <3> QED BY <3>2, <3>3
  <2> HIDE DEF seen
  <2>9. Marked(new, i)
    BY <2>1, <2>2, <2>3, <2>4, <2>5, <2>7, <2>8 DEF Marked
  <2> QED BY <2>1, <2>9 DEF e
<1> QED BY <1>1, <1>2

\* The loop runs to its end.
LEMMA MarkerLoopRuns ==
  ASSUME events \in Seq(Ids)
  PROVE  /\ MarkerLoop \in [0..Len(events) -> Markers]
         /\ MarkerLoop[0] = [seen |-> {}, out |-> <<>>]
         /\ \A i \in 1..Len(events) :
              MarkerLoop[i] = AddMarker(MarkerLoop[i - 1], events[i])
<1> DEFINE n == Len(events)
           none == [seen |-> {}, out |-> <<>>]
           Turn(a, i) == AddMarker(a, events[i])
           step == [i \in 1..n |-> [a \in Markers |-> Turn(a, i)]]
           Body(f) == [i \in 0..n |-> IF i = 0 THEN none ELSE Turn(f[i - 1], i)]
           g == CHOOSE g : g = Body(g)
<1>1. n \in Nat /\ none \in Markers
  <2>1. {} \in SUBSET Sources /\ <<>> \in Seq(Ids)
    OBVIOUS
  <2> QED BY <2>1 DEF Markers
<1>2. \A a \in Markers, i \in 1..n : Turn(a, i) \in Markers
  BY AddMarkerType
<1>3. MarkerLoop = g
  BY DEF MarkerLoop
<1> HIDE DEF n, none, Turn
<1>4. step \in [1..n -> [Markers -> Markers]]
  BY <1>2
<1>5. PICK f \in [0..n -> Markers] :
        f[0] = none /\ \A i \in 1..n : f[i] = step[i][f[i - 1]]
  <2> HIDE DEF step
  <2> QED BY <1>1, <1>4, LoopRuns
<1>6. f = Body(f)
  <2>1. \A i \in 1..n : f[i] = Turn(f[i - 1], i)
    BY <1>1, <1>5
  <2> QED BY <1>1, <1>5, <2>1
<1>7. g = Body(g)
  <2> HIDE DEF Body
  <2> QED BY <1>6
<1> HIDE DEF g
<1>8. g[0] = none /\ \A i \in 1..n : g[i] = Turn(g[i - 1], i)
  BY <1>1, <1>7
<1>9. g \in [0..n -> Markers]
  <2> DEFINE T == {i \in 0..n : g[i] \in Markers}
  <2>1. 0 \in T /\ \A i \in 1..n : i - 1 \in T => i \in T
    BY <1>1, <1>2, <1>8
  <2> HIDE DEF T
  <2>2. \A i \in 0..n : i \in T
    BY <1>1, <2>1, BoundedInduction
  <2> QED BY <1>7, <2>2 DEF T
<1> QED BY <1>3, <1>8, <1>9 DEF n, none, Turn

\* The markers are those of the whole list.
LEMMA ThreatsMarked ==
  ASSUME events \in Seq(Ids)
  PROVE  /\ MarkerLoop[Len(events)] \in Markers
         /\ Marked(MarkerLoop[Len(events)], Len(events))
<1> DEFINE n == Len(events)
           T == {i \in 0..n : Marked(MarkerLoop[i], i)}
<1>1. n \in Nat
  OBVIOUS
<1>2. 0 \in T
  <2> DEFINE none == [seen |-> {}, out |-> <<>>]
  <2>1. none.seen = {} /\ Len(none.out) = 0
    OBVIOUS
  <2> HIDE DEF none
  <2>2. Marked(none, 0)
    BY <2>1 DEF Marked
  <2>3. MarkerLoop[0] = none
    BY MarkerLoopRuns DEF none
  <2> QED BY <1>1, <2>2, <2>3
<1>3. ASSUME NEW i \in 1..n, i - 1 \in T PROVE i \in T
  <2>1. MarkerLoop[i - 1] \in Markers /\ Marked(MarkerLoop[i - 1], i - 1)
    BY <1>1, <1>3, MarkerLoopRuns
  <2>2. Marked(AddMarker(MarkerLoop[i - 1], events[i]), i)
    BY <2>1, MarkerTurn
  <2>3. MarkerLoop[i] = AddMarker(MarkerLoop[i - 1], events[i])
    BY MarkerLoopRuns
  <2> QED BY <2>2, <2>3
<1> HIDE DEF T
<1>4. n \in T
  <2> HIDE DEF n
  <2>1. \A i \in 0..n : i \in T
    BY <1>1, <1>2, <1>3, BoundedInduction
  <2> QED BY <1>1, <2>1
<1> QED BY <1>1, <1>4, MarkerLoopRuns DEF T

\* The map leaves no source with an event to show out and marks none twice, for
\* lists of any length, filters and places.
THEOREM NoSourceLeftOut == PagesSpec => []MapComplete
<1>1. PagesInv => MapComplete
  <2> SUFFICES ASSUME PagesInv PROVE MapComplete
    OBVIOUS
  <2> DEFINE acc == MarkerLoop[Len(events)]
             n == Len(events)
             m == Len(acc.out)
  <2>1. events \in Seq(Ids) /\ n \in Nat /\ DOMAIN events = 1..n
    BY ListFacts DEF PagesInv
  <2>2. acc \in Markers /\ Marked(acc, n)
    BY <2>1, ThreatsMarked
  <2> HIDE DEF acc
  <2>3. acc.out \in Seq(Ids) /\ DOMAIN acc.out = 1..m /\ Threats = acc.out
    BY <2>2 DEF Markers, Threats, acc
  <2>4. {Source[e] : e \in Range(Threats)} = acc.seen
    <3>1. Range(Threats) = {acc.out[j] : j \in 1..m}
      BY <2>3 DEF Range
    <3>2. \A s : s \in {Source[e] : e \in Range(Threats)}
                 <=> \E j \in 1..m : s = Source[acc.out[j]]
      BY <3>1
    <3>3. \A s : s \in acc.seen <=> \E j \in 1..m : s = Source[acc.out[j]]
      <4>1. \A s \in acc.seen : \E j \in 1..m : s = Source[acc.out[j]]
        BY <2>2 DEF Marked
      <4>2. \A j \in 1..m : Source[acc.out[j]] \in acc.seen
        BY <2>2 DEF Marked
      <4> HIDE DEF m
      <4> QED BY <4>1, <4>2
    <3> QED BY <3>2, <3>3
  <2>5. {Source[e] : e \in {d \in Range(events) : OnMap(d)}} = acc.seen
    <3>1. Range(events) = {events[k] : k \in 1..n}
      BY <2>1 DEF Range
    <3>2. \A s : s \in {Source[e] : e \in {d \in Range(events) : OnMap(d)}}
                 <=> \E k \in 1..n : OnMap(events[k]) /\ s = Source[events[k]]
      BY <3>1
    <3>3. \A s : s \in acc.seen
                 <=> \E k \in 1..n : OnMap(events[k]) /\ s = Source[events[k]]
      <4>1. \A s \in acc.seen : \E k \in 1..n : OnMap(events[k]) /\ s = Source[events[k]]
        BY <2>2 DEF Marked
      <4>2. \A k \in 1..n : OnMap(events[k]) => Source[events[k]] \in acc.seen
        BY <2>2 DEF Marked
      <4> HIDE DEF n
      <4> QED BY <4>1, <4>2
    <3> QED BY <3>2, <3>3
  <2>6. \A i, j \in DOMAIN Threats : Source[Threats[i]] = Source[Threats[j]] => i = j
    BY <2>2, <2>3 DEF Marked
  <2> QED BY <2>4, <2>5, <2>6 DEF MapComplete
<1> QED BY <1>1, PagesInvariance, PTL

-----------------------------------------------------------------------------
(* Sums.  MapThenSumSet takes the entries in some order; the order does not *)
(* matter.                                                                 *)

\* Induction over the subsets of a finite set, for a set of them.
LEMMA SubsetInduction ==
  ASSUME NEW S, IsFiniteSet(S), NEW C, {} \in C,
         \A T \in SUBSET S, x \in S : T \in C /\ x \notin T => T \cup {x} \in C
  PROVE  S \in C
<1> DEFINE N == {n \in Nat : \A T \in SUBSET S : Cardinality(T) = n => T \in C}
<1>1. 0 \in N
  BY FS_Subset, FS_EmptySet
<1>2. ASSUME NEW n \in Nat, n \in N PROVE n + 1 \in N
  <2> SUFFICES ASSUME NEW T \in SUBSET S, Cardinality(T) = n + 1 PROVE T \in C
    OBVIOUS
  <2>1. IsFiniteSet(T) /\ T # {}
    BY FS_Subset, FS_EmptySet
  <2>2. PICK x \in T : TRUE
    BY <2>1
  <2> DEFINE U == T \ {x}
  <2>3. U \in SUBSET S /\ x \in S /\ x \notin U /\ U \cup {x} = T
    BY <2>2
  <2>4. Cardinality(U) = n
    <3>1. Cardinality(T \ {x}) = Cardinality(T) - 1
      BY <2>1, <2>2, FS_RemoveElement
    <3> QED BY <3>1
  <2> HIDE DEF U
  <2>5. U \in C
    BY <1>2, <2>3, <2>4
  <2> QED BY <2>3, <2>5
<1> HIDE DEF N
<1>3. \A n \in Nat : n \in N
  BY <1>1, <1>2, Induction
<1>4. Cardinality(S) \in N /\ S \in SUBSET S
  BY <1>3, FS_CardinalityType
<1> QED BY <1>4 DEF N

\* The entry MapThenSumSet takes next.
First(s) == CHOOSE x \in s : TRUE

SumBody(f, g) ==
  [s \in SUBSET DOMAIN f |-> IF s = {} THEN 0 ELSE f[First(s)] + g[s \ {First(s)}]]

\* The sums of f over the subsets of its domain.
PartialSums(f) == CHOOSE g : g = SumBody(f, g)

\* Total is the last of these sums.
LEMMA TotalIsSum == ASSUME NEW f PROVE Total(f) = PartialSums(f)[DOMAIN f]
BY DEF Total, MapThenSumSet, MapThenFoldSet, PartialSums, SumBody, First

\* Taking an entry leaves a smaller set.
LEMMA FirstFacts ==
  ASSUME NEW S, IsFiniteSet(S), NEW s \in SUBSET S, s # {}
  PROVE  /\ First(s) \in s /\ s \ {First(s)} \in SUBSET S
         /\ Cardinality(s) \in Nat
         /\ Cardinality(s \ {First(s)}) = Cardinality(s) - 1
<1>1. First(s) \in s
  BY DEF First
<1>2. IsFiniteSet(s) /\ Cardinality(s) \in Nat
  BY FS_Subset, FS_CardinalityType
<1>3. Cardinality(s \ {First(s)}) = Cardinality(s) - 1
  BY <1>1, <1>2, FS_RemoveElement
<1> QED BY <1>1, <1>2, <1>3

\* The sums exist: those of the sets with n + 1 entries from those with n.
LEMMA SumsExist ==
  ASSUME NEW S, IsFiniteSet(S), NEW f \in [S -> Nat]
  PROVE  \E g : g = SumBody(f, g)
<1> DEFINE Small(n) == {s \in SUBSET S : Cardinality(s) <= n}
           Value(g, s) == IF s = {} THEN 0 ELSE f[First(s)] + g[s \ {First(s)}]
           Sums(g, n) == g \in [Small(n) -> Nat] /\ \A s \in Small(n) : g[s] = Value(g, s)
           N == {n \in Nat : \E g : Sums(g, n)}
<1>1. 0 \in N
  <2> DEFINE g == [s \in Small(0) |-> 0]
  <2>1. ASSUME NEW s \in Small(0) PROVE s = {}
    <3>1. IsFiniteSet(s) /\ Cardinality(s) \in Nat /\ Cardinality(s) <= 0
      BY FS_Subset, FS_CardinalityType
    <3> QED BY <3>1, FS_EmptySet
  <2>2. Sums(g, 0)
    BY <2>1
  <2> QED BY <2>2
<1>2. ASSUME NEW n \in Nat, n \in N PROVE n + 1 \in N
  <2>1. PICK g : Sums(g, n)
    BY <1>2
  <2> DEFINE h == [s \in Small(n + 1) |-> Value(g, s)]
  <2>2. ASSUME NEW s \in Small(n + 1), s # {}
        PROVE  First(s) \in S /\ s \ {First(s)} \in Small(n) /\ s \ {First(s)} \in Small(n + 1)
    <3>1. s \in SUBSET S /\ Cardinality(s) <= n + 1
      OBVIOUS
    <3>2. /\ First(s) \in s /\ s \ {First(s)} \in SUBSET S
          /\ Cardinality(s) \in Nat /\ Cardinality(s \ {First(s)}) = Cardinality(s) - 1
      BY <2>2, <3>1, FirstFacts
    <3>3. Cardinality(s \ {First(s)}) <= n /\ Cardinality(s \ {First(s)}) <= n + 1
      BY <3>1, <3>2
    <3> QED BY <3>1, <3>2, <3>3
  <2>3. \A s \in Small(n) : s \in Small(n + 1)
    <3> TAKE s \in Small(n)
    <3>1. Cardinality(s) \in Nat
      BY FS_Subset, FS_CardinalityType
    <3> QED BY <3>1
  <2> HIDE DEF Small
  <2>4. \A s \in Small(n + 1) : Value(g, s) \in Nat
    BY <2>1, <2>2
  <2>5. h \in [Small(n + 1) -> Nat]
    BY <2>4
  <2>6. \A s \in Small(n) : h[s] = g[s]
    BY <2>1, <2>3
  <2>7. \A s \in Small(n + 1) : h[s] = Value(h, s)
    BY <2>2, <2>6
  <2>8. Sums(h, n + 1)
    BY <2>5, <2>7
  <2> HIDE DEF h, Sums
  <2>9. \E k : Sums(k, n + 1)
    BY <2>8
  <2> QED BY <2>9
<1> HIDE DEF N
<1>3. \A n \in Nat : n \in N
  BY <1>1, <1>2, Induction
<1>4. Cardinality(S) \in Nat
  BY FS_CardinalityType
<1>5. PICK g : Sums(g, Cardinality(S))
  BY <1>3, <1>4 DEF N
<1>6. Small(Cardinality(S)) = SUBSET S
  BY FS_Subset
<1> HIDE DEF Small
<1>7. g = SumBody(f, g)
  BY <1>5, <1>6 DEF SumBody
<1> QED BY <1>7

\* p holds the sums of f over the subsets of S.
AreSums(p, f, S) ==
  /\ p \in [SUBSET S -> Nat]
  /\ p[{}] = 0
  /\ \A s \in SUBSET S : s # {} => p[s] = f[First(s)] + p[s \ {First(s)}]

\* The sums are numbers.
LEMMA SumsFacts ==
  ASSUME NEW S, IsFiniteSet(S), NEW f \in [S -> Nat]
  PROVE  AreSums(PartialSums(f), f, S)
<1> DEFINE p == PartialSums(f)
           N == {n \in Nat : \A s \in SUBSET S : Cardinality(s) = n => p[s] \in Nat}
<1>1. p = SumBody(f, p)
  BY SumsExist DEF PartialSums
<1> HIDE DEF p
<1>2. /\ p[{}] = 0 /\ DOMAIN p = SUBSET S
      /\ \A s \in SUBSET S : s # {} => p[s] = f[First(s)] + p[s \ {First(s)}]
  BY <1>1 DEF SumBody
<1>3. 0 \in N
  BY <1>2, FS_Subset, FS_EmptySet
<1>4. ASSUME NEW n \in Nat, n \in N PROVE n + 1 \in N
  <2> SUFFICES ASSUME NEW s \in SUBSET S, Cardinality(s) = n + 1 PROVE p[s] \in Nat
    OBVIOUS
  <2>1. s # {}
    BY FS_EmptySet
  <2>2. /\ First(s) \in s /\ s \ {First(s)} \in SUBSET S
        /\ Cardinality(s \ {First(s)}) = n
    BY <2>1, FirstFacts
  <2>3. p[s \ {First(s)}] \in Nat
    BY <1>4, <2>2
  <2> QED BY <1>2, <2>1, <2>2, <2>3
<1> HIDE DEF N
<1>5. \A n \in Nat : n \in N
  BY <1>3, <1>4, Induction
<1>6. \A s \in SUBSET S : p[s] \in Nat
  BY <1>5, FS_Subset, FS_CardinalityType DEF N
<1>7. p \in [SUBSET S -> Nat]
  <2>1. p = [s \in SUBSET S |-> p[s]]
    BY <1>1 DEF SumBody
  <2> QED BY <1>6, <2>1
<1> QED BY <1>2, <1>7 DEF p, AreSums

\* Any entry may be taken first.
LEMMA SumRemove ==
  ASSUME NEW S, IsFiniteSet(S), NEW f \in [S -> Nat], NEW V \in SUBSET S, NEW y \in V
  PROVE  PartialSums(f)[V] = f[y] + PartialSums(f)[V \ {y}]
<1> DEFINE p == PartialSums(f)
           N == {n \in Nat : \A T \in SUBSET S : Cardinality(T) = n =>
                   \A x \in T : p[T] = f[x] + p[T \ {x}]}
<1>1. /\ p \in [SUBSET S -> Nat] /\ p[{}] = 0
      /\ \A s \in SUBSET S : s # {} => p[s] = f[First(s)] + p[s \ {First(s)}]
  <2>1. AreSums(p, f, S)
    BY SumsFacts
  <2> HIDE DEF p
  <2> QED BY <2>1 DEF AreSums
<1> HIDE DEF p
<1>2. 0 \in N
  BY FS_Subset, FS_EmptySet
<1>3. ASSUME NEW n \in Nat, n \in N PROVE n + 1 \in N
  <2> SUFFICES ASSUME NEW T \in SUBSET S, Cardinality(T) = n + 1, NEW x \in T
               PROVE  p[T] = f[x] + p[T \ {x}]
    OBVIOUS
  <2> DEFINE c == First(T)
             A == T \ {c}
             B == T \ {x}
  <2>1. /\ c \in T /\ A \in SUBSET S /\ Cardinality(A) = n
        /\ p[T] = f[c] + p[A]
    <3>1. /\ c \in T /\ A \in SUBSET S /\ Cardinality(A) = Cardinality(T) - 1
      BY FirstFacts
    <3> QED BY <1>1, <3>1
  <2>2. B \in SUBSET S /\ Cardinality(B) = n
    <3>1. IsFiniteSet(T)
      BY FS_Subset
    <3>2. Cardinality(T \ {x}) = Cardinality(T) - 1
      BY <3>1, FS_RemoveElement
    <3> QED BY <3>2
  <2>3. CASE x = c
    BY <2>1, <2>3
  <2>4. CASE x # c
    <3>1. x \in A /\ c \in B /\ A \ {x} = B \ {c} /\ A \ {x} \in SUBSET S
      BY <2>1, <2>4
    <3> HIDE DEF A, B, c
    <3>2. p[A] = f[x] + p[A \ {x}] /\ p[B] = f[c] + p[B \ {c}]
      BY <1>3, <2>1, <2>2, <3>1
    <3>3. f[x] \in Nat /\ f[c] \in Nat /\ p[A \ {x}] \in Nat
      BY <1>1, <2>1, <3>1
    <3> DEFINE q == p[A \ {x}]
    <3>4. p[T] = f[c] + (f[x] + q) /\ p[B] = f[c] + q /\ q \in Nat
      BY <2>1, <3>1, <3>2, <3>3
    <3> HIDE DEF q
    <3>5. p[T] = f[x] + p[B]
      BY <3>3, <3>4
    <3> QED BY <3>5 DEF B
  <2> QED BY <2>3, <2>4
<1> HIDE DEF N
<1>4. \A n \in Nat : n \in N
  BY <1>2, <1>3, Induction
<1>5. \A T \in SUBSET S : \A x \in T : p[T] = f[x] + p[T \ {x}]
  BY <1>4, FS_Subset, FS_CardinalityType DEF N
<1> QED BY <1>5 DEF p

\* A quantity that grows by f[x] when x is added, from 0, is the total of f.
LEMMA TotalByParts ==
  ASSUME NEW S, IsFiniteSet(S), NEW f \in [S -> Nat], NEW g, g[{}] = 0,
         \A T \in SUBSET S, x \in S : x \notin T => g[T \cup {x}] = f[x] + g[T]
  PROVE  Total(f) = g[S]
<1> DEFINE p == PartialSums(f)
           C == {T \in SUBSET S : p[T] = g[T]}
<1>1. p[{}] = 0
  <2>1. AreSums(p, f, S)
    BY SumsFacts
  <2> HIDE DEF p
  <2> QED BY <2>1 DEF AreSums
<1>2. \A T \in SUBSET S : \A x \in T : p[T] = f[x] + p[T \ {x}]
  <2> SUFFICES ASSUME NEW T \in SUBSET S, NEW x \in T
               PROVE  PartialSums(f)[T] = f[x] + PartialSums(f)[T \ {x}]
    OBVIOUS
  <2> QED BY SumRemove
<1> HIDE DEF p
<1>3. {} \in C
  BY <1>1
<1>4. ASSUME NEW T \in SUBSET S, NEW x \in S, T \in C, x \notin T
      PROVE  T \cup {x} \in C
  <2> DEFINE U == T \cup {x}
  <2>1. U \in SUBSET S /\ x \in U /\ U \ {x} = T
    BY <1>4
  <2> HIDE DEF U
  <2>2. p[U] = f[x] + p[T]
    BY <1>2, <2>1
  <2>3. g[U] = f[x] + g[T]
    BY <1>4 DEF U
  <2> QED BY <1>4, <2>1, <2>2, <2>3 DEF U
<1> HIDE DEF C
<1>5. S \in C
  BY <1>3, <1>4, SubsetInduction
<1> QED BY <1>5, TotalIsSum DEF C, p

\* The sizes of the fibres of h add up to the size of its domain.
LEMMA Fibres ==
  ASSUME NEW X, IsFiniteSet(X), NEW Y, IsFiniteSet(Y), NEW h \in [X -> Y]
  PROVE  Total([y \in Y |-> Cardinality({x \in X : h[x] = y})]) = Cardinality(X)
<1> DEFINE Over(T) == {x \in X : h[x] \in T}
           Fibre(y) == {x \in X : h[x] = y}
           f == [y \in Y |-> Cardinality(Fibre(y))]
           g == [T \in SUBSET Y |-> Cardinality(Over(T))]
<1>1. ASSUME NEW A \in SUBSET X PROVE IsFiniteSet(A) /\ Cardinality(A) \in Nat
  BY FS_Subset, FS_CardinalityType
<1>2. f \in [Y -> Nat]
  BY <1>1
<1>3. Over({}) = {} /\ Over(Y) = X
  OBVIOUS
<1>4. g[{}] = 0 /\ g[Y] = Cardinality(X)
  <2> HIDE DEF Over
  <2> QED BY <1>3, FS_EmptySet
<1>5. ASSUME NEW T \in SUBSET Y, NEW y \in Y, y \notin T
      PROVE  g[T \cup {y}] = f[y] + g[T]
  <2>1. /\ Over(T \cup {y}) = Fibre(y) \cup Over(T) /\ Fibre(y) \cap Over(T) = {}
        /\ Over(T) \in SUBSET X /\ Fibre(y) \in SUBSET X
    BY <1>5
  <2> HIDE DEF Over, Fibre
  <2>2. Cardinality(Fibre(y) \cup Over(T)) = Cardinality(Fibre(y)) + Cardinality(Over(T))
    <3> DEFINE A == Fibre(y)
               B == Over(T)
    <3>1. IsFiniteSet(A) /\ IsFiniteSet(B) /\ Cardinality(A) \in Nat /\ Cardinality(B) \in Nat
      BY <1>1, <2>1
    <3>2. Cardinality(A \cup B) = Cardinality(A) + Cardinality(B) - Cardinality(A \cap B)
      BY <3>1, FS_Union
    <3>3. Cardinality(A \cap B) = 0
      BY <2>1, FS_EmptySet
    <3> QED BY <3>1, <3>2, <3>3
  <2> QED BY <2>1, <2>2
<1> HIDE DEF g
<1>6. Total(f) = g[Y]
  <2> HIDE DEF f
  <2> QED BY <1>2, <1>4, <1>5, TotalByParts
<1> QED BY <1>4, <1>6

\* Ones and zeros add up to the number of ones.
LEMMA Ones ==
  ASSUME NEW S, IsFiniteSet(S), NEW A \in SUBSET S
  PROVE  Total([x \in S |-> IF x \in A THEN 1 ELSE 0]) = Cardinality(A)
<1> DEFINE f == [x \in S |-> IF x \in A THEN 1 ELSE 0]
           g == [T \in SUBSET S |-> Cardinality(T \cap A)]
<1>1. f \in [S -> Nat]
  OBVIOUS
<1>2. g[{}] = 0 /\ g[S] = Cardinality(A)
  <2>1. {} \cap A = {} /\ S \cap A = A
    OBVIOUS
  <2> QED BY <2>1, FS_EmptySet
<1>3. ASSUME NEW T \in SUBSET S, NEW x \in S, x \notin T
      PROVE  g[T \cup {x}] = f[x] + g[T]
  <2>1. T \cap A \in SUBSET S
    OBVIOUS
  <2>2. IsFiniteSet(T \cap A) /\ Cardinality(T \cap A) \in Nat
    BY <2>1, FS_Subset, FS_CardinalityType
  <2>3. CASE x \in A
    <3>1. (T \cup {x}) \cap A = (T \cap A) \cup {x} /\ x \notin T \cap A
      BY <1>3, <2>3
    <3>2. Cardinality((T \cap A) \cup {x}) = Cardinality(T \cap A) + 1
      BY <2>2, <3>1, FS_AddElement
    <3> QED BY <2>2, <2>3, <3>1, <3>2
  <2>4. CASE x \notin A
    <3>1. (T \cup {x}) \cap A = T \cap A
      BY <2>4
    <3>2. g[T \cup {x}] = g[T] /\ g[T] \in Nat /\ f[x] = 0
      BY <2>2, <2>4, <3>1
    <3> QED BY <3>2
  <2> QED BY <2>3, <2>4
<1> HIDE DEF g
<1>4. Total(f) = g[S]
  <2> HIDE DEF f
  <2> QED BY <1>1, <1>2, <1>3, TotalByParts
<1> QED BY <1>2, <1>4

-----------------------------------------------------------------------------
(* The figures.                                                            *)

\* The entries of the list that are flagged.
FlaggedRows == {i \in 1..Len(events) : events[i] \in Flagged}

\* Rows of the list are finitely many, and counting them means their number.
LEMMA RowFacts ==
  ASSUME events \in Lists
  PROVE  /\ Len(events) \in Nat /\ DOMAIN events = 1..Len(events)
         /\ \A i \in 1..Len(events) : events[i] \in Ids
         /\ \A A \in SUBSET (1..Len(events)) : IsFiniteSet(A) /\ Cardinality(A) \in Nat
         /\ Cardinality(1..Len(events)) = Len(events)
         /\ ActiveAlerts = Cardinality(FlaggedRows)
<1>1. /\ events \in Seq(Ids) /\ Len(events) \in Nat /\ DOMAIN events = 1..Len(events)
  BY ListFacts
<1>2. \A i \in 1..Len(events) : events[i] \in Ids
  BY <1>1
<1>3. IsFiniteSet(1..Len(events)) /\ Cardinality(1..Len(events)) = Len(events)
  BY <1>1, FS_Interval
<1>4. \A A \in SUBSET (1..Len(events)) : IsFiniteSet(A) /\ Cardinality(A) \in Nat
  BY <1>3, FS_Subset, FS_CardinalityType
<1>5. ActiveAlerts = Cardinality(FlaggedRows)
  BY <1>1 DEF ActiveAlerts, Count, FlaggedRows
<1> QED BY <1>1, <1>2, <1>3, <1>4, <1>5

\* The volume chart, which runs from the oldest event to the newest.
LEMMA VolumeAgrees ==
  ASSUME events \in Lists
  PROVE  Total([i \in DOMAIN History |-> History[i].fraud]) = ActiveAlerts
<1> DEFINE n == Len(events)
           A == {i \in 1..n : events[n + 1 - i] \in Flagged}
           X == FlaggedRows
           f == [i \in 1..n |-> IF i \in A THEN 1 ELSE 0]
           turn == [i \in A |-> n + 1 - i]
<1>1. n \in Nat /\ DOMAIN events = 1..n
  BY RowFacts
<1>2. [i \in DOMAIN History |-> History[i].fraud] = f
  BY <1>1 DEF History
<1>3. IsFiniteSet(1..n) /\ A \in SUBSET (1..n)
  BY RowFacts
<1>4. Total(f) = Cardinality(A)
  <2> HIDE DEF A, n
  <2> QED BY <1>3, Ones
<1>5. \A i \in A : n + 1 - i \in X
  BY <1>1 DEF FlaggedRows
<1>6. \A k \in X : n + 1 - k \in A /\ n + 1 - (n + 1 - k) = k
  BY <1>1 DEF FlaggedRows
<1>7. A \subseteq Int /\ n \in Int
  BY <1>1
<1>8. ExistsBijection(A, X)
  <2> HIDE DEF A, X, n
  <2>1. turn \in [A -> X] /\ \A i \in A : turn[i] = n + 1 - i
    BY <1>5
  <2>2. \A i, j \in A : turn[i] = turn[j] => i = j
    BY <1>7, <2>1
  <2>3. \A k \in X : \E i \in A : turn[i] = k
    BY <1>6, <2>1
  <2> HIDE DEF turn
  <2>4. turn \in Bijection(A, X)
    BY <2>1, <2>2, <2>3 DEF Bijection, Injection, Surjection, IsInjective
  <2> QED BY <2>4 DEF ExistsBijection
<1>9. IsFiniteSet(A)
  BY <1>3, RowFacts
<1>10. Cardinality(X) = Cardinality(A)
  <2> HIDE DEF A, X
  <2> QED BY <1>8, <1>9, FS_Bijection
<1> QED BY <1>2, <1>4, <1>10, RowFacts

\* The slices of the typology chart.
LEMMA TypologyAgrees ==
  ASSUME events \in Lists
  PROVE  Total(FraudTypes) = ActiveAlerts
<1> DEFINE X == FlaggedRows
           Y == {EventType[e] : e \in Flagged \cap Range(events)}
           h == [i \in X |-> EventType[events[i]]]
<1>1. DOMAIN events = 1..Len(events) /\ IsFiniteSet(X)
  BY RowFacts DEF FlaggedRows
<1>2. \A i \in X : EventType[events[i]] \in Y
  BY <1>1 DEF FlaggedRows, Range
<1>3. \A y \in Y : \E i \in X : EventType[events[i]] = y
  BY <1>1 DEF FlaggedRows, Range
<1>4. \A y \in Y : Count({e \in Flagged : EventType[e] = y})
                     = Cardinality({i \in X : h[i] = y})
  <2> TAKE y \in Y
  <2>1. {i \in DOMAIN events : events[i] \in {e \in Flagged : EventType[e] = y}}
          = {i \in X : h[i] = y}
    BY <1>1 DEF FlaggedRows
  <2> QED BY <2>1 DEF Count
<1>5. FraudTypes = [y \in Y |-> Cardinality({i \in X : h[i] = y})]
  <2>1. FraudTypes = [y \in Y |-> Count({e \in Flagged : EventType[e] = y})]
    BY DEF FraudTypes
  <2> HIDE DEF X, Y, h
  <2> QED BY <1>4, <2>1
<1> HIDE DEF X, Y
<1>6. h \in [X -> Y] /\ h \in Surjection(X, Y)
  BY <1>2, <1>3 DEF Surjection
<1> HIDE DEF h
<1>7. IsFiniteSet(Y)
  BY <1>1, <1>6, FS_Surjection
<1>8. Total([y \in Y |-> Cardinality({i \in X : h[i] = y})]) = Cardinality(X)
  BY <1>1, <1>6, <1>7, Fibres
<1> QED BY <1>5, <1>8, RowFacts DEF X

\* The bars of the decisions that count as fraud.
LEMMA DecisionsAgree ==
  ASSUME events \in Lists
  PROVE  Total([a \in DOMAIN ActionBreakdown \cap {"BLOCK", "CHALLENGE"} |->
                  ActionBreakdown[a]]) = ActiveAlerts
<1> DEFINE X == FlaggedRows
           Y == {a \in {"BLOCK", "CHALLENGE"} : Count(With(a)) > 0}
           h == [i \in X |-> Action[events[i]]]
<1>1. DOMAIN events = 1..Len(events) /\ IsFiniteSet(X)
  BY RowFacts DEF FlaggedRows
<1>2. DOMAIN ActionBreakdown \cap {"BLOCK", "CHALLENGE"} = Y
  BY DEF ActionBreakdown, Actions
<1>3. \A a \in {"BLOCK", "CHALLENGE"} : Count(With(a)) = Cardinality({i \in X : h[i] = a})
  <2> TAKE a \in {"BLOCK", "CHALLENGE"}
  <2>1. {i \in DOMAIN events : events[i] \in With(a)} = {i \in X : h[i] = a}
    BY <1>1, RowFacts DEF FlaggedRows, Flagged, With
  <2> QED BY <2>1 DEF Count
<1>4. \A a \in Y : ActionBreakdown[a] = Cardinality({i \in X : h[i] = a})
  <2>1. \A a \in Y : ActionBreakdown[a] = Count(With(a))
    BY DEF ActionBreakdown, Actions
  <2> QED BY <1>3, <2>1
<1>5. \A i \in X : h[i] \in Y
  <2> TAKE i \in X
  <2> DEFINE F == {j \in X : h[j] = h[i]}
  <2>1. h[i] \in {"BLOCK", "CHALLENGE"}
    BY DEF FlaggedRows, Flagged
  <2>2. F \in SUBSET (1..Len(events)) /\ F # {}
    BY DEF FlaggedRows
  <2>3. Count(With(h[i])) = Cardinality(F)
    BY <1>3, <2>1
  <2> HIDE DEF F, h, X
  <2>4. IsFiniteSet(F) /\ Cardinality(F) \in Nat
    BY <2>2, RowFacts
  <2>5. Cardinality(F) # 0
    BY <2>2, <2>4, FS_EmptySet
  <2> QED BY <2>1, <2>3, <2>4, <2>5
<1>6. IsFiniteSet(Y)
  <2>1. Y \in SUBSET {"BLOCK", "CHALLENGE"} /\ {"BLOCK", "CHALLENGE"} = {"BLOCK"} \cup {"CHALLENGE"}
    OBVIOUS
  <2>2. IsFiniteSet({"BLOCK"} \cup {"CHALLENGE"})
    BY FS_Singleton, FS_Union
  <2> HIDE DEF Y
  <2> QED BY <2>1, <2>2, FS_Subset
<1>7. h \in [X -> Y]
  <2>1. h = [i \in X |-> h[i]]
    OBVIOUS
  <2> HIDE DEF h, X, Y
  <2> QED BY <1>5, <2>1
<1> HIDE DEF X, Y, h
<1>8. Total([y \in Y |-> Cardinality({i \in X : h[i] = y})]) = Cardinality(X)
  BY <1>1, <1>6, <1>7, Fibres
<1>9. [a \in DOMAIN ActionBreakdown \cap {"BLOCK", "CHALLENGE"} |-> ActionBreakdown[a]]
        = [y \in Y |-> Cardinality({i \in X : h[i] = y})]
  BY <1>2, <1>4
<1> QED BY <1>8, <1>9, RowFacts DEF X

\* A score has one of five buckets.
LEMMA BucketType == \A s \in 0..100 : Bucket(s) \in 0..4
BY DEF Bucket

\* The bars of the score distribution.
LEMMA ScoresAgree ==
  ASSUME events \in Lists
  PROVE  Total(ScoreBuckets) = Len(events)
<1> DEFINE X == 1..Len(events)
           Y == 0..4
           h == [i \in X |-> Bucket(Score[events[i]])]
<1>1. DOMAIN events = X /\ IsFiniteSet(X) /\ Cardinality(X) = Len(events)
  BY RowFacts
<1>2. IsFiniteSet(Y)
  <2>1. 0 \in Int /\ 4 \in Int
    OBVIOUS
  <2> QED BY <2>1, FS_Interval, Zenon
<1>3. h \in [X -> Y]
  BY BucketType, RowFacts, FiguresAssumption
<1>4. \A b \in Y : Count({e \in Ids : Bucket(Score[e]) = b})
                     = Cardinality({i \in X : h[i] = b})
  <2> TAKE b \in Y
  <2>1. {i \in DOMAIN events : events[i] \in {e \in Ids : Bucket(Score[e]) = b}}
          = {i \in X : h[i] = b}
    BY <1>1, RowFacts
  <2> QED BY <2>1 DEF Count
<1>5. ScoreBuckets = [b \in Y |-> Cardinality({i \in X : h[i] = b})]
  <2>1. ScoreBuckets = [b \in Y |-> Count({e \in Ids : Bucket(Score[e]) = b})]
    BY DEF ScoreBuckets
  <2> HIDE DEF X, Y, h
  <2> QED BY <1>4, <2>1
<1>6. IsFiniteSet(X)
  BY <1>1
<1> HIDE DEF X, Y, h
<1>7. Total([b \in Y |-> Cardinality({i \in X : h[i] = b})]) = Cardinality(X)
  BY <1>2, <1>3, <1>6, Fibres
<1> QED BY <1>1, <1>5, <1>7

\* Shares of disjoint parts do not exceed the whole, whatever rounding takes off.
LEMMA Percentages ==
  ASSUME NEW n \in Nat \ {0}, NEW b \in Nat, NEW c \in Nat, b + c <= n
  PROVE  (b * 100) \div n + (c * 100) \div n \in 0..100
<1> DEFINE p == (b * 100) \div n
           q == (c * 100) \div n
<1>1. p \in Nat /\ p * n <= b * 100
  OBVIOUS
<1>2. q \in Nat /\ q * n <= c * 100
  OBVIOUS
<1> HIDE DEF p, q
<1>3. (p + q) * n <= 100 * n
  BY <1>1, <1>2
<1>4. p + q <= 100
  BY <1>1, <1>2, <1>3
<1> QED BY <1>1, <1>2, <1>4 DEF p, q

\* The gauges.
LEMMA GaugesAgree ==
  ASSUME events \in Lists
  PROVE  Posture.blocked + Posture.challenged \in 0..100
<1> DEFINE n == Len(events)
           B == {i \in 1..n : events[i] \in With("BLOCK")}
           C == {i \in 1..n : events[i] \in With("CHALLENGE")}
           b == Count(With("BLOCK"))
           c == Count(With("CHALLENGE"))
<1>1. /\ DOMAIN events = 1..n /\ n \in Nat /\ IsFiniteSet(1..n) /\ Cardinality(1..n) = n
  BY RowFacts
<1>2. b = Cardinality(B) /\ c = Cardinality(C)
  BY <1>1 DEF Count
<1>3. B \cap C = {} /\ B \cup C \in SUBSET (1..n) /\ B \in SUBSET (1..n) /\ C \in SUBSET (1..n)
  BY DEF With
<1> HIDE DEF B, C, b, c
<1>4. b \in Nat /\ c \in Nat /\ b + c <= n
  <2>1. IsFiniteSet(B) /\ IsFiniteSet(C) /\ b \in Nat /\ c \in Nat
    BY <1>2, <1>3, RowFacts
  <2>2. Cardinality(B \cup C) = b + c - Cardinality(B \cap C)
    BY <1>2, <2>1, FS_Union
  <2>3. Cardinality(B \cap C) = 0
    BY <1>3, FS_EmptySet
  <2>4. Cardinality(B \cup C) <= n
    <3> DEFINE U == B \cup C
               V == 1..n
    <3>1. IsFiniteSet(V) /\ U \in SUBSET V /\ Cardinality(V) = n
      BY <1>1, <1>3
    <3> HIDE DEF U, V
    <3>2. Cardinality(U) <= Cardinality(V)
      BY <3>1, FS_Subset
    <3> QED BY <3>1, <3>2 DEF U
  <2> QED BY <2>1, <2>2, <2>3, <2>4
<1>5. CASE events = <<>>
  <2>1. Posture = [blocked |-> 0, challenged |-> 0]
    BY <1>5 DEF Posture
  <2> QED BY <2>1
<1>6. CASE events # <<>>
  <2>1. n \in Nat \ {0}
    BY <1>1, <1>6, ListFacts
  <2>2. Posture = [blocked |-> (b * 100) \div n, challenged |-> (c * 100) \div n]
    BY <1>6 DEF Posture, b, c
  <2>3. (b * 100) \div n + (c * 100) \div n \in 0..100
    BY <1>4, <2>1, Percentages
  <2> QED BY <2>2, <2>3
<1> QED BY <1>5, <1>6

\* The figures of the pages agree, for lists of any length, any events and any
\* scores.
THEOREM FiguresMatch == PagesSpec => []FiguresAgree
<1>1. PagesInv => FiguresAgree
  BY VolumeAgrees, TypologyAgrees, DecisionsAgree, ScoresAgree, GaugesAgree
     DEF PagesInv, FiguresAgree
<1> QED BY <1>1, PagesInvariance, PTL

=============================================================================
