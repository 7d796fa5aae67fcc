---------------------------- MODULE RulesConsole ----------------------------
(***************************************************************************)
(* dashboard: the Rules page, composed with the engine it manages.  The    *)
(* page lists the rules (useRules), edits one in a modal and deletes one   *)
(* after a confirmation.  A request of the page is a request of            *)
(* RulesEngine with page = TRUE.  The modal and the confirmation can be    *)
(* closed, and others opened, while a request runs.                        *)
(*                                                                         *)
(* No answer with a rule in it succeeds (Answer): a save always fails, so  *)
(* the branch of save() that announces it, closes the modal and loads the  *)
(* list is not reached; and the list is either empty or DEMO_RULES.        *)
(***************************************************************************)
EXTENDS RulesEngine

CONSTANTS
  Loads,      \* loads of the list that may be in flight
  MaxLoads    \* bound: loads of the list

ASSUME LoadsAssumption == MaxLoads \in Nat

VARIABLES
  list,      \* list[q]: the answer of a load of the list
  loads,     \* loads so far
  rules,     \* state of useRules, as the next three: the rules listed
  demo,
  error,
  loading,
  editor,    \* the rule in the modal, {} when it is closed
  filled,    \* its form has a name and an expression
  saving,    \* the request the open modal waits for
  confirm    \* the rule in the delete confirmation, {} when it is closed

listVars  == <<list, loads, rules, demo, error, loading>>
modalVars == <<editor, filled, saving, confirm>>
vars == <<engineVars, listVars, modalVars>>

\* DEMO_RULES, with ids that rules of the table may have.
DemoRules == Rules

\* The first load is on its way when the page is shown.
Init ==
  /\ EngineInit
  /\ \E q \in Loads : list = [p \in Loads |-> IF p = q THEN "asked" ELSE "idle"]
  /\ loads = 1
  /\ rules = {} /\ demo = FALSE /\ error = FALSE /\ loading = TRUE
  /\ editor = {} /\ filled = FALSE /\ saving = {} /\ confirm = {}

-----------------------------------------------------------------------------
(* useRules.                                                               *)

\* refresh(), with no regard to the loads in flight.  Beyond MaxLoads the page
\* does without.
StartLoad ==
  IF loads < MaxLoads /\ \E q \in Loads : list[q] = "idle"
  THEN \E q \in Loads :
         /\ list[q] = "idle"
         /\ list' = [list EXCEPT ![q] = "asked"]
         /\ loads' = loads + 1
         /\ loading' = TRUE
         /\ UNCHANGED <<rules, demo, error>>
  ELSE UNCHANGED listVars

\* The refresh button.
Refresh ==
  /\ loads < MaxLoads
  /\ StartLoad
  /\ UNCHANGED <<engineVars, modalVars>>

\* GET /rules/ of an empty table; a list with a rule in it is not answered.
AnswerList(q) ==
  /\ LoopFree
  /\ list[q] = "asked"
  /\ \A r \in Rules : db[r] = Absent
  /\ list' = [list EXCEPT ![q] = "empty"]
  /\ UNCHANGED <<engineVars, loads, rules, demo, error, loading, modalVars>>

\* The answer is shown, also when a later load was shown before.
ListShown(q) ==
  /\ list[q] = "empty"
  /\ rules' = {}
  /\ demo' = FALSE /\ error' = FALSE /\ loading' = FALSE
  /\ list' = [list EXCEPT ![q] = "idle"]
  /\ UNCHANGED <<engineVars, loads, modalVars>>

\* Seeded fault: only a load that succeeds ends the spinner.
SpinnerKept == loading

\* The finally block of refresh().
SpinnerEnds == FALSE

\* An error status, as for a list with a rule in it, or no answer: DEMO_RULES, or
\* the message of an error that is not recognised as one of these.
ListFailed(q) ==
  /\ list[q] = "asked"
  /\ \/ rules' = DemoRules /\ demo' = TRUE /\ error' = FALSE
     \/ error' = TRUE /\ UNCHANGED <<rules, demo>>
  /\ loading' = SpinnerEnds
  /\ list' = [list EXCEPT ![q] = "idle"]
  /\ UNCHANGED <<engineVars, loads, modalVars>>

-----------------------------------------------------------------------------
(* The modal.                                                              *)

\* New Rule with an empty form, whatever id is typed, or the pencil of a row with
\* the values of its rule.  The search field and the filter only hide rows.
OpenEditor(r) ==
  /\ editor = {} /\ confirm = {}
  /\ \E kind \in {"create"} \cup (IF r \in rules THEN {"update"} ELSE {}) :
       /\ editor' = {[rule |-> r, kind |-> kind]}
       /\ filled' = (kind = "update")
  /\ UNCHANGED <<engineVars, listVars, saving, confirm>>

\* Typing, or a click on a feature; also while the form is being saved.
Type ==
  /\ editor # {}
  /\ filled' = ~filled
  /\ UNCHANGED <<engineVars, listVars, editor, saving, confirm>>

\* Cancel, the cross or a click beside the modal, also while it is saving.
CloseEditor ==
  /\ editor # {}
  /\ editor' = {} /\ filled' = FALSE /\ saving' = {}
  /\ UNCHANGED <<engineVars, listVars, confirm>>

\* The button of a form that is filled and not being saved.
Save(h) ==
  /\ saving = {} /\ filled
  /\ \E e \in editor : Arrive(h, e.kind, e.rule, TRUE)
  /\ saving' = {h}
  /\ UNCHANGED <<listVars, editor, filled, confirm>>

\* setSaving(false) in the modal that waits for h; a closed one is no more.
SavingEnds(h) == saving \ {h}

\* An error status: a toast and a message in the modal, which stays.
SaveFailed(h) ==
  /\ hs[h].pc = "error" /\ hs[h].kind \in {"create", "update"}
  /\ hs' = [hs EXCEPT ![h] = Idle]
  /\ saving' = SavingEnds(h)
  /\ UNCHANGED <<db, writes, cache, filling, ops, cacheAt, missed, listVars,
                 editor, filled, confirm>>

-----------------------------------------------------------------------------
(* The delete confirmation.                                                *)

AskDelete(r) ==
  /\ editor = {} /\ confirm = {}
  /\ r \in rules
  /\ confirm' = {r}
  /\ UNCHANGED <<engineVars, listVars, editor, filled, saving>>

CancelDelete ==
  /\ confirm # {}
  /\ confirm' = {}
  /\ UNCHANGED <<engineVars, listVars, editor, filled, saving>>

\* The button stays enabled: a second click sends a second request.
Remove(h) ==
  /\ \E r \in confirm : Arrive(h, "delete", r, TRUE)
  /\ UNCHANGED <<listVars, modalVars>>

\* Either answer closes whichever confirmation is open; a success loads the
\* list again.
Removed(h) ==
  /\ hs[h].pc \in {"ok", "error"} /\ hs[h].kind = "delete"
  /\ hs' = [hs EXCEPT ![h] = Idle]
  /\ confirm' = {}
  /\ IF hs[h].pc = "ok" THEN StartLoad ELSE UNCHANGED listVars
  /\ UNCHANGED <<db, writes, cache, filling, ops, cacheAt, missed, editor,
                 filled, saving>>

\* The connection breaks: the page sees a failure, the engine goes on.
AnswerLost(h) ==
  /\ hs[h].page /\ hs[h].pc \notin {"idle", "ok", "error"}
  /\ hs' = [hs EXCEPT ![h].page = FALSE]
  /\ saving' = SavingEnds(h)
  /\ confirm' = IF hs[h].kind = "delete" THEN {} ELSE confirm
  /\ UNCHANGED <<db, writes, cache, filling, ops, cacheAt, missed, listVars,
                 editor, filled>>

-----------------------------------------------------------------------------
Next ==
  \/ \E h \in Handlers :
       \/ (OtherRequest(h) \/ Handle(h)) /\ UNCHANGED <<listVars, modalVars>>
       \/ Save(h) \/ SaveFailed(h)
       \/ Remove(h) \/ Removed(h) \/ AnswerLost(h)
  \/ \E q \in Loads : AnswerList(q) \/ ListShown(q) \/ ListFailed(q)
  \/ \E r \in Rules : OpenEditor(r) \/ AskDelete(r)
  \/ Refresh \/ Type \/ CloseEditor \/ CancelDelete

Spec == Init /\ [][Next]_vars

-----------------------------------------------------------------------------
(* Properties.                                                             *)

TypeOK ==
  /\ EngineTypeOK
  /\ list \in [Loads -> {"idle", "asked", "empty"}]
  /\ loads \in 1..MaxLoads
  /\ rules \subseteq Rules
  /\ {demo, error, loading} \subseteq BOOLEAN
  /\ editor \subseteq [rule : Rules, kind : {"create", "update"}]
  /\ filled \in BOOLEAN
  /\ saving \subseteq Handlers /\ confirm \subseteq Rules

\* The page is released: however saves, deletions, loads of the list, lost
\* answers and closed modals mix, the list spins only while a load is in flight
\* and a modal waits only for a request of its own that has not ended.
PageReleased ==
  /\ loading => \E q \in Loads : list[q] # "idle"
  /\ \A h \in saving : hs[h].page /\ hs[h].pc # "idle"
       /\ \E e \in editor : hs[h].rule = e.rule /\ hs[h].kind = e.kind

=============================================================================
