----------------------- MODULE DashboardSessionProofs -----------------------
(***************************************************************************)
(* Proofs about DashboardSession, for any tabs, requests and bounds: its   *)
(* types, and that signing out holds.  The second is an action property:   *)
(* of all steps from a state without tokens and refreshes, only those of   *)
(* the login page lead out of it.                                          *)
(***************************************************************************)
EXTENDS DashboardSession, TLAPS

RequestStates == [pc : {"idle", "sent", "refreshing", "retried"}, token : Values]

\* The values that stand for no token, nothing to write and no request.
LEMMA TokensDiffer ==
  /\ NoToken \in Values /\ DemoToken \in Values /\ Issued \in Values
  /\ NothingPending \notin Values
  /\ NoRequest \in RequestStates /\ NoRequest.pc = "idle"
BY DEF Values, NoToken, DemoToken, Issued, NothingPending, NoRequest, RequestStates

\* One request changes.
LEMMA Goes ==
  ASSUME TypeOK, NEW t \in Tabs, NEW r \in Requests, NEW label, NEW p, Goto(t, r, label, p)
  PROVE  \A s \in Tabs, q \in Requests :
           req'[s][q] = IF s = t /\ q = r THEN [pc |-> label, token |-> p] ELSE req[s][q]
BY DEF Goto, TypeOK

\* The new state of a request is one.
LEMMA GoesType ==
  ASSUME TypeOK, NEW t \in Tabs, NEW r \in Requests, NEW x \in RequestStates,
         req' = [req EXCEPT ![t][r] = x]
  PROVE  req' \in [Tabs -> [Requests -> RequestStates]]
BY DEF TypeOK, RequestStates

\* Nothing but what is displayed, and the bounds, changes.
ShowsOnly ==
  UNCHANGED <<access, refresh, pending, form, probing, demoMode, req>>

-----------------------------------------------------------------------------
\* The initial state has the types.
LEMMA InitType == Init => TypeOK
<1> SUFFICES ASSUME Init PROVE TypeOK
  OBVIOUS
<1>1. req \in [Tabs -> [Requests -> RequestStates]]
  BY TokensDiffer DEF Init
<1> QED BY <1>1, TokensDiffer, BoundsAssumption DEF Init, TypeOK, Views, RequestStates

\* Steps of the gate and navigations that are blocked.
LEMMA GateType ==
  ASSUME TypeOK, NEW t \in Tabs,
         CheckToken(t) \/ Ready(t) \/ ForceAgain(t) \/ Navigate(t) \/ NavigationBlocked(t)
  PROVE  TypeOK'
<1>1. ShowsOnly
  BY DEF CheckToken, Ready, ForceAgain, Navigate, NavigationBlocked, storageVars, loginVars,
         ShowsOnly
<1>2. view' \in [Tabs -> Views]
  BY DEF CheckToken, Ready, ForceAgain, Navigate, NavigationBlocked, Show, TypeOK, Views
<1>3. safety' \subseteq Tabs
  BY DEF CheckToken, Ready, ForceAgain, Navigate, NavigationBlocked, SafetyNet, TypeOK
<1>4. blocked' \in 0..MaxBlocked /\ visits' \in 0..MaxVisits
  <2>1. CASE NavigationBlocked(t)
    <3>1. blocked < MaxBlocked /\ blocked' = blocked + 1 /\ visits' = visits
      BY <2>1 DEF NavigationBlocked
    <3>2. MaxBlocked \in Nat /\ MaxVisits \in Nat
      BY BoundsAssumption
    <3>3. blocked \in 0..MaxBlocked /\ visits \in 0..MaxVisits
      BY DEF TypeOK
    <3> QED BY <3>1, <3>2, <3>3
  <2>2. CASE ~NavigationBlocked(t)
    <3>1. UNCHANGED <<blocked, visits>>
      BY <2>2 DEF CheckToken, Ready, ForceAgain, Navigate, boundVars
    <3> QED BY <3>1 DEF TypeOK
  <2> QED BY <2>1, <2>2
<1> QED BY <1>1, <1>2, <1>3, <1>4 DEF TypeOK, ShowsOnly

\* A document is replaced.
LEMMA UnloadType ==
  ASSUME TypeOK, NEW t \in Tabs, ArriveAtLogin(t) \/ ArriveAtGate(t) \/ Visit(t)
  PROVE  TypeOK'
<1>1. Unload(t) /\ UNCHANGED <<access, refresh, pending>>
  BY DEF ArriveAtLogin, ArriveAtGate, Visit, storageVars
<1>2. req' \in [Tabs -> [Requests -> RequestStates]]
  BY <1>1, TokensDiffer DEF Unload, TypeOK, RequestStates
<1>3. view' \in [Tabs -> Views]
  BY DEF ArriveAtLogin, ArriveAtGate, Visit, Show, TypeOK, Views
<1>4. probing' \subseteq Tabs
  BY DEF ArriveAtLogin, ArriveAtGate, Visit, TypeOK
<1>5. blocked' \in 0..MaxBlocked /\ visits' \in 0..MaxVisits
  <2>1. CASE Visit(t)
    <3>1. visits < MaxVisits /\ visits' = visits + 1 /\ blocked' = blocked
      BY <2>1 DEF Visit
    <3>2. MaxBlocked \in Nat /\ MaxVisits \in Nat
      BY BoundsAssumption
    <3>3. blocked \in 0..MaxBlocked /\ visits \in 0..MaxVisits
      BY DEF TypeOK
    <3> QED BY <3>1, <3>2, <3>3
  <2>2. CASE ~Visit(t)
    <3>1. UNCHANGED <<blocked, visits>>
      BY <2>2 DEF ArriveAtLogin, ArriveAtGate, boundVars
    <3> QED BY <3>1 DEF TypeOK
  <2> QED BY <2>1, <2>2
<1>6. /\ safety' \subseteq Tabs /\ demoMode' \in [Tabs -> BOOLEAN]
      /\ form' \in [Tabs -> {"idle", "registering", "signing in"}]
  BY <1>1 DEF Unload, TypeOK
<1> QED BY <1>1, <1>2, <1>3, <1>4, <1>5, <1>6 DEF TypeOK, RequestStates

\* The login page, up to the answer to its form.
LEMMA FormType ==
  ASSUME TypeOK, NEW t \in Tabs,
         ProbeEnds(t) \/ Submit(t) \/ Registered(t) \/ SubmitFails(t)
  PROVE  TypeOK'
<1>1. UNCHANGED <<access, refresh, pending, view, safety, req, blocked, visits>>
  BY DEF ProbeEnds, Submit, Registered, SubmitFails, storageVars, boundVars
<1>2. form' \in [Tabs -> {"idle", "registering", "signing in"}]
  BY DEF ProbeEnds, Submit, Registered, SubmitFails, TypeOK
<1>3. probing' \subseteq Tabs /\ demoMode' \in [Tabs -> BOOLEAN]
  BY DEF ProbeEnds, Submit, Registered, SubmitFails, TypeOK
<1> QED BY <1>1, <1>2, <1>3 DEF TypeOK

\* A pair is stored or removed.
LEMMA PairType ==
  ASSUME TypeOK, NEW t \in Tabs,
         StoreRest(t) \/ SubmitDemo(t) \/ SignedIn(t) \/ Logout(t)
  PROVE  TypeOK'
<1>1. UNCHANGED <<safety, req, blocked, visits, probing, demoMode>>
  BY DEF StoreRest, SubmitDemo, SignedIn, Logout, loginVars, boundVars
<1>2. form' \in [Tabs -> {"idle", "registering", "signing in"}]
  BY DEF StoreRest, SubmitDemo, SignedIn, Logout, loginVars, TypeOK
<1>3. view' \in [Tabs -> Views]
  BY DEF StoreRest, SubmitDemo, SignedIn, Logout, Show, TypeOK, Views
<1>4. /\ access' \in Values /\ refresh' \in Values
      /\ pending' \in [Tabs -> Values \cup {NothingPending}]
  <2>1. CASE StoreRest(t)
    BY <2>1 DEF StoreRest, Free, TypeOK
  <2>2. ASSUME NEW p \in Values, StorePair(t, p)
        PROVE  /\ access' \in Values /\ refresh' \in Values
               /\ pending' \in [Tabs -> Values \cup {NothingPending}]
    BY <2>2 DEF StorePair, TypeOK
  <2> QED BY <2>1, <2>2, TokensDiffer DEF SubmitDemo, SignedIn, Logout
<1> QED BY <1>1, <1>2, <1>3, <1>4 DEF TypeOK

\* The requests of a page.
LEMMA RequestType ==
  ASSUME TypeOK, NEW t \in Tabs, NEW r \in Requests,
         \/ Send(t, r) \/ Answered(t, r) \/ Unauthorized(t, r)
         \/ RefreshFails(t, r) \/ Retry(t, r)
  PROVE  TypeOK'
<1>1. UNCHANGED <<view, safety, form, probing, demoMode, blocked, visits>>
  BY DEF Send, Answered, Unauthorized, RefreshFails, Retry, loginVars, boundVars
<1>2. \E x \in RequestStates : req' = [req EXCEPT ![t][r] = x]
  <2>1. \A p \in Values : /\ [pc |-> "sent", token |-> p] \in RequestStates
                          /\ [pc |-> "refreshing", token |-> p] \in RequestStates
                          /\ [pc |-> "retried", token |-> p] \in RequestStates
    BY DEF RequestStates
  <2>2. access \in Values /\ refresh \in Values
    BY DEF TypeOK
  <2>3. CASE Send(t, r)
    BY <2>1, <2>2, <2>3 DEF Send, Goto
  <2>4. CASE Answered(t, r) \/ RefreshFails(t, r)
    BY <2>4, TokensDiffer DEF Answered, RefreshFails
  <2>5. CASE Unauthorized(t, r)
    BY <2>1, <2>2, <2>5, TokensDiffer DEF Unauthorized, StoredRefreshToken, Goto
  <2>6. CASE Retry(t, r)
    BY <2>1, <2>6, TokensDiffer DEF Retry, Goto
  <2> QED BY <2>3, <2>4, <2>5, <2>6
<1>3. req' \in [Tabs -> [Requests -> RequestStates]]
  BY <1>2, GoesType
<1>4. /\ access' \in Values /\ refresh' \in Values
      /\ pending' \in [Tabs -> Values \cup {NothingPending}]
  BY TokensDiffer DEF Send, Answered, Unauthorized, RefreshFails, Retry, StorePair,
     storageVars, TypeOK
<1> QED BY <1>1, <1>3, <1>4 DEF TypeOK, RequestStates

\* Type correctness, for any tabs, requests and bounds.
THEOREM TypeCorrect == Spec => []TypeOK
<1>1. TypeOK /\ [Next]_vars => TypeOK'
  <2> SUFFICES ASSUME TypeOK, [Next]_vars PROVE TypeOK'
    OBVIOUS
  <2>1. CASE UNCHANGED vars
    BY <2>1 DEF vars, storageVars, loginVars, boundVars, TypeOK
  <2> QED BY <2>1, GateType, UnloadType, FormType, PairType, RequestType DEF Next
<1> QED BY <1>1, InitType, PTL DEF Spec

-----------------------------------------------------------------------------
\* A step that stores nothing and starts no refresh keeps the browser signed out.
LEMMA StaysOut ==
  ASSUME SignedOut, UNCHANGED <<access, refresh>>,
         \A t \in Tabs : pending'[t] \in {NoToken, pending[t]},
         \A t \in Tabs, r \in Requests :
           \/ req'[t][r] = req[t][r]
           \/ req'[t][r].pc # "refreshing"
  PROVE  SignedOut'
BY DEF SignedOut

\* Sign out holds: of all steps only those of the login page end it.
LEMMA OnlyLoginEnds ==
  ASSUME TypeOK, SignedOut, [Next]_vars, ~SignedOut'
  PROVE  \E t \in Tabs : view'[t] = "entering"
<1> SUFFICES ASSUME \A t \in Tabs : view'[t] # "entering" PROVE SignedOut'
  OBVIOUS
<1>1. CASE UNCHANGED <<access, refresh, pending, req>>
  BY <1>1, StaysOut
<1>2. CASE UNCHANGED vars
  BY <1>1, <1>2 DEF vars, storageVars
<1>3. ASSUME NEW t \in Tabs, StoreRest(t) PROVE SignedOut'
  BY <1>3, TokensDiffer DEF StoreRest, SignedOut, Free, TypeOK
<1>4. ASSUME NEW t \in Tabs,
             \/ CheckToken(t) \/ Ready(t) \/ ForceAgain(t) \/ Navigate(t) \/ NavigationBlocked(t)
             \/ ProbeEnds(t) \/ Submit(t) \/ Registered(t) \/ SubmitFails(t)
      PROVE  SignedOut'
  BY <1>1, <1>4 DEF CheckToken, Ready, ForceAgain, Navigate, NavigationBlocked, ProbeEnds,
     Submit, Registered, SubmitFails, storageVars
<1>5. ASSUME NEW t \in Tabs, ArriveAtLogin(t) \/ ArriveAtGate(t) \/ Visit(t)
      PROVE  SignedOut'
  <2>1. UNCHANGED <<access, refresh, pending>> /\ Unload(t)
    BY <1>5 DEF ArriveAtLogin, ArriveAtGate, Visit, storageVars
  <2>2. \A s \in Tabs, r \in Requests : req'[s][r] = IF s = t THEN NoRequest ELSE req[s][r]
    BY <2>1 DEF Unload, TypeOK
  <2> QED BY <2>1, <2>2, TokensDiffer, StaysOut
<1>6. ASSUME NEW t \in Tabs, SubmitDemo(t) \/ SignedIn(t) PROVE SignedOut'
  <2>1. view' = [view EXCEPT ![t] = "entering"]
    BY <1>6 DEF SubmitDemo, SignedIn, Show
  <2> QED BY <2>1 DEF TypeOK
<1>7. ASSUME NEW t \in Tabs, Logout(t) PROVE SignedOut'
  <2>1. /\ access' = NoToken /\ pending' = [pending EXCEPT ![t] = NoToken]
        /\ UNCHANGED <<refresh, req>>
    BY <1>7 DEF Logout, StorePair
  <2>2. UNCHANGED access
    BY <2>1 DEF SignedOut
  <2> QED BY <2>1, <2>2, StaysOut DEF TypeOK
<1>8. ASSUME NEW t \in Tabs, NEW r \in Requests, Send(t, r) PROVE SignedOut'
  <2>1. UNCHANGED <<access, refresh, pending>> /\ Goto(t, r, "sent", access)
    BY <1>8 DEF Send, storageVars
  <2>2. \A s \in Tabs, q \in Requests : req'[s][q] =
          IF s = t /\ q = r THEN [pc |-> "sent", token |-> access] ELSE req[s][q]
    BY <2>1, Goes
  <2> QED BY <2>1, <2>2, StaysOut
<1>9. ASSUME NEW t \in Tabs, NEW r \in Requests, Answered(t, r) \/ Unauthorized(t, r)
      PROVE  SignedOut'
  <2>1. refresh = NoToken
    BY DEF SignedOut
  <2>2. UNCHANGED <<access, refresh, pending>> /\ req' = [req EXCEPT ![t][r] = NoRequest]
    BY <1>9, <2>1 DEF Answered, Unauthorized, StoredRefreshToken, storageVars
  <2>3. \A s \in Tabs, q \in Requests :
          req'[s][q] = IF s = t /\ q = r THEN NoRequest ELSE req[s][q]
    BY <2>2 DEF TypeOK
  <2> QED BY <2>2, <2>3, TokensDiffer, StaysOut
<1>10. ASSUME NEW t \in Tabs, NEW r \in Requests,
              RefreshFails(t, r) \/ Retry(t, r)
       PROVE  FALSE
  BY <1>10 DEF RefreshFails, Retry, SignedOut
<1> QED
  BY <1>2, <1>3, <1>4, <1>5, <1>6, <1>7, <1>8, <1>9, <1>10 DEF Next

\* Sign out holds: a request that was sent before does not sign the browser in
\* again, whatever its answer and whenever it arrives.
THEOREM SignOutIsKept == Spec => SignOutHolds
<1>1. TypeOK /\ [Next]_vars =>
        [SignedOut /\ ~SignedOut' => \E t \in Tabs : view'[t] = "entering"]_vars
  BY OnlyLoginEnds
<1> QED BY <1>1, TypeCorrect, PTL DEF Spec, SignOutHolds

=============================================================================
