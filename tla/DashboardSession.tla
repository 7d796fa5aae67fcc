-------------------------- MODULE DashboardSession --------------------------
(***************************************************************************)
(* dashboard: the signed-in session of a browser.  The token pair lives in *)
(* localStorage, which all tabs share; AuthGate lets a page through when a *)
(* token is there and sends it to /login/ otherwise; the login page stores *)
(* a pair, or a made-up one in demo mode; every request that is answered   *)
(* 401 (apiFetch, fetchWithRefresh) refreshes the pair and tries again;    *)
(* Sign out removes the pair.                                              *)
(*                                                                         *)
(* A tab runs one handler at a time, but tabs run side by side: between    *)
(* the two setItem calls of one tab another tab may read or write.  The    *)
(* second call is pending[t], and no other handler of t runs before it.    *)
(*                                                                         *)
(* Of a token the client sees only whether there is one.  The refresh      *)
(* endpoint is the client's environment here: it may refuse, not answer or *)
(* issue a pair, at any time.  (auth-service as it is refuses every        *)
(* refresh, AuthSessions!ReuseIsReuse; what holds here holds then too.)    *)
(***************************************************************************)
EXTENDS Naturals

CONSTANTS
  Tabs,         \* tabs of one browser
  Requests,     \* requests a page may have in flight
  MaxBlocked,   \* bound: hard navigations that do not come off
  MaxVisits     \* bound: pages opened by hand

ASSUME BoundsAssumption == {MaxBlocked, MaxVisits} \subseteq Nat

VARIABLES
  access,    \* sentinel_access_token
  refresh,   \* sentinel_refresh_token
  pending,   \* what a tab still has to write to sentinel_refresh_token
  view,      \* what a tab shows
  safety,    \* tabs whose gate has its 3 s timer running
  form,      \* the login page: what its submit awaits
  probing,   \* tabs whose login page awaits its probe of the backend
  demoMode,  \* state of the login page
  req,       \* requests of the tabs
  blocked,   \* navigations that did not come off
  visits     \* pages opened by hand

storageVars == <<access, refresh, pending>>
loginVars   == <<form, probing, demoMode>>
boundVars   == <<blocked, visits>>
vars == <<storageVars, view, safety, loginVars, req, boundVars>>

\* No token in localStorage, the demo- token of the demo mode, one of the server.
NoToken   == "none"
DemoToken == "demo"
Issued    == "issued"

Values == {NoToken, DemoToken, Issued}

NothingPending == "nothing"

\* The handlers of tab t may run.
Free(t) == pending[t] = NothingPending

\* What is displayed: the gate's screen before and after its effects ran (with
\* a token, or on its way to /login/ for the first or the second time, or
\* stuck there), the dashboard, the dashboard or the login page while a hard
\* navigation away is under way.
Views == {"gate", "checked", "redirecting", "stuck", "forced", "app", "leaving",
          "login", "entering"}

NoRequest == [pc |-> "idle", token |-> NoToken]

Init ==
  /\ access = NoToken /\ refresh = NoToken
  /\ pending = [t \in Tabs |-> NothingPending]
  /\ view = [t \in Tabs |-> "gate"]
  /\ safety = {}
  /\ form = [t \in Tabs |-> "idle"]
  /\ probing = {}
  /\ demoMode = [t \in Tabs |-> FALSE]
  /\ req = [t \in Tabs |-> [r \in Requests |-> NoRequest]]
  /\ blocked = 0 /\ visits = 0

Show(t, v) == view' = [view EXCEPT ![t] = v]

\* The handler writes a pair of tokens of kind p: the access token now, the
\* refresh token next.
StorePair(t, p) ==
  /\ access' = p
  /\ pending' = [pending EXCEPT ![t] = p]
  /\ UNCHANGED refresh

\* The second setItem, or the second removeItem.
StoreRest(t) ==
  /\ ~Free(t)
  /\ refresh' = pending[t]
  /\ pending' = [pending EXCEPT ![t] = NothingPending]
  /\ UNCHANGED <<access, view, safety, loginVars, req, boundVars>>

-----------------------------------------------------------------------------
(* AuthGate.                                                               *)

\* Seeded fault: the gate relies on its first navigation.
NoSafetyNet(t) == safety

\* The second effect of the gate, without a token.
SafetyNet(t) == safety \cup {t}

\* The effects of a page that has loaded.
CheckToken(t) ==
  /\ view[t] = "gate"
  /\ IF access = NoToken
     THEN Show(t, "redirecting") /\ safety' = SafetyNet(t)
     ELSE Show(t, "checked") /\ UNCHANGED safety
  /\ UNCHANGED <<storageVars, loginVars, req, boundVars>>

\* setReady(true).
Ready(t) ==
  /\ view[t] = "checked"
  /\ Show(t, "app")
  /\ UNCHANGED <<storageVars, safety, loginVars, req, boundVars>>

\* After 3 s on the screen of the gate the navigation is forced again.
ForceAgain(t) ==
  /\ t \in safety
  /\ safety' = safety \ {t}
  /\ Show(t, "forced")
  /\ UNCHANGED <<storageVars, loginVars, req, boundVars>>

\* A client-side navigation of the dashboard runs the first effect again; the
\* gate stays open.
Navigate(t) ==
  /\ view[t] = "app" /\ Free(t)
  /\ access = NoToken
  /\ Show(t, "leaving")
  /\ UNCHANGED <<storageVars, safety, loginVars, req, boundVars>>

-----------------------------------------------------------------------------
(* Hard navigations.                                                       *)

\* The document of tab t is replaced: its timers, requests and state are gone.
Unload(t) ==
  /\ safety' = safety \ {t}
  /\ form' = [form EXCEPT ![t] = "idle"]
  /\ demoMode' = [demoMode EXCEPT ![t] = FALSE]
  /\ req' = [req EXCEPT ![t] = [r \in Requests |-> NoRequest]]

\* The login page is loaded; its effect probes the backend.
ArriveAtLogin(t) ==
  /\ view[t] \in {"redirecting", "forced", "leaving"} /\ Free(t)
  /\ Show(t, "login")
  /\ Unload(t)
  /\ probing' = probing \cup {t}
  /\ UNCHANGED <<storageVars, boundVars>>

ArriveAtGate(t) ==
  /\ view[t] = "entering" /\ Free(t)
  /\ Show(t, "gate")
  /\ Unload(t)
  /\ probing' = probing \ {t}
  /\ UNCHANGED <<storageVars, boundVars>>

\* A navigation is blocked; the page it should have left stays.  The gate tries
\* twice: its second navigation is assumed to come off.
NavigationBlocked(t) ==
  /\ blocked < MaxBlocked
  /\ blocked' = blocked + 1
  /\ \/ view[t] = "redirecting" /\ Show(t, "stuck")
     \/ view[t] = "leaving" /\ Show(t, "app")
     \/ view[t] = "entering" /\ Show(t, "login")
  /\ UNCHANGED <<storageVars, safety, loginVars, req, visits>>

\* The user opens or reloads a page of the dashboard.
Visit(t) ==
  /\ view[t] \in {"app", "login"} /\ Free(t)
  /\ visits < MaxVisits
  /\ visits' = visits + 1
  /\ Show(t, "gate")
  /\ Unload(t)
  /\ probing' = probing \ {t}
  /\ UNCHANGED <<storageVars, blocked>>

-----------------------------------------------------------------------------
(* The login page.                                                         *)

\* The probe is answered, or fails (a refused connection, 2.5 s without an
\* answer, a URL that is not the backend's).
ProbeEnds(t) ==
  /\ t \in probing /\ Free(t)
  /\ probing' = probing \ {t}
  /\ demoMode' \in {[demoMode EXCEPT ![t] = b] : b \in BOOLEAN}
  /\ UNCHANGED <<storageVars, view, safety, form, req, boundVars>>

\* The form is on screen and its button enabled (a registration's password
\* meets the policy).  After a success the button is enabled again until the
\* page is gone.
CanSubmit(t) ==
  view[t] \in {"login", "entering"} /\ form[t] = "idle" /\ Free(t)

\* Demo mode: any credentials store a made-up pair.
SubmitDemo(t) ==
  /\ CanSubmit(t) /\ demoMode[t]
  /\ StorePair(t, DemoToken)
  /\ Show(t, "entering")
  /\ UNCHANGED <<safety, loginVars, req, boundVars>>

\* A registration (only with a password that meets the policy) or a login.
Submit(t) ==
  /\ CanSubmit(t) /\ ~demoMode[t]
  /\ form' \in {[form EXCEPT ![t] = f] : f \in {"registering", "signing in"}}
  /\ UNCHANGED <<storageVars, view, safety, probing, demoMode, req, boundVars>>

\* The account was created: the same submit signs in.
Registered(t) ==
  /\ form[t] = "registering" /\ Free(t)
  /\ form' = [form EXCEPT ![t] = "signing in"]
  /\ UNCHANGED <<storageVars, view, safety, probing, demoMode, req, boundVars>>

\* An error status or no answer: the message is shown, nothing is stored.
SubmitFails(t) ==
  /\ form[t] # "idle" /\ Free(t)
  /\ form' = [form EXCEPT ![t] = "idle"]
  /\ UNCHANGED <<storageVars, view, safety, probing, demoMode, req, boundVars>>

\* The login is answered with a pair.
SignedIn(t) ==
  /\ form[t] = "signing in" /\ Free(t)
  /\ StorePair(t, Issued)
  /\ form' = [form EXCEPT ![t] = "idle"]
  /\ Show(t, "entering")
  /\ UNCHANGED <<safety, probing, demoMode, req, boundVars>>

\* Sign out.  The server is not told.
Logout(t) ==
  /\ view[t] = "app" /\ Free(t)
  /\ StorePair(t, NoToken)
  /\ Show(t, "leaving")
  /\ UNCHANGED <<safety, loginVars, req, boundVars>>

-----------------------------------------------------------------------------
(* apiFetch and fetchWithRefresh.  The requests of a page run on while it  *)
(* is being left.                                                          *)

Running(t) == view[t] \in {"app", "leaving"} /\ Free(t)

Goto(t, r, label, p) == req' = [req EXCEPT ![t][r] = [pc |-> label, token |-> p]]

\* The request goes out with the access token of the moment.
Send(t, r) ==
  /\ Running(t)
  /\ req[t][r].pc = "idle"
  /\ Goto(t, r, "sent", access)
  /\ UNCHANGED <<storageVars, view, safety, loginVars, boundVars>>

\* Any answer but a 401, or none; also whatever the second try gets.
Answered(t, r) ==
  /\ Running(t)
  /\ req[t][r].pc \in {"sent", "retried"}
  /\ req' = [req EXCEPT ![t][r] = NoRequest]
  /\ UNCHANGED <<storageVars, view, safety, loginVars, boundVars>>

\* Seeded fault: the token the request was sent with decides.
TokenOfRequest(t, r) == req[t][r].token

\* The refresh token is read after the 401 arrived.
StoredRefreshToken(t, r) == refresh

\* 401: without a refresh token the caller gets it, else the pair is refreshed.
Unauthorized(t, r) ==
  /\ Running(t)
  /\ req[t][r].pc = "sent"
  /\ LET p == StoredRefreshToken(t, r) IN
       IF p = NoToken
       THEN req' = [req EXCEPT ![t][r] = NoRequest]
       ELSE Goto(t, r, "refreshing", p)
  /\ UNCHANGED <<storageVars, view, safety, loginVars, boundVars>>

\* The refresh is refused or does not get through, or its answer is lost: the
\* caller gets the 401, or an exception, and both tokens stay.
RefreshFails(t, r) ==
  /\ Running(t)
  /\ req[t][r].pc = "refreshing"
  /\ req' = [req EXCEPT ![t][r] = NoRequest]
  /\ UNCHANGED <<storageVars, view, safety, loginVars, boundVars>>

\* The refresh is answered with a pair: it is stored and the request sent again.
Retry(t, r) ==
  /\ Running(t)
  /\ req[t][r].pc = "refreshing"
  /\ StorePair(t, Issued)
  /\ Goto(t, r, "retried", Issued)
  /\ UNCHANGED <<view, safety, loginVars, boundVars>>

-----------------------------------------------------------------------------
Next ==
  \E t \in Tabs :
    \/ StoreRest(t)
    \/ CheckToken(t) \/ Ready(t) \/ ForceAgain(t) \/ Navigate(t)
    \/ ArriveAtLogin(t) \/ ArriveAtGate(t) \/ NavigationBlocked(t) \/ Visit(t)
    \/ ProbeEnds(t) \/ SubmitDemo(t) \/ Submit(t) \/ Registered(t)
    \/ SubmitFails(t) \/ SignedIn(t) \/ Logout(t)
    \/ \E r \in Requests :
         \/ Send(t, r) \/ Answered(t, r) \/ Unauthorized(t, r)
         \/ RefreshFails(t, r) \/ Retry(t, r)

\* A tab runs its handlers and timers to the end, and a navigation that is not
\* blocked loads the page.  Nothing makes the user or the server act.
Fairness ==
  \A t \in Tabs :
    /\ WF_vars(StoreRest(t)) /\ WF_vars(CheckToken(t)) /\ WF_vars(Ready(t))
    /\ WF_vars(ForceAgain(t)) /\ WF_vars(ArriveAtLogin(t)) /\ WF_vars(ArriveAtGate(t))

Spec == Init /\ [][Next]_vars /\ Fairness

-----------------------------------------------------------------------------
(* Properties.                                                             *)

TypeOK ==
  /\ access \in Values /\ refresh \in Values
  /\ pending \in [Tabs -> Values \cup {NothingPending}]
  /\ view \in [Tabs -> Views]
  /\ safety \subseteq Tabs /\ probing \subseteq Tabs
  /\ form \in [Tabs -> {"idle", "registering", "signing in"}]
  /\ demoMode \in [Tabs -> BOOLEAN]
  /\ req \in [Tabs -> [Requests ->
       [pc : {"idle", "sent", "refreshing", "retried"}, token : Values]]]
  /\ blocked \in 0..MaxBlocked /\ visits \in 0..MaxVisits

\* No tab has a token and no refresh that could bring one is under way.
SignedOut ==
  /\ access = NoToken /\ refresh = NoToken
  /\ \A t \in Tabs : pending[t] \in {NoToken, NothingPending}
  /\ \A t \in Tabs, r \in Requests : req[t][r].pc # "refreshing"

\* Sign out holds: once the pair is gone and no refresh was under way, a request
\* that was sent before and is answered 401 now does not sign the browser in
\* again; only the login page does.
SignOutHolds ==
  [][SignedOut /\ ~SignedOut' => \E t \in Tabs : view'[t] = "entering"]_vars

\* AuthGate: a page never stays on the screen of the gate, even when its
\* redirect is blocked.
NeverSpins ==
  \A t \in Tabs : view[t] \in {"gate", "checked", "redirecting", "stuck", "forced"}
                    ~> view[t] \in {"login", "app"}

=============================================================================
