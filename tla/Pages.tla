-------------------------------- MODULE Pages -------------------------------
(***************************************************************************)
(* dashboard: the pages in the shell that shows one of them at a time,     *)
(* with the toasts and the map data that outlive them.                     *)
(***************************************************************************)
EXTENDS SystemPage, ThreatsPage, Rollups, WorldMap

CONSTANT Links   \* bound: links of the sidebar that are followed

ASSUME LinksAssumption == Links \subseteq PageNames \X PageNames

pagesVars == <<page, visits, liveVars, systemVars, toastVars, threatsVars, rollupVars,
          mapVars>>

\* Toasts of a page shown before are there where they meet others.
PagesInit ==
  /\ LiveInit /\ SystemInit /\ ThreatsInit /\ RollupInit /\ MapInit
  /\ \E n \in 0..MaxOthers : (page = "threats" \/ n = 0) /\ ToastInit(n)

\* A link of the sidebar: a client-side navigation, the page that is left is
\* unmounted.
Navigate ==
  /\ visits < MaxVisits
  /\ visits' = visits + 1
  /\ page' \in {p \in PageNames : <<page, p>> \in Links}
  /\ SystemUnmount /\ ThreatsUnmount /\ RollupUnmount /\ MapUnmount
  /\ UNCHANGED <<liveVars, toastVars>>

\* A page throws while it is rendered: there is no error boundary, so the whole
\* tree is unmounted, the toasts included.  Only loading the document again helps.
Crash ==
  /\ \E r \in RollupNames, f \in Fetches : RenderThrows(r, f)
  /\ SystemUnmount /\ ThreatsUnmount /\ RollupUnmount /\ MapUnmount
  /\ toasts' = <<>>
  /\ UNCHANGED <<visits, liveVars, timers, idRef>>

Shown == UNCHANGED <<page, visits>>

\* A is a step of the System page, or of the rollups, and of nothing else.
OfSystem(A) ==
  A /\ Shown /\ UNCHANGED <<liveVars, toastVars, threatsVars, rollupVars, mapVars>>
OfRollups(A) ==
  A /\ Shown /\ UNCHANGED <<liveVars, systemVars, toastVars, threatsVars, mapVars>>

\* The probes that are due every 30 s, their answers and their ends.
Probing ==
  \/ Interval
  \/ \E k \in Runs : RunEnds(k) \/ \E s \in Services : ProbeAnswered(k, s)

Fetching(r) == \E f \in Fetches : FetchAnswered(r, f) \/ FetchShown(r, f)

SystemStep == OfSystem(ProbeEffect) \/ OfSystem(Probing)

RollupStep ==
  OfRollups(LoadRollups) \/ \E r \in RollupNames : OfRollups(Fetching(r))

ThreatsStep ==
  /\ \/ (\E f \in {"all", "blocked"} : SetFilter(f)) /\ UNCHANGED toastVars
     \/ (\E e \in Ids : SelectThreat(e)) /\ UNCHANGED toastVars
     \/ CloseDetail /\ UNCHANGED toastVars
     \/ AlertEffect
  /\ Shown /\ UNCHANGED <<liveVars, systemVars, rollupVars, mapVars>>

ToastStep ==
  /\ \/ \E id \in timers : TimerFires(id)
     \/ \E id \in 1..(idRef - 1) : Dismiss(id)
  /\ Shown /\ UNCHANGED <<liveVars, systemVars, threatsVars, rollupVars, mapVars>>

OutsideStep ==
  /\ \/ LiveStep /\ UNCHANGED mapVars
     \/ MapStep /\ UNCHANGED liveVars
  /\ Shown /\ UNCHANGED <<systemVars, toastVars, threatsVars, rollupVars>>

PagesNext ==
  /\ page # Crashed
  /\ \/ Navigate \/ Crash
     \/ SystemStep \/ RollupStep \/ ThreatsStep \/ ToastStep \/ OutsideStep

\* The browser runs effects, timers and callbacks, and a request ends.  Nothing
\* makes the user, the services or the feed act.
PagesFairness ==
  /\ WF_pagesVars(OfSystem(ProbeEffect)) /\ WF_pagesVars(OfSystem(Probing))
  /\ WF_pagesVars(OfRollups(LoadRollups))
  /\ \A r \in RollupNames : WF_pagesVars(OfRollups(Fetching(r)))
  /\ WF_pagesVars(Crash)

PagesSpec == PagesInit /\ [][PagesNext]_pagesVars /\ PagesFairness

-----------------------------------------------------------------------------
PagesTypeOK ==
  /\ page \in PageNames \cup {Crashed} /\ visits \in 0..MaxVisits
  /\ events \in Lists /\ {connected, liveDemo} \subseteq BOOLEAN
  /\ up \in [Services -> Answers] /\ bare \subseteq RollupNames /\ changes \in 0..MaxChanges
  /\ SystemTypeOK /\ ToastTypeOK /\ ThreatsTypeOK /\ RollupTypeOK /\ MapTypeOK

=============================================================================
