----------------------------- MODULE ThreatsPage ----------------------------
(***************************************************************************)
(* dashboard: the Threats page.  It raises a toast for every critical      *)
(* event it has not raised one for during this visit, and puts one marker  *)
(* per source address on the map.                                          *)
(***************************************************************************)
EXTENDS Figures, Toasts

CONSTANTS
  Located,    \* events with coordinates or with a country that is known
  Sources,    \* source addresses
  Source      \* Source[e]: the source address of an event

ASSUME ThreatsAssumption ==
  /\ Located \subseteq Ids
  /\ Source \in [Ids -> Sources]

VARIABLES
  alerted,     \* alertedRef.current
  effectRan,   \* the list the effect last ran with, {} before it ran
  mapFilter,   \* state of the page, as the next
  selected,    \* the event in the detail card, {} when it is closed
  raised       \* history: toasts raised for an event during this visit

\* The events a toast is raised for.
Critical == {e \in Ids : Action[e] = "BLOCK" /\ Score[e] >= 85}

threatsVars == <<alerted, effectRan, mapFilter, selected, raised>>

ThreatsInit ==
  /\ alerted = {} /\ effectRan = {}
  /\ mapFilter = "all" /\ selected = {}
  /\ raised = [e \in Ids |-> 0]

\* The page is left.
ThreatsUnmount ==
  /\ alerted' = {} /\ effectRan' = {}
  /\ mapFilter' = "all" /\ selected' = {}
  /\ raised' = [e \in Ids |-> 0]

\* Seeded fault: only what is listed is remembered.
ListedAlerted == {e \in Critical : e \in Range(events)}

\* What was alerted before and the critical events listed now.
NowAlerted == alerted \cup {e \in Critical : e \in Range(events)}

\* The effect of a changed list.
AlertEffect ==
  /\ page = "threats" /\ effectRan # {events}
  /\ effectRan' = {events}
  /\ LET new == {e \in Critical : e \in Range(events)} \ alerted IN
       /\ alerted' = NowAlerted
       /\ raised' = [e \in Ids |-> IF e \in new THEN raised[e] + 1 ELSE raised[e]]
       /\ Raise(Cardinality(new))
  /\ UNCHANGED <<mapFilter, selected>>

\* The event passes the filter and has a place on the map.
OnMap(e) == (mapFilter = "blocked" => Action[e] = "BLOCK") /\ e \in Located

\* Seeded fault: a source is marked as seen before its event is looked at.
AddMarkerEarly(acc, e) ==
  IF Source[e] \in acc.seen THEN acc
  ELSE [seen |-> acc.seen \cup {Source[e]},
        out  |-> IF OnMap(e) THEN Append(acc.out, e) ELSE acc.out]

\* One turn of the loop over the list.
AddMarker(acc, e) ==
  IF Source[e] \in acc.seen \/ ~OnMap(e) THEN acc
  ELSE [seen |-> acc.seen \cup {Source[e]}, out |-> Append(acc.out, e)]

\* The loop over the list: the sources seen and the markers after i events.
MarkerLoop[i \in 0..Len(events)] ==
  IF i = 0 THEN [seen |-> {}, out |-> <<>>] ELSE AddMarker(MarkerLoop[i - 1], events[i])

\* The markers on the map.
Threats == MarkerLoop[Len(events)].out

\* Every threat is drawn as a marker that can be clicked.
Marker(e) == e \in Range(Threats)

SetFilter(f) ==
  /\ page = "threats"
  /\ mapFilter' = f
  /\ UNCHANGED <<alerted, effectRan, selected, raised>>

\* A click on a marker.  The card stays when its event leaves the list.
SelectThreat(e) ==
  /\ page = "threats"
  /\ Marker(e)
  /\ selected' = {e}
  /\ UNCHANGED <<alerted, effectRan, mapFilter, raised>>

CloseDetail ==
  /\ selected # {}
  /\ selected' = {}
  /\ UNCHANGED <<alerted, effectRan, mapFilter, raised>>

-----------------------------------------------------------------------------
(* Properties.                                                             *)

ThreatsTypeOK ==
  /\ alerted \subseteq Ids /\ effectRan \subseteq Lists
  /\ mapFilter \in {"all", "blocked"} /\ selected \subseteq Ids
  /\ raised \in [Ids -> Nat]

\* "fire once per event id": during a visit a critical event is announced when
\* it is listed, and never again, also when it leaves the list (a poll that was
\* answered before it was stored, a long burst) and comes back.
AlertedOnce ==
  /\ \A e \in Ids : raised[e] <= 1
  /\ page = "threats" /\ effectRan = {events} =>
       \A e \in Critical : e \in Range(events) => raised[e] = 1

\* The map leaves no source out: the sources with a marker are those with an
\* event to show, also when a newer event of the same source is filtered out,
\* and a source has one marker.
MapComplete ==
  /\ {Source[e] : e \in Range(Threats)}
       = {Source[e] : e \in {d \in Range(events) : OnMap(d)}}
  /\ \A i, j \in DOMAIN Threats : Source[Threats[i]] = Source[Threats[j]] => i = j

=============================================================================
