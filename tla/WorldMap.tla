------------------------------ MODULE WorldMap ------------------------------
(***************************************************************************)
(* dashboard: the shapes of the countries on the maps of the Command       *)
(* Center and the Threats page.  They are fetched once; the promise and    *)
(* the result belong to the module and outlive the map that asked.         *)
(***************************************************************************)
EXTENDS LiveValues

VARIABLES
  atlasCache,     \* the shapes were loaded
  atlasPromise,   \* the fetch: "null", "pending", "settled"
  land,           \* the map that is shown: "absent", or the state of countries
  sawFailure      \* history: a fetch failed while this map waited for it

mapVars == <<atlasCache, atlasPromise, land, sawFailure>>

MapInit ==
  /\ atlasCache = FALSE /\ atlasPromise = "null"
  /\ land = "absent" /\ sawFailure = FALSE

\* The page with the map is left; a fetch it waited for goes on.
MapUnmount ==
  /\ land' = "absent" /\ sawFailure' = FALSE
  /\ UNCHANGED <<atlasCache, atlasPromise>>

\* loadAtlas(): the shapes, the fetch that is under way, or a new one.
\* A promise that is settled gives its result again.
LoadAtlas ==
  /\ atlasPromise' = IF atlasPromise = "null" THEN "pending" ELSE atlasPromise
  /\ land' = CASE atlasCache                -> "drawn"
               [] atlasPromise' = "pending" -> "waiting"
               [] OTHER                     -> "empty"

\* The map is mounted when the live values and its code have been loaded.
MountMap ==
  /\ page \in {"home", "threats"} /\ land = "absent"
  /\ LoadAtlas
  /\ UNCHANGED <<atlasCache, sawFailure>>

\* The callback of the map; a map that was left has cancelled it.
Settle(result) == IF land = "waiting" THEN result ELSE land

AtlasLoaded ==
  /\ atlasPromise = "pending"
  /\ atlasCache' = TRUE /\ atlasPromise' = "settled"
  /\ land' = Settle("drawn")
  /\ UNCHANGED sawFailure

\* Seeded fault: the promise of a failed fetch is kept.
PromiseKept == "settled"

\* "allow retry on transient failure".
AfterFailure == "null"

AtlasFailed ==
  /\ atlasPromise = "pending"
  /\ atlasPromise' = AfterFailure
  /\ land' = Settle("empty")
  /\ sawFailure' = (sawFailure \/ land = "waiting")
  /\ UNCHANGED atlasCache

MapStep == MountMap \/ AtlasLoaded \/ AtlasFailed

-----------------------------------------------------------------------------
(* Properties.                                                             *)

MapTypeOK ==
  /\ {atlasCache, sawFailure} \subseteq BOOLEAN
  /\ atlasPromise \in {"null", "pending", "settled"}
  /\ land \in {"absent", "waiting", "empty", "drawn"}

\* A failed fetch costs one visit: a map without land has seen a fetch fail
\* while it was shown, one that waits has a fetch to wait for, and a map that
\* is shown when the shapes arrive draws them, whichever page asked for them.
MapRetries ==
  /\ land = "empty" => sawFailure
  /\ land = "waiting" => atlasPromise = "pending"
  /\ atlasCache /\ land \notin {"absent", "empty"} => land = "drawn"

=============================================================================
