------------------------------- MODULE MCPages ------------------------------
(***************************************************************************)
(* Pages for TLC: a blocked and a challenged event of one source, of which *)
(* only the first has a place on the map.                                  *)
(***************************************************************************)
EXTENDS Pages, TLC

CONSTANTS e1, e2, s1

MCIds       == {e1, e2}
MCAction    == e1 :> "BLOCK" @@ e2 :> "CHALLENGE"
MCScore     == e1 :> 100 @@ e2 :> 60
MCEventType == e1 :> "login" @@ e2 :> "payment"
MCLocated   == {e1}
MCSources   == {s1}
MCSource    == e1 :> s1 @@ e2 :> s1
MCServices  == {"gateway", "analytics"}

\* The pages with a map, and the pages that ask services, share state.
MCLinks == {<<"home", "threats">>, <<"threats", "home">>,
            <<"system", "analytics">>, <<"analytics", "system">>}
=============================================================================
