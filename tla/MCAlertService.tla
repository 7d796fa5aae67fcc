--------------------------- MODULE MCAlertService ---------------------------
(* Two alerts of one user, so that deduplication and the rate limit meet.    *)
EXTENDS AlertService

CONSTANTS a1, a2, u1

MCAlertIDs == {a1, a2}
MCUsers    == {u1}
MCUserOf   == [a \in MCAlertIDs |-> u1]
=============================================================================
