---------------------------- MODULE DurableIngest ----------------------------
(***************************************************************************)
(* What analytics-service promises about the events it is handed, without  *)
(* saying how: events become durable; a request is accepted and an event   *)
(* is shown on the live stream only once durable; a committed offset       *)
(* only moves forward, and only over records that are durable or that the  *)
(* service has explicitly given up.                                        *)
(***************************************************************************)
EXTENDS Naturals

CONSTANTS
  Topics,     \* Kafka topics; a record is <<topic, number>>
  Requests    \* HTTP ingest requests, each carrying one event

VARIABLES
  stored,     \* durable events
  given_up,   \* records that will not be stored on behalf of their offset
  committed,  \* committed[t]: last record of topic t never delivered again
  accepted,   \* requests answered 202
  live        \* events shown on the live stream

vars == <<stored, given_up, committed, accepted, live>>

Init ==
  /\ stored = {}
  /\ given_up = {}
  /\ committed = [t \in Topics |-> 0]
  /\ accepted = {}
  /\ live = {}

Store ==
  /\ stored \subseteq stored'
  /\ UNCHANGED <<given_up, committed, accepted, live>>

GiveUp ==
  /\ given_up \subseteq given_up'
  /\ UNCHANGED <<stored, committed, accepted, live>>

Accept(r) ==
  /\ r \in stored
  /\ accepted' = accepted \cup {r}
  /\ UNCHANGED <<stored, given_up, committed, live>>

Show(e) ==
  /\ e \in stored
  /\ live' = live \cup {e}
  /\ UNCHANGED <<stored, given_up, committed, accepted>>

Commit(t) ==
  /\ committed'[t] \in Nat
  /\ committed'[t] > committed[t]
  /\ \A i \in 1..committed'[t] : <<t, i>> \in stored \cup given_up
  /\ committed' = [committed EXCEPT ![t] = committed'[t]]
  /\ UNCHANGED <<stored, given_up, accepted, live>>

Next ==
  \/ Store
  \/ GiveUp
  \/ \E r \in Requests : Accept(r)
  \/ \E e \in stored : Show(e)
  \/ \E t \in Topics : Commit(t)

Spec == Init /\ [][Next]_vars

=============================================================================
