-------------------------- MODULE RateLimiterProofs --------------------------
(***************************************************************************)
(* Proofs about RateLimiter for any requests, limit, window and delay: the *)
(* types, the bound on what passes and the reason for every refusal.  The  *)
(* inductive invariant has one part per idea:                              *)
(*   ClockInv    a timestamp is not in the future, and a pending request   *)
(*               is at most MaxDelay old                                   *)
(*   MemberInv   a request that passed is in the sorted set until a window *)
(*               has gone by, and the key outlives its members             *)
(*   WindowInv   WindowBound for the windows that begin at any time        *)
(***************************************************************************)
EXTENDS RateLimiter, FiniteSetTheorems, TLAPS

ClockInv ==
  \A r \in Requests :
    /\ ts[r] <= now
    /\ pc[r] = "allow" => now <= ts[r] + MaxDelay

MemberInv ==
  /\ \A r \in Requests : pc[r] = "passed" => r \in members \/ ts[r] + Window <= now
  /\ \A r \in members : ts[r] + Window <= expires

WindowInv ==
  \A t \in Int : Cardinality(PassedWithin(t, Window - MaxDelay)) <= Limit

IInv == TypeOK /\ ClockInv /\ MemberInv /\ WindowInv /\ RefusedForCause

-----------------------------------------------------------------------------
(* Finite sets of requests.                                                *)

\* A part of a set of requests is finite and has no more elements.
LEMMA PartIsSmaller ==
  ASSUME NEW S \in SUBSET Requests, NEW T \in SUBSET S
  PROVE  /\ IsFiniteSet(S) /\ IsFiniteSet(T)
         /\ Cardinality(S) \in Nat /\ Cardinality(T) \in Nat
         /\ Cardinality(T) <= Cardinality(S)
<1>1. IsFiniteSet(S)
  BY RequestsAssumption, FS_Subset
<1>2. IsFiniteSet(T) /\ Cardinality(T) <= Cardinality(S)
  BY <1>1, FS_Subset
<1> QED
  BY <1>1, <1>2, FS_CardinalityType

-----------------------------------------------------------------------------
(* Types and clock.                                                        *)

\* The initial state satisfies the inductive invariant.
LEMMA InitInv == Init => IInv
<1> SUFFICES ASSUME Init PROVE IInv
  OBVIOUS
<1>1. TypeOK
  BY DEF Init, TypeOK
<1>2. ClockInv /\ MemberInv /\ RefusedForCause
  BY TimeAssumption DEF Init, ClockInv, MemberInv, RefusedForCause
<1>3. WindowInv
  <2> SUFFICES ASSUME NEW t \in Int
               PROVE  Cardinality(PassedWithin(t, Window - MaxDelay)) <= Limit
    BY DEF WindowInv
  <2>1. PassedWithin(t, Window - MaxDelay) = {}
    BY DEF PassedWithin, Init
  <2> QED
    BY <2>1, FS_EmptySet, TimeAssumption
<1> QED
  BY <1>1, <1>2, <1>3 DEF IInv

\* Every step keeps the types.
LEMMA NextType == TypeOK /\ [Next]_vars => TypeOK'
<1> SUFFICES ASSUME TypeOK, [Next]_vars PROVE TypeOK'
  OBVIOUS
<1> USE TimeAssumption DEF TypeOK
<1>1. CASE Tick
  BY <1>1 DEF Tick
<1>2. ASSUME NEW r \in Requests, Arrive(r) PROVE TypeOK'
  BY <1>2 DEF Arrive
<1>3. ASSUME NEW r \in Requests, Allow(r) PROVE TypeOK'
  BY <1>3 DEF Allow, Transaction, Kept, Found, Expiry
<1>4. ASSUME NEW r \in Requests, AnswerLost(r) PROVE TypeOK'
  BY <1>4 DEF AnswerLost, Transaction, Kept, Found, Expiry
<1>5. ASSUME NEW r \in Requests, Unavailable(r) PROVE TypeOK'
  BY <1>5 DEF Unavailable
<1>6. CASE UNCHANGED vars
  BY <1>6 DEF vars
<1> QED
  BY <1>1, <1>2, <1>3, <1>4, <1>5, <1>6 DEF Next

\* Every step keeps ClockInv: only Tick moves the clock, and it waits for the
\* requests on their way to Redis.
LEMMA NextClock == TypeOK /\ ClockInv /\ [Next]_vars => ClockInv'
<1> SUFFICES ASSUME TypeOK, ClockInv, [Next]_vars PROVE ClockInv'
  OBVIOUS
<1> USE TimeAssumption DEF TypeOK, ClockInv
<1>1. CASE Tick
  BY <1>1 DEF Tick
<1>2. ASSUME NEW r \in Requests, Arrive(r) PROVE ClockInv'
  BY <1>2 DEF Arrive
<1>3. ASSUME NEW r \in Requests, Allow(r) PROVE ClockInv'
  BY <1>3 DEF Allow
<1>4. ASSUME NEW r \in Requests, AnswerLost(r) PROVE ClockInv'
  BY <1>4 DEF AnswerLost
<1>5. ASSUME NEW r \in Requests, Unavailable(r) PROVE ClockInv'
  BY <1>5 DEF Unavailable
<1>6. CASE UNCHANGED vars
  BY <1>6 DEF vars
<1> QED
  BY <1>1, <1>2, <1>3, <1>4, <1>5, <1>6 DEF Next

-----------------------------------------------------------------------------
(* The sorted set.                                                         *)

\* A transaction, whatever becomes of its answer, drops a request from the set
\* only when a window has gone by since its timestamp.
LEMMA TransactionKeeps ==
  ASSUME TypeOK, ClockInv, MemberInv, NEW r \in Requests, Transaction(r)
  PROVE  /\ \A q \in members : q \in members' \/ ts[q] + Window <= now
         /\ \A q \in members' : ts[q] + Window <= expires'
         /\ r \in members'
<1> USE TimeAssumption DEF TypeOK, ClockInv, MemberInv, Transaction, Kept, Found, Expiry
<1>1. ASSUME NEW q \in members PROVE q \in members' \/ ts[q] + Window <= now
  <2>1. CASE now < expires
    BY <2>1
  <2>2. CASE ~(now < expires)
    BY <2>2
  <2> QED
    BY <2>1, <2>2
<1>2. ASSUME NEW q \in members' PROVE ts[q] + Window <= expires'
  BY <1>2
<1> QED
  BY <1>1, <1>2

\* Every step keeps MemberInv.
LEMMA NextMember == TypeOK /\ ClockInv /\ MemberInv /\ [Next]_vars => MemberInv'
<1> SUFFICES ASSUME TypeOK, ClockInv, MemberInv, [Next]_vars PROVE MemberInv'
  OBVIOUS
<1> USE TimeAssumption
<1>1. CASE Tick
  BY <1>1 DEF Tick, MemberInv, TypeOK
<1>2. ASSUME NEW r \in Requests, Arrive(r) PROVE MemberInv'
  BY <1>2 DEF Arrive, MemberInv, TypeOK
<1>3. ASSUME NEW r \in Requests, Allow(r) PROVE MemberInv'
  <2>1. Transaction(r) /\ ts' = ts /\ now' = now
    BY <1>3 DEF Allow
  <2>2. \A q \in Requests : pc'[q] = "passed" => q = r \/ pc[q] = "passed"
    BY <1>3 DEF Allow, TypeOK
  <2> QED
    BY <2>1, <2>2, TransactionKeeps DEF MemberInv
<1>4. ASSUME NEW r \in Requests, AnswerLost(r) PROVE MemberInv'
  <2>1. Transaction(r) /\ ts' = ts /\ now' = now /\ pc' = pc
    BY <1>4 DEF AnswerLost
  <2> QED
    BY <2>1, TransactionKeeps DEF MemberInv
<1>5. ASSUME NEW r \in Requests, Unavailable(r) PROVE MemberInv'
  BY <1>5 DEF Unavailable, MemberInv, TypeOK
<1>6. CASE UNCHANGED vars
  BY <1>6 DEF vars, MemberInv
<1> QED
  BY <1>1, <1>2, <1>3, <1>4, <1>5, <1>6 DEF Next

-----------------------------------------------------------------------------
(* The bound.                                                              *)

\* When a request passes, all that passed with it in a shortened window are
\* still in the sorted set: those that left it are a window older than the
\* present, and the request itself is at most MaxDelay older.
LEMMA PassedAreMembers ==
  ASSUME TypeOK, ClockInv, MemberInv, NEW r \in Requests, Allow(r), NEW t \in Int,
         r \in PassedWithin(t, Window - MaxDelay)'
  PROVE  PassedWithin(t, Window - MaxDelay)' \subseteq members'
<1> SUFFICES ASSUME NEW q \in Requests, q \in PassedWithin(t, Window - MaxDelay)'
             PROVE  q \in members'
  BY DEF PassedWithin
<1> USE TimeAssumption
<1>1. Transaction(r) /\ ts' = ts /\ now' = now /\ pc[r] = "allow"
  BY DEF Allow
<1>2. CASE q = r
  BY <1>1, <1>2, TransactionKeeps
<1>3. CASE q # r
  <2>1. pc[q] = "passed"
    BY <1>3 DEF Allow, PassedWithin, TypeOK
  <2>2. q \in members' \/ ts[q] + Window <= now
    BY <1>1, <2>1, TransactionKeeps DEF MemberInv
  <2>3. /\ t <= ts[r] /\ ts[r] < t + (Window - MaxDelay)
        /\ t <= ts[q] /\ ts[q] < t + (Window - MaxDelay)
    BY <1>1 DEF PassedWithin
  <2>4. now <= ts[r] + MaxDelay
    BY <1>1 DEF ClockInv
  <2>5. now \in Int /\ ts[r] \in Int /\ ts[q] \in Int
    BY DEF TypeOK
  <2> QED
    BY <2>2, <2>3, <2>4, <2>5
<1> QED
  BY <1>2, <1>3

\* Every step keeps WindowInv; only Allow lets a request pass.
LEMMA NextWindow ==
  TypeOK /\ TypeOK' /\ ClockInv /\ MemberInv /\ WindowInv /\ [Next]_vars => WindowInv'
<1> SUFFICES ASSUME TypeOK, TypeOK', ClockInv, MemberInv, WindowInv, [Next]_vars,
                    NEW t \in Int
             PROVE  Cardinality(PassedWithin(t, Window - MaxDelay)') <= Limit
  BY DEF WindowInv
<1> DEFINE P == PassedWithin(t, Window - MaxDelay)
<1>0. Cardinality(P) <= Limit
  BY DEF WindowInv
<1>1. CASE Tick
  BY <1>0, <1>1 DEF Tick, PassedWithin
<1>2. ASSUME NEW r \in Requests, Arrive(r) PROVE Cardinality(P') <= Limit
  <2>1. P' = P
    BY <1>2 DEF Arrive, PassedWithin, TypeOK
  <2> QED
    BY <1>0, <2>1
<1>3. ASSUME NEW r \in Requests, Allow(r) PROVE Cardinality(P') <= Limit
  <2>1. CASE r \in P'
    <3>1. P' \subseteq members' /\ members' \subseteq Requests
      BY <1>3, <2>1, PassedAreMembers DEF TypeOK
    <3>2. Cardinality(P') <= Cardinality(members') /\ Cardinality(members') \in Nat
          /\ Cardinality(P') \in Nat
      BY <3>1, PartIsSmaller
    <3>3. pc'[r] = "passed"
      BY <2>1 DEF PassedWithin
    <3>4. ~ OverLimit(Cardinality(members'))
      BY <1>3, <3>3 DEF Allow, TypeOK
    <3> QED
      BY <3>2, <3>4, TimeAssumption DEF OverLimit
  <2>2. CASE r \notin P'
    <3>1. P' \subseteq P /\ P \subseteq Requests
      BY <1>3, <2>2 DEF Allow, PassedWithin, TypeOK
    <3>2. Cardinality(P') <= Cardinality(P) /\ Cardinality(P) \in Nat
          /\ Cardinality(P') \in Nat
      BY <3>1, PartIsSmaller
    <3> QED
      BY <1>0, <3>2, TimeAssumption
  <2> QED
    BY <2>1, <2>2
<1>4. ASSUME NEW r \in Requests, AnswerLost(r) PROVE Cardinality(P') <= Limit
  BY <1>0, <1>4 DEF AnswerLost, PassedWithin
<1>5. ASSUME NEW r \in Requests, Unavailable(r) PROVE Cardinality(P') <= Limit
  <2>1. P' = P
    BY <1>5 DEF Unavailable, PassedWithin, TypeOK
  <2> QED
    BY <1>0, <2>1
<1>6. CASE UNCHANGED vars
  BY <1>0, <1>6 DEF vars, PassedWithin
<1> QED
  BY <1>1, <1>2, <1>3, <1>4, <1>5, <1>6 DEF Next

-----------------------------------------------------------------------------
(* Refusals.                                                               *)

\* The other requests that count against request r.
Rivals(r) == {q \in Requests \ {r} : pc[q] # "new" /\ ts[q] > ts[r] - Window}

\* No step takes a rival of a request that has its timestamp away.
LEMMA RivalsStay ==
  ASSUME TypeOK, [Next]_vars, NEW r \in Requests, pc[r] # "new"
  PROVE  Rivals(r) \subseteq Rivals(r)'
<1>1. \A q \in Requests : pc[q] # "new" => pc'[q] # "new" /\ ts'[q] = ts[q]
  BY DEF Next, vars, Tick, Arrive, Allow, AnswerLost, Unavailable, TypeOK
<1> QED
  BY <1>1 DEF Rivals

\* Every step keeps RefusedForCause: a request is refused only when the sorted
\* set holds more than Limit requests, itself and its rivals.
LEMMA NextRefused ==
  TypeOK /\ TypeOK' /\ RefusedForCause /\ [Next]_vars => RefusedForCause'
<1> SUFFICES ASSUME TypeOK, TypeOK', RefusedForCause, [Next]_vars,
                    NEW r \in Requests, pc'[r] = "429"
             PROVE  Cardinality(Rivals(r)') >= Limit
  BY DEF RefusedForCause, Rivals
<1>0. Rivals(r)' \subseteq Requests /\ Rivals(r) \subseteq Requests
  BY DEF Rivals
<1>1. CASE pc[r] = "429"
  <2>1. Cardinality(Rivals(r)) >= Limit
    BY <1>1 DEF RefusedForCause, Rivals
  <2>2. Rivals(r) \subseteq Rivals(r)'
    BY <1>1, RivalsStay
  <2>3. Cardinality(Rivals(r)) <= Cardinality(Rivals(r)')
        /\ Cardinality(Rivals(r)) \in Nat /\ Cardinality(Rivals(r)') \in Nat
    BY <1>0, <2>2, PartIsSmaller
  <2> QED
    BY <2>1, <2>3, TimeAssumption
<1>2. CASE pc[r] # "429"
  <2>1. Allow(r)
    BY <1>2 DEF Next, vars, Tick, Arrive, Allow, AnswerLost, Unavailable, TypeOK
  <2>2. OverLimit(Cardinality(members'))
    BY <2>1 DEF Allow, TypeOK
  <2>3. r \in members' /\ members' \subseteq Requests
    BY <2>1 DEF Allow, Transaction, TypeOK
  <2>4. IsFiniteSet(members') /\ Cardinality(members') \in Nat
    BY <2>3, PartIsSmaller
  <2>5. Cardinality(members' \ {r}) = Cardinality(members') - 1
    BY <2>3, <2>4, FS_RemoveElement
  <2>6. members' \ {r} \subseteq Rivals(r)'
    BY <2>1 DEF Allow, Transaction, Kept, Found, Rivals, TypeOK
  <2>7. Cardinality(members' \ {r}) <= Cardinality(Rivals(r)')
        /\ Cardinality(Rivals(r)') \in Nat
    BY <1>0, <2>6, PartIsSmaller
  <2> QED
    BY <2>2, <2>4, <2>5, <2>7, TimeAssumption DEF OverLimit
<1> QED
  BY <1>1, <1>2

-----------------------------------------------------------------------------
(* The theorems.                                                           *)

\* The inductive invariant holds throughout.
THEOREM Invariance == Spec => []IInv
<1>1. IInv /\ [Next]_vars => IInv'
  BY NextType, NextClock, NextMember, NextWindow, NextRefused DEF IInv
<1> QED
  BY <1>1, InitInv, PTL DEF Spec

\* Every variable of the rate limiter keeps its type.
THEOREM TypeCorrect == Spec => []TypeOK
<1>1. IInv => TypeOK
  BY DEF IInv
<1> QED
  BY <1>1, Invariance, PTL

\* However requests overtake one another on the way to Redis, at most Limit of
\* a client's requests pass in any window shortened by the longest delay.
THEOREM LimitHolds == Spec => []WindowBound
<1>1. IInv => WindowBound
  BY DEF IInv, WindowInv, WindowBound, TypeOK
<1> QED
  BY <1>1, Invariance, PTL

\* Only a client that sent Limit other requests within a window is refused.
THEOREM RefusalJustified == Spec => []RefusedForCause
<1>1. IInv => RefusedForCause
  BY DEF IInv
<1> QED
  BY <1>1, Invariance, PTL

=============================================================================
