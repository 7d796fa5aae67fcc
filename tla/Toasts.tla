-------------------------------- MODULE Toasts ------------------------------
(***************************************************************************)
(* dashboard: the toasts.  Each has a number of its own and a timer that   *)
(* removes it; at most Kept older ones stay when a new one comes.          *)
(***************************************************************************)
EXTENDS ListOps, FiniteSets

CONSTANTS
  Kept,        \* toasts that stay when one is added (4)
  MaxOthers    \* bound: toasts of the page shown before

ASSUME ToastsAssumption == Kept \in Nat /\ MaxOthers \in 0..(Kept + 1)

VARIABLES
  toasts,   \* numbers of the toasts on screen, oldest first
  timers,   \* toasts whose timer has not fired
  idRef     \* the next number

toastVars == <<toasts, timers, idRef>>

\* The page shown before (Rules) has raised n toasts.
ToastInit(n) == toasts = [i \in 1..n |-> i] /\ timers = 1..n /\ idRef = n + 1

\* slice(-n).
LastOf(s, n) == IF Len(s) <= n THEN s ELSE SubSeq(s, Len(s) - n + 1, Len(s))

\* n calls of toast(), one after the other.
Raise(n) ==
  LET new == [i \in 1..n |-> idRef + i - 1] IN
  /\ toasts' = IF n = 0 THEN toasts ELSE LastOf(toasts \o new, Kept + 1)
  /\ timers' = timers \cup {new[i] : i \in 1..n}
  /\ idRef' = idRef + n

\* Seeded fault: the oldest one goes, whichever was meant.
DismissOldest(id) == IF toasts = <<>> THEN toasts ELSE Tail(toasts)

\* dismiss(id): the others stay; one that is gone already is ignored.
Dismissed(id) == Without(toasts, {id})

TimerFires(id) ==
  /\ timers' = timers \ {id}
  /\ toasts' = Dismissed(id)
  /\ UNCHANGED idRef

\* The cross or a swipe; the timer is left running.
Dismiss(id) ==
  /\ \E i \in DOMAIN toasts : toasts[i] = id
  /\ toasts' = Dismissed(id)
  /\ UNCHANGED <<timers, idRef>>

-----------------------------------------------------------------------------
(* Properties.                                                             *)

ToastTypeOK ==
  /\ idRef \in Nat \ {0}
  /\ toasts \in Seq(1..(idRef - 1)) /\ Len(toasts) <= Kept + 1
  /\ timers \subseteq 1..(idRef - 1)

\* No toast is left on screen for ever: whatever was raised, pushed out,
\* dismissed or timed out before, in any order, every toast that is shown has
\* its own timer running and is shown once.
NoStickyToast ==
  /\ \A i \in DOMAIN toasts : toasts[i] \in timers
  /\ \A i, j \in DOMAIN toasts : toasts[i] = toasts[j] => i = j

=============================================================================
