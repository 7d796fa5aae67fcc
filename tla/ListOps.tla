------------------------------- MODULE ListOps ------------------------------
(***************************************************************************)
(* dashboard: Array.prototype.filter, as the hooks and the toasts use it:  *)
(* every entry but the ones to drop.                                       *)
(***************************************************************************)
EXTENDS Integers, Sequences

\* s.filter: the entries that are not in D, in their order.
Without(s, D) ==
  LET kept[i \in 0..Len(s)] ==
        IF i = 0 THEN <<>>
        ELSE IF s[i] \in D THEN kept[i - 1] ELSE Append(kept[i - 1], s[i])
  IN  kept[Len(s)]
=============================================================================
