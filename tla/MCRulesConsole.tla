--------------------------- MODULE MCRulesConsole ---------------------------
(***************************************************************************)
(* RulesConsole for TLC.  Rules, requests and loads are interchangeable.   *)
(***************************************************************************)
EXTENDS RulesConsole, TLC

Symmetry ==
  Permutations(Rules) \cup Permutations(Handlers) \cup Permutations(Loads)

=============================================================================
