------------------------- MODULE MCMegaRAIDCommands -------------------------
(* TLC instances of MegaRAIDCommands and of its refinement. *)
EXTENDS MegaRAIDRefinement, TLC

\* ccbs, tasks and managers are interchangeable within their sets.
Symmetry == Permutations(Ccbs) \cup Permutations(Tasks) \cup Permutations(Managers)
=============================================================================
