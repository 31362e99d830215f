--------------------------- MODULE MCCoordinator ---------------------------
(* The coordinator by itself on a small instance in observe mode, where    *)
(* agents may share a resource.  MCBridge has the enforce mode.            *)
EXTENDS CoordinatorRefinement, TLC

\* Sessions and tabs are interchangeable: no action singles one out.
Symmetry == Permutations(Session) \union Permutations(Tab)
=============================================================================
