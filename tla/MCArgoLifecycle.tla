-------------------------- MODULE MCArgoLifecycle --------------------------
(* Two runs of the lifecycle script against one cluster, interchangeable.  *)
EXTENDS ArgoLifecycle, TLC

Symmetry == Permutations(Run)
=============================================================================
