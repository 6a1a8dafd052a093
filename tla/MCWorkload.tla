----------------------------- MODULE MCWorkload -----------------------------
(* Besides the wanted template one with the same image for another cluster *)
(* and one with another image; pods are interchangeable.                   *)
EXTENDS WorkloadQualification, TLC

MCWanted   == [image |-> "a", slot |-> "aks01"]
MCTemplate == {MCWanted, [image |-> "a", slot |-> "aks02"], [image |-> "b", slot |-> "aks01"]}

Symmetry == Permutations(Pod)
=============================================================================
