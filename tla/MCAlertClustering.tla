-------------------------- MODULE MCAlertClustering --------------------------
(***************************************************************************)
(* Instances of AlertClustering for TLC: two alerts of one kind and one of *)
(* another, so that each layer has a group to make.                        *)
(***************************************************************************)
EXTENDS AlertClustering, TLC

CONSTANTS a1, a2, a3, x, y

MCIdentity == a1 :> x @@ a2 :> x @@ a3 :> y

Alike == Permutations({a1, a2})

=============================================================================
