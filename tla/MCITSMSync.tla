----------------------------- MODULE MCITSMSync -----------------------------
(***************************************************************************)
(* Instances of ITSMSync for TLC: two changes, of the two integrations or  *)
(* both of the second.                                                     *)
(***************************************************************************)
EXTENDS ITSMSync, TLC

CONSTANTS c1, c2

MCOrigins == {c1 :> 1 @@ c2 :> 2, c1 :> 2 @@ c2 :> 2}

=============================================================================
