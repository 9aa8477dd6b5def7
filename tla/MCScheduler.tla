----------------------------- MODULE MCScheduler -----------------------------
(***************************************************************************)
(* Instances of Scheduler for TLC.  Clients and slots are interchangeable. *)
(***************************************************************************)
EXTENDS Scheduler, TLC

Alike == Permutations(Clients) \cup Permutations(Slots)

=============================================================================
