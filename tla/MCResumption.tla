---------------------------- MODULE MCResumption ----------------------------
(* Instances of Resumption for TLC. *)
EXTENDS Resumption, TLC

ActorSymmetry == Permutations(Callbacks) \cup Permutations(Workers)
=============================================================================
