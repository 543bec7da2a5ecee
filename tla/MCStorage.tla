------------------------------ MODULE MCStorage ------------------------------
(* Instances of Storage for TLC: the sets are given in the configurations. *)
(* No symmetry: storage.cfg checks liveness.                               *)
EXTENDS Storage
=============================================================================
