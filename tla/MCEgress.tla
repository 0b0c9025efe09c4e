------------------------------ MODULE MCEgress ------------------------------
(* An instance of Egress for TLC. *)
EXTENDS Egress

=============================================================================
