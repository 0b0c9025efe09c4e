----------------------------- MODULE MCIngress -----------------------------
(* An instance of Ingress for TLC. *)
EXTENDS Ingress

=============================================================================
