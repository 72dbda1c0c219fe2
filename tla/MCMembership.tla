----------------------------- MODULE MCMembership -----------------------------
(* Small deployments of Membership.                                          *)
EXTENDS Membership, TLC

=============================================================================
