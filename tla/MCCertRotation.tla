---------------------------- MODULE MCCertRotation ----------------------------
(***************************************************************************)
(* CertRotation for TLC: the .cfg files give the sets and the switches.    *)
(***************************************************************************)
EXTENDS CertRotation

=============================================================================
