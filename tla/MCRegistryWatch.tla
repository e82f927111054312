-------------------------- MODULE MCRegistryWatch --------------------------
(* Instances of RegistryWatch for TLC.                                      *)
EXTENDS RegistryWatch

CONSTANTS w1, w2
============================================================================
