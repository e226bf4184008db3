-------------------------- MODULE MCMcuTransport -----------------------------
(* Instances of McuTransport for TLC.                                      *)
EXTENDS McuTransport
=============================================================================
