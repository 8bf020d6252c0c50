-------------------------- MODULE MCTorchCommNCCLX --------------------------
(* Small instances of the NCCLX communicator for TLC. *)
EXTENDS TorchCommNCCLX
=============================================================================
