---------------------------- MODULE MCGRPCServer ----------------------------
(* One request of the gateway and one Close. *)
EXTENDS GRPCServer
=============================================================================
