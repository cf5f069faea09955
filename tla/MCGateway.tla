------------------------------ MODULE MCGateway ------------------------------
(* GatewayOps for TLC. *)
EXTENDS GatewayOps
=============================================================================
