-------------------------- MODULE MCBridgeDeployment --------------------------
(* The values of the instance are in BridgeDeployment_safety.cfg.             *)
EXTENDS BridgeDeployment
=============================================================================
