-------------------------- MODULE MCRegistrationLoop --------------------------
(* The values of the instance are in RegistrationLoop_safety.cfg.             *)
EXTENDS RegistrationLoop
=============================================================================
