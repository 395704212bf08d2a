------------------------------ MODULE MCStore ------------------------------
(* The instance of MachineClient that TLC checks; its constants are model  *)
(* values and numbers, given in store.cfg.                                 *)
EXTENDS MachineClient
============================================================================
