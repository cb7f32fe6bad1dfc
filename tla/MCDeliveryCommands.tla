-------------------------- MODULE MCDeliveryCommands --------------------------
(* One tab that is reloaded and crashes, two jobs, two commands. *)
EXTENDS DeliveryCommands
=============================================================================
