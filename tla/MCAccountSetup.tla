--------------------------- MODULE MCAccountSetup ---------------------------
(***************************************************************************)
(* Two links and two visitors: a link is replaced, and the account         *)
(* suspended and reactivated, while both visitors hold a checked link.     *)
(***************************************************************************)
EXTENDS AccountSetup

=============================================================================
