--------------------------- MODULE MCDeliveryClaims ---------------------------
(* Ali has two tabs, or one; Bea, who may be missing, has one. *)
EXTENDS DeliveryClaims

CONSTANTS t1, t2, t3, ali, bea

Signed == [t \in Tabs |-> IF t = t3 THEN bea ELSE ali]
=============================================================================
