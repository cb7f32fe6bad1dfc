---------------------------- MODULE MCEmailOutbox ----------------------------
(* An enquiry and a security link, one process that may be replaced while  *)
(* its predecessor still answers.                                          *)
EXTENDS EmailOutbox
=============================================================================
