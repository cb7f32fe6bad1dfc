--------------------------- MODULE MCCompanyWallet ---------------------------
(* Two top-up requests, three record commands (so that two owners can race *)
(* for one request while a third records a direct top-up), two payments.   *)
EXTENDS CompanyWallet, TLC

Symmetry == Permutations(TopUps) \cup Permutations(RecordCommands)
              \cup Permutations(Requests)
=============================================================================
