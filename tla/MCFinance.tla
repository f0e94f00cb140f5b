------------------------------ MODULE MCFinance ------------------------------
(***************************************************************************)
(* A calendar of three short months for model-checking Finance.             *)
(***************************************************************************)
EXTENDS Finance

ShortMonths == <<3, 2, 3>>
AnyRequest == Permutations(Requests)
=============================================================================
