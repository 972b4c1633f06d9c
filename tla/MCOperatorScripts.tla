------------------------- MODULE MCOperatorScripts --------------------------
(***************************************************************************)
(* Values for the constants of OperatorScripts.                            *)
(***************************************************************************)
EXTENDS OperatorScripts

\* A fused triple, a lone mint, and a triple cut short by the end.
MCRows == <<"update_prices", "update_svi", "mint", "mint", "update_prices", "update_svi">>
MCExpiries == <<1, 2>>
MCTopUps == <<4>>
=============================================================================
