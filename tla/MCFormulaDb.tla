---------------------------- MODULE MCFormulaDb -----------------------------
(***************************************************************************)
(* FormulaDbs on a small instance: formula ids whose texts share a digit,  *)
(* and enough insertions for a counter of two digits.                      *)
(***************************************************************************)
EXTENDS FormulaDbs
=============================================================================
