------------------------------- MODULE MCUtxo -------------------------------
(* Utxo with amounts for TLC. *)
EXTENDS Utxo, TLC

CONSTANTS a, b, c, d, x, y

Amounts == (a :> 2 @@ b :> 1 @@ c :> 3 @@ d :> 1)
Values == (x :> 4 @@ y :> 2)
=============================================================================
