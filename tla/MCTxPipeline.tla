---------------------------- MODULE MCTxPipeline ----------------------------
(* TxPipeline for a few coin types, with the rules the code has for them.    *)
EXTENDS TxPipeline

Rules == INSTANCE CoinRules

MCLedger == [c \in Coins |-> Rules!LedgerOf[Rules!ChainOf[c]]]
MCAbort  == [c \in Coins |-> {e \in Rules!NodeError : Rules!Abort(c, e)}]
MCStop   ==
  [c \in Coins |-> {e \in Rules!NodeError : Rules!Final(Rules!ChainOf[c], e)}]

(* Two transactions of one account; of solana's, one has a token without an *)
(* entry.                                                                   *)
CONSTANTS t1, t2, a1
MCFrom       == [t \in {t1, t2} |-> a1]
MCRegistered == [c \in Coins |-> IF c = "solana" THEN {t1} ELSE {t1, t2}]

=============================================================================
