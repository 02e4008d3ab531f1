----------------------------- MODULE CoinRules ------------------------------
(***************************************************************************)
(* How the plugin sorts the errors of a chain node: which of them end a     *)
(* transaction (getter.Abort, with what pkg/coins/*/plugin registers) and   *)
(* which of them end a broadcast handler's search for a node.               *)
(*                                                                          *)
(* A node's error text is one of a few strings, and a stop list matches it  *)
(* when it contains one of its own; here a text is named by the part of it  *)
(* the lists look for.                                                      *)
(***************************************************************************)
NodeError == {"already_known", "slot_spent", "pool_conflict", "expired",
              "no_funds", "transport"}

(* stopErrMsg (stopErrs in tron) of each package. *)
ethStop    == {"intrinsic gas too low", "insufficient funds", "nonce too low",
               "invalid amount", "token funds too low"}
bscStop    == {"intrinsic gas too low", "insufficient funds", "nonce too low"}
filStop    == {"fil tx failed", "message nonce too low"}
btcStop    == {"insufficient balance", "list unspent address fail",
               "env value", "address invalid", "amount invalid"}
depincStop == {"insufficient balance", "list unspent address fail",
               "env value", "address invalid", "amount invalid"}
solStop    == {"insufficient lamports", "sol transaction failed",
               "Transaction simulation failed", "signature verification failure",
               "signature length mismatch", "version not supported"}
tronStop   == {"Transaction expired", "balance is not sufficient",
               "address is invalid", "account not found", "build transaction failed"}

stopErrMsg == [eth |-> ethStop, bsc |-> bscStop, fil |-> filStop, btc |-> btcStop,
               depinc |-> depincStop, sol |-> solStop, tron |-> tronStop]

TxFailErr(p, text) == text \in stopErrMsg[p]

(* RegisteAbortFuncErr(coin type, package's TxFailErr), plugin by plugin.   *)
(* usdc's plugin, on ethereum, registers bsc's function; bep20's registers  *)
(* binanceusd, and nothing for usdtbep20.                                   *)
ethRegisters    == <<"ethereum", "eth">>
usdcRegisters   == <<"usdcerc20", "bsc">>
bscRegisters    == <<"binancecoin", "bsc">>
bep20Registers  == <<"binanceusd", "bsc">>
filRegisters    == <<"filecoin", "fil">>
btcRegisters    == <<"bitcoin", "btc">>
depincRegisters == <<"depinc", "depinc">>
solRegisters    == <<"solana", "sol">>
tronRegisters   == <<"tron", "tron">>
trc20Registers  == <<"usdttrc20", "tron">>

AbortFuncErrs ==
  {ethRegisters, usdcRegisters, bscRegisters, bep20Registers, filRegisters,
   btcRegisters, depincRegisters, solRegisters, tronRegisters, trc20Registers}

(* The package of the chain a coin type lives on. *)
ChainOf ==
  [ethereum |-> "eth", usdcerc20 |-> "eth", binancecoin |-> "bsc",
   binanceusd |-> "bsc", usdtbep20 |-> "bsc", filecoin |-> "fil",
   bitcoin |-> "btc", depinc |-> "depinc", solana |-> "sol",
   tron |-> "tron", usdttrc20 |-> "tron"]

(* What the nodes of a chain say in each situation. *)
NodeText ==
  LET Text(known, spent, conflict, old, poor) ==
        [already_known |-> known, slot_spent |-> spent, pool_conflict |-> conflict,
         expired |-> old, no_funds |-> poor, transport |-> "timeout"]
      evm  == Text("already known", "nonce too low", "replacement underpriced", "-",
                   "insufficient funds")
      utxo == Text("already in block chain", "missing inputs", "mempool conflict", "-",
                   "insufficient balance")
      sim  == "Transaction simulation failed"
  IN [eth |-> evm, bsc |-> evm, btc |-> utxo, depinc |-> utxo,
      fil |-> Text("already in mpool", "message nonce too low", "replace by fee", "-",
                   "not enough funds"),
      sol |-> Text(sim, "-", "-", sim, sim),
      tron |-> Text("Dup transaction", "-", "-", "Transaction expired",
                    "balance is not sufficient")]

(* getter.Abort for what a node said: no such text is one of the values in  *)
(* AbortErrs, so only the registered function counts.                       *)
Abort(coin, e) ==
  \E f \in AbortFuncErrs : f[1] = coin /\ TxFailErr(f[2], NodeText[ChainOf[coin]][e])

(* The broadcast handlers that return (false, err) for some e, and so keep  *)
(* WithClient from trying another node; the others always try another.      *)
ethFinal(e)  == TxFailErr("eth", NodeText["eth"][e])
bscFinal(e)  == TxFailErr("bsc", NodeText["bsc"][e])
solFinal(e)  == TxFailErr("sol", NodeText["sol"][e])
tronFinal(e) == e = "expired"

Final(chain, e) ==
  \/ chain = "eth"  /\ ethFinal(e)
  \/ chain = "bsc"  /\ bscFinal(e)
  \/ chain = "sol"  /\ solFinal(e)
  \/ chain = "tron" /\ tronFinal(e)

(* How the chain orders transactions. *)
LedgerOf ==
  [eth |-> "nonce", bsc |-> "nonce", fil |-> "nonce", btc |-> "utxo",
   depinc |-> "utxo", sol |-> "expiry", tron |-> "expiry"]

=============================================================================
