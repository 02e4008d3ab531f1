-------------------------- MODULE MCTokenRegistry --------------------------
(* TokenRegistry with entries of ethereum's lists: the coin, Tether USD once *)
(* in eth's list and once in erc20's, USD Coin under a coin type of its own  *)
(* and as an entry of erc20's list would be (there is none today: the only   *)
(* way to replace a record of another coin type), and one more token.        *)
EXTENDS TokenRegistry, TLC

CONSTANTS eth, usdt100, usdt1, usdc100, usdc1, elon

MCname == (eth :> "ethereum" @@ usdt100 :> "usdterc20" @@ usdt1 :> "ethereum_erc20_Tether-USD"
           @@ usdc100 :> "usdcerc20" @@ usdc1 :> "ethereum_erc20_Coins-USD"
           @@ elon :> "ethereum_erc20_Dogelon")
MCofficialContract == (eth :> "ethereum" @@ usdt100 :> "0xdAC1" @@ usdt1 :> "0xdAC1"
           @@ usdc100 :> "0xA0b8" @@ usdc1 :> "0xA0b8" @@ elon :> "0x761D")
MCweight == [t \in {eth, usdt100, usdc100} |-> 100] @@ [t \in {usdt1, usdc1, elon} |-> 1]
MCcoinType == (usdc100 :> "usdcerc20") @@ [t \in {eth, usdt100, usdt1, usdc1, elon} |-> "ethereum"]
MCNames == {MCname[t] : t \in Tokens}
MCContracts == {MCofficialContract[t] : t \in Tokens}
MCPlugins == {[net |-> "main", coinType |-> "ethereum"], [net |-> "test", coinType |-> "ethereum"],
              [net |-> "test", coinType |-> "usdcerc20"]}

=============================================================================
