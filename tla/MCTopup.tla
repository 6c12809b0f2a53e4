------------------------------- MODULE MCTopup -------------------------------
(***************************************************************************)
(* Small instances of Topup: one transaction per case the paths tell       *)
(* apart.                                                                  *)
(***************************************************************************)
EXTENDS Topup, TLC

CONSTANTS alice, bob, wallet, siws, ethTx, usdcTx, dustTx, solTx, siwsTx, r1, r2

MCChain  == [t \in Txs |-> IF t \in {solTx, siwsTx} THEN "solana" ELSE "ethereum"]
MCSender == [t \in Txs |-> IF t = solTx THEN wallet
                           ELSE IF t = siwsTx THEN siws ELSE alice]
MCPays   == [t \in Txs |-> IF t = usdcTx THEN {"token"} ELSE {"native"}]
MCValue  == [t \in Txs |-> IF t = dustTx THEN "dust"
                           ELSE IF t = ethTx THEN "borderline" ELSE "enough"]

\* Invocations are alike.
RequestSymmetry == Permutations(Requests)
=============================================================================
