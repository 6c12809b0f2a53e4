\* A lost reply of the object and a wallet that moves: two accounts credited.
SPECIFICATION Spec
CONSTANTS
  alice = alice
  bob = bob
  wallet = wallet
  siws = siws
  ethTx = ethTx
  usdcTx = usdcTx
  dustTx = dustTx
  solTx = solTx
  siwsTx = siwsTx
  r1 = r1
  r2 = r2
  None = None
  Accounts = {alice, bob}
  Wallets = {wallet}
  Txs = {solTx}
  Requests = {r1}
  Chain <- MCChain
  Sender <- MCSender
  Pays <- MCPays
  Value <- MCValue
  CanCrash = FALSE
  WritesCanFail = FALSE
  RepliesCanFail = TRUE
INVARIANTS CreditsOnce
