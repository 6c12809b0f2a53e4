\* The top-ups of a wallet that is an account, and is linked, unlinked and linked elsewhere.
SPECIFICATION FairSpec
CONSTANTS
  alice = alice
  bob = bob
  wallet = wallet
  siws = siws
  ethTx = ethTx
  usdcTx = usdcTx
  dustTx = dustTx
  solTx = solTx
  siwsTx = siwsTx
  r1 = r1
  r2 = r2
  None = None
  Accounts = {alice, siws}
  Wallets = {wallet, siws}
  Txs = {siwsTx}
  Requests = {r1, r2}
  Chain <- MCChain
  Sender <- MCSender
  Pays <- MCPays
  Value <- MCValue
  CanCrash = TRUE
  WritesCanFail = TRUE
  RepliesCanFail = FALSE
INVARIANTS CreditsOnce
PROPERTIES LockReleased
