\* A transfer of USDC submitted as one of ETH: rejected for ever.
SPECIFICATION Spec
CONSTANTS
  alice = alice
  bob = bob
  wallet = wallet
  siws = siws
  ethTx = ethTx
  usdcTx = usdcTx
  dustTx = dustTx
  solTx = solTx
  siwsTx = siwsTx
  r1 = r1
  r2 = r2
  None = None
  Accounts = {alice}
  Wallets = {}
  Txs = {usdcTx}
  Requests = {r1}
  Chain <- MCChain
  Sender <- MCSender
  Pays <- MCPays
  Value <- MCValue
  CanCrash = FALSE
  WritesCanFail = FALSE
  RepliesCanFail = FALSE
INVARIANTS RejectedIsInvalid
