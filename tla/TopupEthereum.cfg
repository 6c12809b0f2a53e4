\* Ethereum top-ups under every fault.
SPECIFICATION Spec
CONSTANTS
  alice = alice
  bob = bob
  wallet = wallet
  siws = siws
  ethTx = ethTx
  usdcTx = usdcTx
  dustTx = dustTx
  solTx = solTx
  siwsTx = siwsTx
  r1 = r1
  r2 = r2
  None = None
  Accounts = {alice, bob}
  Wallets = {}
  Txs = {ethTx, usdcTx, dustTx}
  Requests = {r1, r2}
  Chain <- MCChain
  Sender <- MCSender
  Pays <- MCPays
  Value <- MCValue
  CanCrash = TRUE
  WritesCanFail = TRUE
  RepliesCanFail = TRUE
INVARIANTS TypeOK ReplayLock CreditsAreEarned RowsTellTruth EthCreditsOnce PendingIsOwned
PROPERTIES SettledForGood
SYMMETRY RequestSymmetry
