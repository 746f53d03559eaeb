\* A wallet made by FairWallet::new for nonce 0 keeps one transaction.
CONSTANTS
  t1 = t1
  t2 = t2
  t3 = t3
  Hashes = {t1, t2, t3}
  MaxSize = 0
  MaxTime = 2
SPECIFICATION Spec
INVARIANTS UnconfirmedNeverDropped
