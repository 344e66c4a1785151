SPECIFICATION Spec
CONSTANTS
  w1 = w1
  w2 = w2
  t1 = t1
  Wallets = {w1, w2}
  Transfers = {t1}
  Amounts = {1, 2}
  MaxBalance = 3
  Faults = {}
INVARIANT ValidTransferSucceeds
CHECK_DEADLOCK FALSE
