SPECIFICATION Spec
CONSTANTS
  MaxInvoices = 2
  MaxDocs = 3
  MaxAmount = 2
  Amounts = {1, 2}
  Txs = {t1, t2}
  t1 = t1
  t2 = t2
SYMMETRY Transactions
INVARIANT TypeOK
INVARIANT PaidIsSumOfRows
INVARIANT MoneyBounded
INVARIANT LedgerFollowsInvoices
INVARIANT StatusFollowsBalance
CHECK_DEADLOCK FALSE
