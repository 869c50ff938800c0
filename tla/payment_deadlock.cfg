CONSTANTS
  p1 = p1
  p2 = p2
  e1 = e1
  i1 = i1
  i2 = i2
  i3 = i3
  i4 = i4
  c1 = c1
  c2 = c2
  t1 = t1
  t2 = t2
  Pas = {p1, p2}
  Claims = {e1}
  CreditChoices <- Choices
  Requests <- Asked
  Invoices = {i1, i2, i3, i4}
  Credits <- OneCredit
  Batches = {b1, b2}
  Txs = {t1, t2}
  Amount <- InvoiceAmounts
  Prices = {}
  AsDue = AsDue
  Orders <- Ordered
  Due <- DocAmounts
  Links <- PaLinks
  Relinks <- Alternatives
  Face <- CreditAmounts
  Oldest = Oldest
  MaxEdits = 0
SPECIFICATION BatchSpec
PROPERTIES ExecutionsEnd
CHECK_DEADLOCK FALSE
