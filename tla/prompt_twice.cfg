CONSTANTS
  Ordered = 2
  Quantities = {1}
  MaxRecords = 3
  MaxPayments = 1
SPECIFICATION Spec
INVARIANTS OnePromptOpen
