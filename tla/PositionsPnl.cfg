SPECIFICATION Spec
CONSTANTS
  Prices = {1, 2}
  Qtys = {1, 2}
  Quotes <- MCQuotes
  MaxExecutions = 4
INVARIANTS
  TypeOK
  BreakEven
  
CHECK_DEADLOCK FALSE
