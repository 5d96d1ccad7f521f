SPECIFICATION Spec
CONSTANTS
  Callers = {u1}
  Transactions = {t1}
  ExchangeRate <- MCExchangeRate
  Unit = 2
  LpAmount = 2
  Confirmations = 1
  HasArchive = TRUE
  None = None
  Emitted = {"LiquidityAdded", "Received", "Sent"}
  LastBlock = 3
  MaxEvents = 2
INVARIANTS TransfersComplete FeesRight
PROPERTY MinedIsReflected
CHECK_DEADLOCK FALSE
