SPECIFICATION Spec
CONSTANTS
  Tickers = {"TSLA"}
  Fillers = {"my"}
  Companies <- MCCompanies
  TickerOf <- MCTickerOf
  Listed = {"TSLA"}
  Messages <- MCMessages
  Asked <- MCAsked
  MaxSteps = 2
  PerWindow = 1
  PerDay = 1
  Window = 1
  DayLength = 3
  MaxOrders = 2
  MaxTime = 4
INVARIANTS Inv
PROPERTIES BuysAreListed MessagesEnd
