SPECIFICATION SimulatorSpec
CONSTANTS
    PaperOrders = {1}
    Actions = {1, 2}
    ActionTimes = {3, 4}
    TradingDays = 2
    Capital = 2
    Prices = {1}
    Guard = 2
INVARIANT
    SplitsInOrder
CHECK_DEADLOCK FALSE
