SPECIFICATION SimulatorSpec
CONSTANTS
    PaperOrders = {1, 2}
    Actions = {1}
    ActionTimes = {3}
    TradingDays = 2
    Capital = 3
    Prices = {1}
    Guard = 2
PROPERTY
    NoLeak
CHECK_DEADLOCK FALSE
