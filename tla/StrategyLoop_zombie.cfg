SPECIFICATION Spec
CONSTANTS
    NoRunner = NoRunner
    BTC = BTC
    ETH = ETH
    r1 = r1
    r2 = r2
    Symbols <- oneSymbol
    Runners <- mcRunners
    Market <- mcMarket
    Capitals <- mcCapitals
    MaxTrades = 2
INVARIANTS RefusedBecauseRunning
