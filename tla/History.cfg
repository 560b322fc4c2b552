SPECIFICATION HistorySpec
CONSTANTS
    Bars <- candles
    Limit = 6
    Left = 1
    Right = 1
    MaxEvents = 2
    MaxBlocks = 1
    Capital = 100
    Scale = 20
    Slip = 1
    NumBins = 4
    AreaPct = 70
    EmaPeriod = 3
    RsiPeriod = 2
    FastPeriod = 2
    SlowPeriod = 3
    SignalPeriod = 2
    AtrPeriod = 2
    Books <- books
    Mids <- mids
    DefaultMid = 108500
    Spread = 15
    Grain = 10
    Levels = 4
    WallFactor = 3
INVARIANTS SupportBelowResistance TrendFollowsBreaks ProfitIsCash DrawdownIsWorstFall
INVARIANTS ValueAreaAroundPoc IndicatorsMatchDefinitions MeasuresFitBook
PROPERTIES SwingsNeverRepaint GapsStayFilled
