SPECIFICATION FairSpec
CONSTANTS
    b1 = b1  b2 = b2
    NaN = NaN  NoTime = NoTime  Nil = Nil  None = None  NoRound = NoRound
    Callers <- TwoCallers
    Assets = {"weth"}
    Prices = {7}
    Retired = "kraken"
    Breakdowns <- TwoBreakdowns
    Instants = {13, 15, 17}
    MaxRounds = 3
    MaxConns = 2
    Second = 4
    Micro = 2
INVARIANTS AllOrNothing ReadsWhatWasStreamed HistoryStartsWithLatest
PROPERTIES ImplementsStore PoolServes
CHECK_DEADLOCK FALSE
