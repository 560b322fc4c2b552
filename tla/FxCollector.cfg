SPECIFICATION FairSpec
CONSTANTS
    EUR = EUR
    XAU = XAU
    Symbols <- mcSymbols
    Mapped <- mcSymbols
    BatchSize = 2
    MaxPolls = 2
INVARIANTS IInv
PROPERTIES ImplementsLog StopLeadsToExit
