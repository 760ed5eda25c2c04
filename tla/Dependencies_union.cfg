\* Two sizes, and a request that fails below a dependency both measured.
SPECIFICATION TreeSpec
CONSTANTS
    a = a
    b = b
    c = c
    Fiat = {a, b, c}
    Dest = dest
    Bridge = bridge
    Size = 2
    MaxDepth = 2
    MaxLost = 1
    Corridors <- MCCorridors
    Markets <- MCMarkets
\* A ladder ends with its summary.
CHECK_DEADLOCK FALSE
INVARIANT
    MeasuredNodeWins
