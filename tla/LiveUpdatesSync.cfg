SPECIFICATION Spec

CONSTANTS
    Clients = {c1, c2}
    Syncs = {s1, s2}
    Tickers = {}
    MaxVersion = 3
    Nobody = Nobody

INVARIANT IdlePagesAreCurrent
INVARIANT NoSendOnClosedChannel
