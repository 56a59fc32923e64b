SPECIFICATION FairSpec

CONSTANTS
    Clients = {c1}
    Syncs = {s1}
    Tickers = {k1}
    MaxVersion = 3
    Nobody = Nobody

PROPERTY PagesCatchUp
