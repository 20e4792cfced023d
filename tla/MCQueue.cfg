SPECIFICATION FairSpec
CONSTANTS
  Producers = {p1, p2}
  Consumers = {c1, c2}
  None = None
  Closed = Closed
  Settings <- AllSettings
  BatchSize = 2
  MaxOffers = 5
INVARIANTS Exact FirstInFirstOut
PROPERTIES EveryOfferTold
