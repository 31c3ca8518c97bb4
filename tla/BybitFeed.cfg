CONSTANTS
  Opening <- MCOpening
  Trades <- MCTrades
  Subscribers = {"BestBidNotifier", "BestAskPriceNotifier", "BestBidOrBestAskNotifier", "TopN"}
  Uninitialized <- MCUninitialized
  Garbage <- MCGarbage
  FirstId = 2
  MaxMessages = 3
  MaxTrades = 2
  MaxRestarts = 1
  MaxRepeats = 1
  MaxLosses = 1
  MaxAhead = 2
  MaxBehind = 2
SPECIFICATION FairSpec
CHECK_DEADLOCK FALSE
INVARIANTS
  BookInOrder
  FollowsStream
  SubscriberIsTold
PROPERTIES
  EverythingSettles
