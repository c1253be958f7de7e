CONSTANTS
  Kinds = {"flipster"}
  Feeds = {"api", "web", "binance"}
  MaxTasks = 6
  MaxRefreshes = 0
SPECIFICATION Spec
INVARIANT ReceivedOnce
