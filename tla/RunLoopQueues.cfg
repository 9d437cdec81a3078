SPECIFICATION FairSpec
CONSTANTS
  Object = {a, b, c}
  BatchSize = 2
  MaxAdded = 4
INVARIANTS DiesOnMainThread
PROPERTIES QueueDrains EveryRequestIsServed
