SPECIFICATION PeersSpec
CONSTANTS
  Requests = {r1, r2}
  Interval = 2
  RetryCount = 1
  MaxFlood = 2
  Floods = {1, 3}
  MaxTime = 2
  Runs = {run1, run2}
  Custom = {custom1}
  Proxies <- ProxyConfigs
  MaxDials = 1
  Life = 2
  LoginTime = 3
  MaxTokens = 2
  Mark = 1000
  Edge = 99
  Rooms <- Chats
  Start <- Contents
  Texts = {"t"}
  Options <- SendOptions
  Page = 3
  MaxId = 4
  MaxOther = 1
  Entities <- LargeIds
  Mentions <- Users
  Numerals <- Users
  Odd = {"1"}
CHECK_DEADLOCK FALSE
INVARIANT MarkedMeansChannel
