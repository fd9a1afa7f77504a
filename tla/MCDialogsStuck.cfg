SPECIFICATION DialogsSpec
CONSTANTS
  MaxId = 3
  BatchSize = 2
  Limits = {0}
  MinDates = {0}
  Peers = {1, 2, 3, 4}
  Accounts <- Migrations
  Params <- DialogParams
  MaxDate = 5
  MaxMoves = 0
  MaxPost = 5
  Items = 4
  MaxPage = 2
  Caps = {0, 3, 4, 5}
CHECK_DEADLOCK FALSE
PROPERTY ChannelIsClosed
