SPECIFICATION AllSpec
CONSTANTS
  h1 = h1
  h2 = h2
  p1 = p1
  m1 = m1
  m2 = m2
  Callers = {g1}
  Kinds = {"message", "callback", "typing"}
  Routed = {"message", "callback"}
  Handlers = {h1, h2}
  Accepts <- Filters
  Middlewares = {m1, m2}
  Recovers = {m1}
  Peers = {p1}
  Batches <- Containers
  MaxList = 2
  Waiters = {w1, w2}
  Deliverers = {d1}
  Queues <- OneQueue
  Items = {m1, m2}
  Requests <- OneWait
  None = None
  Cap = 1
  MaxGen = 2
INVARIANTS
  TypeOK CallsInOrder OkMeansAll ChainAsRegistered HashesFirst
  SessionsApart
PROPERTY WaitsEnd
