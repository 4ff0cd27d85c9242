CONSTANTS
  NumConsumers = 3
  QueueSize = 2
  MaxOffers = 4
  Clients = {"c1", "c2", "c3"}
  MaxSize = 2
  MaxCreated = 4
  Users = {"u1", "u2"}
  Keys = {"a", "b", "c"}
  MaxCapacity = 3
  Threads = {"t1", "t2", "t3"}
  Channels = {"x", "y"}
  Capacity <- Buffers
  Selects <- CaseLists
  MaxCalls = 3
  LockUsers = {"u1", "u2", "u3"}
  LockIds = {"a", "b", "c"}
  Reentrant = {"b"}
  MaxHolds = 2
  Callers = {"c1", "c2", "c3"}
  MaxRetries = 3
  MaxRounds = 5
SPECIFICATION Spec
INVARIANTS QueueDelivers NoLostWakeup LimitsHold LruOrder GraphIsSound
PROPERTY CallsEndAfterClose
CHECK_DEADLOCK FALSE
