CONSTANTS
  a = a
  b = b
  onlyKey = onlyKey
  v = v
  w = w
  Starts <- Two
  StopRoom = 2
  LimitCallers = {a, b}
  Limiters <- Two
  StartSecs = 2
  Multiply = 2
  MaxSecs = 4
  CleanAfter = 1
  Keys = {onlyKey}
  MapUsers = {a, b}
  SecsToLive = 0
  CacheExpiry = 1
  MaxValues = 2
  CacheUsers = {a, b}
  DeleteAfter = 1
  SweepAfter = 2
  StoreUsers = {a, b}
  OptionUsers = {a, b}
  KeyedValues = {v, w}
  Absent = onlyKey
  AccountCallers = {a, b}
  UserNames = {onlyKey}
  Passwords = {v, w}
  MaxUserID = 2
  MaxToken = 2
  PoolWorkers = {a, b}
  WorkItems = 3
  Waiters = {a, b}
  Subscribers = {a, b}
  CommandSessions = {a}
  TypedPaths <- Typed
  TableUsers = {a, b}
  RowNames = {v, w}
  Appenders = {a, b}
  Loggers = {a, b}
SPECIFICATION Spec
INVARIANTS
  ServicesTypeOK
  TimingIsKept
  
  
  
  JobsAreKept
PROPERTIES
  WorkEnds
CHECK_DEADLOCK FALSE
