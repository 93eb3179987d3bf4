SPECIFICATION RetrySpec
CONSTANTS
  persons = persons
  orders = orders
  Orders = Orders
  longest = longest
  id = id
  nm = nm
  ex = ex
  select = select
  long = long
  Idents <- MCIdents
  BadIdents <- MCBadIdents
  Length <- MCLength
  Fold <- MCFold
  MAX_IDENT_LEN = 128
  MAX_COLUMNS = 3
  FirstCapacity = 1
  MIG_MAX_NAME = 128
  INDEX_NAME = 96
  NoTable = NoTable
  NoName = NoName
  Handles = {h1, h2}
  Setups <- RetrySetups
  Requests <- RetryRequests
  Configs <- RetryConfigs
  NoMemory = FALSE
  Busy = FALSE
  MaxIters = 0
  MaxRestarts = 1
PROPERTIES
  RetrySucceeds
