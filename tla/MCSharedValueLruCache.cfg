CONSTANTS
  t1 = t1
  t2 = t2
  t3 = t3
  c1 = c1
  c2 = c2
  Threads = {t1, t2, t3}
  Tokens = {c1, c2}
  Keys = {1, 2}
  MaxVersion = 1
  Changing = {1}
  MaxEntries = 1
  Timeout = 1
  NoKey = NoKey
  NoToken = NoToken
  NoThread = NoThread
  Pending = Pending
  Failed = Failed
SPECIFICATION FairSpec
INVARIANTS LruConsistent OneFactoryPerKey TokenAccounting FlightInv SleeperHasCreator
PROPERTIES PublishMonotone CallsReturn SharesFlights
