SPECIFICATION Spec
CONSTANTS
  a1 = a1  a2 = a2  c1 = c1  c2 = c2  i1 = i1  i2 = i2
  h1 = h1  h2 = h2  t1 = t1  t2 = t2
  None = None
  Holds <- MCHolds
  AcwTime = 1
  MaxAcw = 2
  Agents = {a1, a2}
  Calls = {c1, c2}
  Instances = {i1}
  Handlers = {h1, h2}
  Tickers = {t1}
  InstanceOf <- OneProcess
  Requests <- PlainRequests
  Ops = {"connect", "setState", "offer"}
INVARIANTS OneRingPerAgent
CHECK_DEADLOCK FALSE
