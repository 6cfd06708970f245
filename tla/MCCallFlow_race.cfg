SPECIFICATION FairSpec
CONSTANTS
  a1 = a1  a2 = a2  a3 = a3  h1 = h1  h2 = h2
  None = None
  Agents = {a1, a2}
  Handlers = {h1, h2}
  Ops = {"escalate", "aiEnds", "leave", "transfer", "takeover"}
  MaxBus = 2
  MaxRequests = 4
  Wraps = FALSE
PROPERTIES  WaitingEnds AbandonedEnds
CHECK_DEADLOCK FALSE
