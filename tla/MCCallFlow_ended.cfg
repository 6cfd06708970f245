SPECIFICATION Spec
CONSTANTS
  a1 = a1  a2 = a2  a3 = a3  h1 = h1  h2 = h2
  None = None
  Agents = {a1, a2}
  Handlers = {h1, h2}
  Ops = {"escalate", "aiEnds", "leave"}
  MaxBus = 2
  MaxRequests = 5
  Wraps = TRUE
PROPERTIES EndedIsFinal
SYMMETRY AgentSymmetry
CHECK_DEADLOCK FALSE
