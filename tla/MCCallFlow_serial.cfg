SPECIFICATION Spec
CONSTANTS
  a1 = a1  a2 = a2  a3 = a3  h1 = h1  h2 = h2
  None = None
  Agents = {a1, a2, a3}
  Handlers = {h1}
  Ops = {"escalate", "aiEnds", "leave", "hold", "transfer", "consult", "complete", "takeover", "intercept"}
  MaxBus = 2
  MaxRequests = 7
  Wraps = TRUE
INVARIANTS TypeOK BusyIffOnCall MusicFollowsHold NoRingAfterEnd HumanCallHasHuman
PROPERTIES EndedIsFinal
SYMMETRY AgentSymmetry
CHECK_DEADLOCK FALSE
