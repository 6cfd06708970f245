SPECIFICATION AdminSpec
CONSTANTS
  u1 = u1  u2 = u2  t1 = t1  t2 = t2  s1 = s1  s2 = s2
  q1 = q1  q2 = q2  q3 = q3  m1 = m1  m2 = m2  p1 = p1  k1 = k1  a1 = a1  e1 = e1
  Nobody = Nobody  Absent = Absent
  People = {u1, u2}
  Admins = {u1}
  Tenants = {t1, t2}
  SignIns = {s1, s2}
  MaxCrashes = 1
  MaxInvites = 2
  Members = {m1, m2}
  Skills = {k1}
  Queues = {q1, q2, q3}
  KeyOf <- MCKeyOf
  Support = q1
  Assets = {a1}
  EmbedKeys = {e1}
  Allowed <- MCAllowed
  Origins = {"site", "elsewhere"}
  Configs = {"plain", "tuned"}
  Plain = "plain"
  Hourly <- MCHourly
  Pages = {p1}
  Requests = {s1, s2}
  Edits = {"save", "members", "skills", "queues", "sounds", "keys", "call", "config"}
  MaxEdits = 3
  Dates = {"d"}
  DayLength = 3
INVARIANTS AcceptedIsMember HistoryKept ScheduleAgrees
PROPERTIES RoleIsStable AdminsAreSettled
CHECK_DEADLOCK FALSE
