SPECIFICATION EdgesSpec
CONSTANTS
  Parts = {"music", "wav", "button", "job", "sockets", "offers", "audio", "work", "view", "team", "selection"}
  w1 = w1  w2 = w2  w3 = w3  f1 = f1  f2 = f2
  Sessions = {w1, w2, w3}
  Files = {f1, f2}
  Synth = Synth  None = None
  MaxFiles = 1
  MaxCommands = 4
  MaxRestarts = 1
  FileSizes = {10, 44, 46, 47}
  ChunkSizes = {0, 1, 3, 15, 16, 17, 400}
  Formats <- MCFormats
  TargetRate = 3
  MaxAttempts = 2  NoRoom = NoRoom
  i1 = i1  i2 = i2  k1 = k1  k2 = k2  c1 = c1
  Instances = {i1, i2}
  Sockets = {k1, k2}
  NoRow = NoRow
  Calls = {c1}
  h1 = h1  h2 = h2
  Agents = {h1, h2}
  MaxLost = 1
  x1 = x1  x2 = x2
  Offered = {x1, x2}
  NoCall = NoCall
  MaxRings = 2  MaxClicks = 1  MaxDrops = 1  MaxFrames = 1
  d1 = d1  d2 = d2
  Desks = {d1}
  Customer = Customer
  MaxHolds = 3  MaxToggles = 1  MaxJoins = 2  MaxOutages = 1
  r1 = r1  r2 = r2
  Handlers = {r1, r2}
  NoEgress = NoEgress
  MaxEgresses = 3  MaxDeaths = 1
  t1 = t1  t2 = t2
  Texts = {t1, t2}
  a1 = a1  a2 = a2  c2 = c2
  Staff = {a1, a2}
  Worked = {c2}
  NoWork = NoWork
  MaxMoves = 6  MaxUnsent = 2
  b1 = b1  b2 = b2
  Reps = {b1, b2}
  Topics = {"billing"}
  Tongues = {"de"}
  Configs <- MCConfigs
  Rosters <- MCRosters
  Seat <- MCSeat
  NoOne = NoOne
  MaxTurns = 5  MaxAsks = 2
  MaxSaid = 3  MaxFetches = 2  MaxCuts = 1
INVARIANTS
  EdgesTypeOK MicIsShown RosterAgrees  MusicIsStoppable ReadsItsData
   AudioFollowsHold  TranscriptIsWhole TeamIsShown TagsSurvive TurnsAreShared
PROPERTIES StopIsHeeded 
CHECK_DEADLOCK FALSE
