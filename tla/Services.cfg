SPECIFICATION AllSpec
CONSTANTS
  Sub = {s1}
  Short <- MCShort
  Caller = {c1, c2}
  None = none
  Session = {t1, t2}
  Window = 2
  MaxRequests = 2
  MaxTime = 4
  MaxAsked = 5
  Entry = {e1, e2, e3}
  Writer = {w1, w2}
  NoOne = nobody
  MaxRows = 4
  Agent = {a1, a2, a3}
  AgentID = {i1, i2, i3}
  NoAgent = nothing
  MaxAgents = 2
  Goal = {g1, g2}
  NoGoal = none
  MaxAttempts = 3
  MaxFaults = 1
  MaxCalls = 2
  Handler = {k1, k2}
  Hook = {k2}
  MaxDeadLetters = 1
  MaxHandlers = 2
  MaxEvents = 2
  Interval = {0, 1}
  MaxJobs = 2
  MaxSeconds = 2
  UserFiles <- MCUserFiles
  Environments <- MCEnvironments
  MaxEdits = 3
  Command = {"status", "gateway", "web", "terminal", "oneshot"}
  Probed = {"p", "q"}
  Primary = "p"
  Spares = 2
  Watcher = {y1}
  Racer = {y2}
  Faller = {y3}
  MaxProviders = 0
  Tolerated = 0
  Heated = 0
INVARIANTS
  AllTypeOK
  LimitIsExact
  ChainHolds
  OutcomesAreWhole
  TriesBounded
  TrackingIsSound
  ReportsAreWhole
  BackgroundIsSound
  StartIsSound
PROPERTIES
  FinishedStays
  ServicesGoOn
CHECK_DEADLOCK FALSE
