SPECIFICATION AllSpec
CONSTANTS
  Request = {r1, r2}
  Human = {h1, h2}
  None = none
  Conn = {c1, c2}
  NoWriter = nobody
  MaxFrames = 2
  MaxQuestions = 2
  Message <- MCMessage
  Setups <- MCSetups
  MaxDeliveries = 2
  Cap = 1
  Forget = 1
  Provider = {"openai", "gemini"}
  Default = "openai"
  Retries = 0
  MaxPieces = 1
  Capacity = 1
  MaxAsks = 2
  MaxEscapes = 1
  MaxPresses = 1
INVARIANTS
  AllTypeOK
  ListedAreAsked
  SentIsThere
  ScreensAreRight
  ChatsAreKept
PROPERTIES
  ChatGoesOn
CHECK_DEADLOCK FALSE
